-------------------------- MODULE Arithmetic_proofs --------------------------
(***************************************************************************)
(* Theorems about Arithmetic, for every width of a word and every input.   *)
(***************************************************************************)
EXTENDS Arithmetic, Common_proofs, FiniteSetTheorems

------------------------------------------------------------------------------
(* Powers of two.                                                          *)

LEMMA Pow2Def ==
  /\ Pow2 \in [Nat -> Nat]
  /\ Pow2[0] = 1
  /\ \A k \in Nat : Pow2[k + 1] = 2 * Pow2[k]
<1> DEFINE step == [x \in Nat |-> 2 * x]
           Is(f) == f = [k \in Nat |-> IF k = 0 THEN 1 ELSE 2 * f[k - 1]]
           p == CHOOSE f : Is(f)
<1>1. step \in [Nat -> Nat] /\ 1 \in Nat
  OBVIOUS
<1>2. PICK h \in [Nat -> Nat] : h[0] = 1 /\ \A i \in Nat : h[i + 1] = step[h[i]]
  <2> DEFINE A == Nat
             b == 1
  <2>1. b \in A /\ step \in [A -> A]
    BY <1>1
  <2> HIDE DEF step, A, b
  <2>2. \E h \in [Nat -> A] : Iterates(h, b, step)
    BY <2>1, IteratesExist, Zenon
  <2> QED BY <2>2 DEF A, b, Iterates
<1>3. \A i \in Nat : h[i + 1] = 2 * h[i]
  BY <1>2
<1>4. ASSUME NEW k \in Nat PROVE h[k] = IF k = 0 THEN 1 ELSE 2 * h[k - 1]
  <2>1. CASE k = 0
    BY <1>2, <2>1
  <2>2. CASE k # 0
    <3>1. k - 1 \in Nat /\ (k - 1) + 1 = k
      BY <2>2
    <3>2. h[k] = 2 * h[k - 1]
      BY <1>3, <3>1
    <3> QED BY <2>2, <3>2
  <2> QED BY <2>1, <2>2
<1>5. Is(h)
  BY <1>4
<1>6. Is(p)
  BY <1>5, Zenon
<1>7. Pow2 = p
  BY Zenon DEF Pow2
<1> HIDE DEF p
<1>8. \A k \in Nat : p[k] = IF k = 0 THEN 1 ELSE 2 * p[k - 1]
  BY <1>6
<1>9. p[0] = 1
  BY <1>8
<1>10. \A k \in Nat : p[k + 1] = 2 * p[k]
  <2> TAKE k \in Nat
  <2>1. k + 1 \in Nat /\ k + 1 # 0 /\ (k + 1) - 1 = k
    OBVIOUS
  <2>2. p[k + 1] = IF k + 1 = 0 THEN 1 ELSE 2 * p[(k + 1) - 1]
    BY <1>8, <2>1
  <2> QED BY <2>1, <2>2
<1>11. \A k \in Nat : p[k] \in Nat
  <2> DEFINE S == {k \in Nat : p[k] \in Nat}
  <2>1. 0 \in S
    BY <1>9
  <2>2. \A k \in Nat : k \in S => k + 1 \in S
    BY <1>10
  <2> HIDE DEF S
  <2>3. \A k \in Nat : k \in S
    BY <2>1, <2>2, NaturalInduction, Zenon
  <2> QED BY <2>3 DEF S
<1>12. p = [k \in Nat |-> p[k]]
  BY <1>6
<1>13. p \in [Nat -> Nat]
  BY <1>11, <1>12
<1> QED BY <1>7, <1>9, <1>10, <1>13

LEMMA Pow2Positive ==
  \A k \in Nat : Pow2[k] \in Nat /\ Pow2[k] > 0 /\ k < Pow2[k]
<1> DEFINE S == {k \in Nat : Pow2[k] > 0 /\ k < Pow2[k]}
<1>1. 0 \in S
  BY Pow2Def
<1>2. ASSUME NEW k \in Nat, k \in S PROVE k + 1 \in S
  <2>1. Pow2[k] \in Nat /\ Pow2[k] > 0 /\ k < Pow2[k] /\ Pow2[k + 1] = 2 * Pow2[k]
    BY Pow2Def, <1>2
  <2> QED BY <2>1
<1> HIDE DEF S
<1>3. \A k \in Nat : k \in S
  BY <1>1, <1>2, NaturalInduction
<1> QED BY <1>3, Pow2Def DEF S

LEMMA Pow2Sum ==
  ASSUME NEW a \in Nat, NEW b \in Nat
  PROVE  Pow2[a + b] = Pow2[a] * Pow2[b]
<1> DEFINE S == {k \in Nat : Pow2[a + k] = Pow2[a] * Pow2[k]}
<1>1. 0 \in S
  BY Pow2Def
<1>2. ASSUME NEW k \in Nat, k \in S PROVE k + 1 \in S
  <2> DEFINE x == Pow2[a]
             y == Pow2[k]
  <2>1. x \in Nat /\ y \in Nat /\ Pow2[a + k] = x * y /\ Pow2[k + 1] = 2 * y
    BY Pow2Def, <1>2
  <2>2. Pow2[(a + k) + 1] = 2 * Pow2[a + k]
    BY Pow2Def
  <2>3. a + (k + 1) = (a + k) + 1
    OBVIOUS
  <2>4. Pow2[a + (k + 1)] = 2 * (x * y)
    BY <2>1, <2>2, <2>3, Zenon
  <2>5. 2 * (x * y) = x * (2 * y)
    <3> HIDE DEF x, y
    <3> QED BY <2>1
  <2> QED BY <2>1, <2>4, <2>5
<1> HIDE DEF S
<1>3. \A k \in Nat : k \in S
  BY <1>1, <1>2, NaturalInduction
<1> QED BY <1>3 DEF S

LEMMA Pow2Grows ==
  ASSUME NEW a \in Nat, NEW b \in Nat, a < b
  PROVE  2 * Pow2[a] <= Pow2[b] /\ Pow2[a] < Pow2[b]
<1> DEFINE c == b - a - 1
           x == Pow2[a]
           y == Pow2[c]
<1>1. c \in Nat /\ (a + 1) + c = b /\ a + 1 \in Nat
  OBVIOUS
<1>2. x \in Nat /\ y \in Nat /\ x > 0 /\ y > 0
  BY <1>1, Pow2Positive
<1>3. Pow2[b] = Pow2[a + 1] * y /\ Pow2[a + 1] = 2 * x
  <2> HIDE DEF c
  <2> QED BY <1>1, Pow2Sum, Pow2Def
<1> HIDE DEF x, y
<1>4. (2 * x) * y >= 2 * x
  BY <1>2
<1> QED BY <1>2, <1>3, <1>4 DEF x

LEMMA Pow2Order ==
  ASSUME NEW a \in Nat, NEW b \in Nat, NEW s \in Nat, s > 0
  PROVE  s * Pow2[a] <= s * Pow2[b] <=> a <= b
<1> DEFINE x == Pow2[a]
           y == Pow2[b]
<1>1. x \in Nat /\ y \in Nat
  BY Pow2Positive
<1>2. a <= b => x <= y
  BY <1>1, Pow2Grows
<1>3. b < a => y < x
  BY <1>1, Pow2Grows
<1> HIDE DEF x, y
<1>4. x <= y => s * x <= s * y
  BY <1>1
<1>5. y < x => s * y < s * x
  BY <1>1
<1> QED BY <1>1, <1>2, <1>3, <1>4, <1>5 DEF x, y

------------------------------------------------------------------------------
(* Division.                                                               *)

LEMMA Division ==
  ASSUME NEW n \in Nat, NEW m \in Nat, m > 0
  PROVE  n \div m \in Nat /\ (n \div m) * m <= n /\ n < (n \div m + 1) * m
OBVIOUS

LEMMA Quotient ==
  ASSUME NEW n \in Nat, NEW m \in Nat, m > 0, NEW q \in Nat, q * m <= n, n < (q + 1) * m
  PROVE  n \div m = q
<1> DEFINE p == n \div m
<1>1. p \in Nat /\ p * m <= n /\ n < (p + 1) * m
  BY Division
<1> HIDE DEF p
<1>2. ~(p < q)
  <2>1. p < q => (p + 1) * m <= q * m
    BY <1>1
  <2> QED BY <1>1, <2>1
<1>3. ~(q < p)
  <2>1. q < p => (q + 1) * m <= p * m
    BY <1>1
  <2> QED BY <1>1, <2>1
<1> QED BY <1>1, <1>2, <1>3 DEF p

------------------------------------------------------------------------------
(* Capacity.                                                               *)

(* n slots of which one in D is kept free admit m entries exactly from
   m + (m - 1) div (D - 1) on. *)
LEMMA LimitCovers ==
  ASSUME NEW n \in Nat, NEW m \in Nat, m > 0, NEW D \in Nat, D > 1
  PROVE  n - n \div D >= m <=> n >= m + (m - 1) \div (D - 1)
<1> DEFINE q == n \div D
           e == (m - 1) \div (D - 1)
           E == D - 1
<1>1. q \in Nat /\ q * D <= n /\ n < (q + 1) * D
  BY Division
<1>2. e \in Nat /\ e * E <= m - 1 /\ m - 1 < (e + 1) * E
  <2>1. m - 1 \in Nat /\ E \in Nat /\ E > 0
    OBVIOUS
  <2> HIDE DEF E
  <2> QED BY <2>1, Division DEF E
<1>3. E \in Nat /\ E > 0 /\ D = E + 1
  OBVIOUS
<1> HIDE DEF q, e, E
<1>4. q * D = q * E + q /\ (q + 1) * D = (q + 1) * E + q + 1
  BY <1>1, <1>3
<1>5. ASSUME n >= m + e, n - q < m PROVE FALSE
  <2>1. q * E <= m - 1
    BY <1>1, <1>4, <1>5, <1>3
  <2>2. q > e => (e + 1) * E <= q * E
    BY <1>1, <1>2, <1>3
  <2>3. q <= e
    BY <1>1, <1>2, <1>3, <2>1, <2>2
  <2> QED BY <1>1, <1>2, <1>5, <2>3
<1>6. ASSUME n - q >= m, n < m + e PROVE FALSE
  <2>1. q + 1 <= e
    BY <1>1, <1>2, <1>6
  <2>2. (q + 1) * E <= e * E
    BY <1>1, <1>2, <1>3, <2>1
  <2> QED BY <1>1, <1>2, <1>3, <1>4, <1>6, <2>2
<1> QED BY <1>1, <1>2, <1>5, <1>6 DEF q, e, E

LEMMA UsizeFacts ==
  /\ Word \in Nat /\ Word > 0 /\ UsizeBits \in Nat
  /\ Word = Pow2[UsizeBits]
  /\ \A n : n \in Usize <=> n \in Nat /\ n < Word
BY WordAssumption, InputAssumption DEF Usize

LEMMA ExactCovers ==
  ASSUME NEW needed \in Usize, NEW d \in Nat \ {0}, NEW n \in Usize
  PROVE  InsertionLimit(n, d) >= needed <=> \E c \in ExactCapacityFor(needed, d) : n >= c
<1> DEFINE D == Pow2[d]
<1>1. needed \in Nat /\ n \in Nat /\ n < Word /\ Word \in Nat /\ UsizeBits \in Nat
  BY UsizeFacts
<1>2. D \in Nat /\ D > 1
  BY Pow2Positive
<1>3. n \div D \in Nat /\ n \div D <= n
  <2> HIDE DEF D
  <2>1. n \div D \in Nat /\ (n \div D) * D <= n
    BY <1>1, <1>2, Division
  <2>2. (n \div D) <= (n \div D) * D
    BY <1>2, <2>1
  <2> QED BY <1>1, <1>2, <2>1, <2>2
<1>4. CASE needed = 0
  <2>1. InsertionLimit(n, d) >= 0
    BY <1>1, <1>3 DEF InsertionLimit, FloorReserved, FloorDivPow2
  <2> QED BY <1>1, <1>4, <2>1 DEF ExactCapacityFor
<1>5. CASE needed # 0 /\ d >= UsizeBits
  BY <1>1, <1>5 DEF InsertionLimit, FloorReserved, FloorDivPow2, ExactCapacityFor
<1>6. CASE needed # 0 /\ ~(d >= UsizeBits)
  <2> DEFINE c == needed + (needed - 1) \div (D - 1)
  <2>1. c \in Nat
    <3>1. needed - 1 \in Nat /\ D - 1 \in Nat /\ D - 1 > 0
      BY <1>1, <1>2, <1>6
    <3> HIDE DEF D
    <3>2. (needed - 1) \div (D - 1) \in Nat
      BY <3>1, Division
    <3> QED BY <1>1, <3>2
  <2>2. n - n \div D >= needed <=> n >= c
    <3> HIDE DEF D
    <3> QED BY <1>1, <1>2, <1>6, LimitCovers
  <2>3. InsertionLimit(n, d) = n - n \div D
    BY <1>6 DEF InsertionLimit, FloorReserved, FloorDivPow2
  <2>4. ExactCapacityFor(needed, d) = {c} \cap Usize
    BY <1>6 DEF ExactCapacityFor, Checked
  <2> HIDE DEF c, D
  <2>5. n >= c => c \in Usize
    BY <1>1, <2>1, UsizeFacts
  <2> QED BY <2>2, <2>3, <2>4, <2>5
<1> QED BY <1>4, <1>5, <1>6

LEMMA DoublingIsLeast ==
  ASSUME NEW start \in Nat, start > 0, NEW needed \in Usize, NEW d \in Nat \ {0}
  PROVE  CapacityFor(start, needed, d) =
           Least({start * Pow2[k] : k \in 0..UsizeBits}
                   \cap {n \in Usize : \E c \in ExactCapacityFor(needed, d) : n >= c})
<1> DEFINE f(k) == start * Pow2[k]
           enough == {k \in 0..UsizeBits : f(k) < Word /\ InsertionLimit(f(k), d) >= needed}
           fits == {n \in Usize : \E c \in ExactCapacityFor(needed, d) : n >= c}
           S == {f(k) : k \in 0..UsizeBits} \cap fits
<1>1. \A k \in 0..UsizeBits : k \in Nat /\ f(k) \in Nat
  <2>1. \A k \in 0..UsizeBits : k \in Nat /\ Pow2[k] \in Nat
    BY UsizeFacts, Pow2Positive
  <2> QED BY <2>1
<1>2. \A j, k \in 0..UsizeBits : f(j) <= f(k) <=> j <= k
  BY <1>1, Pow2Order
<1>3. ASSUME NEW k \in 0..UsizeBits PROVE k \in enough <=> f(k) \in fits
  <2> HIDE DEF f
  <2>1. f(k) < Word <=> f(k) \in Usize
    BY <1>1, UsizeFacts
  <2> QED BY <2>1, ExactCovers
<1>4. S = {f(k) : k \in enough}
  <2> HIDE DEF f, fits
  <2> QED BY <1>3
<1>5. Least(S) = {f(k) : k \in {k \in enough : \A j \in enough : k <= j}}
  <2>1. enough \subseteq 0..UsizeBits
    OBVIOUS
  <2>2. \A j, k \in enough : f(k) <= f(j) <=> k <= j
    BY <1>2
  <2> HIDE DEF f, S, enough
  <2>3. \A x : x \in Least(S) <=> \E k \in enough : x = f(k) /\ \A j \in enough : f(k) <= f(j)
    BY <1>4, Zenon DEF Least
  <2>4. \A x : x \in Least(S) <=> \E k \in enough : x = f(k) /\ \A j \in enough : k <= j
    BY <2>2, <2>3, Zenon
  <2> QED BY <2>4
<1>6. CapacityFor(start, needed, d) = {f(k) : k \in {k \in enough : \A j \in enough : k <= j}}
  BY DEF CapacityFor
<1> QED BY <1>5, <1>6

------------------------------------------------------------------------------
(* Lengths in bits and the probe budget.                                   *)

(* y has k bits. *)
Width(y, k) == k \in Nat /\ y < Pow2[k] /\ (k # 0 => Pow2[k - 1] <= y)

LEMMA WidthLeast ==
  ASSUME NEW y \in Nat, NEW k, Width(y, k), NEW j \in Nat
  PROVE  y < Pow2[j] <=> k <= j
<1>1. k \in Nat /\ y < Pow2[k] /\ (k # 0 => Pow2[k - 1] <= y)
  BY DEF Width
<1>2. Pow2[j] \in Nat /\ Pow2[k] \in Nat
  BY <1>1, Pow2Positive
<1>3. k <= j => Pow2[k] <= Pow2[j]
  BY <1>1, <1>2, Pow2Grows
<1>4. ASSUME j < k, y < Pow2[j] PROVE FALSE
  <2>1. k - 1 \in Nat /\ j <= k - 1
    BY <1>1, <1>4
  <2>2. Pow2[k - 1] \in Nat
    BY <2>1, Pow2Positive
  <2>3. Pow2[j] <= Pow2[k - 1]
    BY <1>2, <2>1, <2>2, Pow2Grows
  <2> QED BY <1>1, <1>2, <1>4, <2>2, <2>3
<1> QED BY <1>1, <1>2, <1>3, <1>4

LEMMA WidthExists ==
  ASSUME NEW y \in Nat
  PROVE  \E k : Width(y, k)
<1> DEFINE S == {k \in Nat : y < Pow2[k]}
<1>1. S \in SUBSET Nat /\ y \in S
  BY Pow2Positive
<1>2. PICK k \in S : \A j \in S : k <= j
  BY <1>1, LeastNat, Zenon
<1>3. k # 0 => Pow2[k - 1] <= y
  <2>1. ASSUME k # 0 PROVE Pow2[k - 1] <= y
    <3>1. k - 1 \in Nat /\ ~(k <= k - 1)
      BY <1>2, <2>1
    <3>2. k - 1 \notin S
      BY <1>2, <3>1
    <3>3. Pow2[k - 1] \in Nat
      BY <3>1, Pow2Positive
    <3> QED BY <3>1, <3>2, <3>3
  <2> QED BY <2>1
<1> QED BY <1>2, <1>3 DEF Width

LEMMA WidthUnique ==
  ASSUME NEW y \in Nat, NEW k, NEW j, Width(y, k), Width(y, j)
  PROVE  k = j
<1>1. k \in Nat /\ j \in Nat /\ y < Pow2[k] /\ y < Pow2[j]
  BY DEF Width
<1>2. k <= j /\ j <= k
  BY <1>1, WidthLeast
<1> QED BY <1>1, <1>2

LEMMA WidthHalf ==
  ASSUME NEW y \in Nat, y # 0, NEW k, Width(y \div 2, k)
  PROVE  Width(y, 1 + k)
<1> DEFINE h == y \div 2
<1>1. k \in Nat /\ h < Pow2[k] /\ (k # 0 => Pow2[k - 1] <= h)
  BY DEF Width
<1>2. h \in Nat /\ 2 * h <= y /\ y < 2 * h + 2
  OBVIOUS
<1>3. Pow2[k] \in Nat /\ Pow2[k + 1] = 2 * Pow2[k] /\ k + 1 = 1 + k
  BY <1>1, Pow2Def
<1> HIDE DEF h
<1>4. y < Pow2[1 + k]
  BY <1>1, <1>2, <1>3
<1>5. Pow2[k] <= y
  <2>1. CASE k = 0
    BY <2>1, Pow2Def
  <2>2. CASE k # 0
    <3>1. k - 1 \in Nat /\ (k - 1) + 1 = k
      BY <1>1, <2>2
    <3>2. Pow2[k - 1] \in Nat /\ Pow2[k] = 2 * Pow2[k - 1]
      BY <3>1, Pow2Def
    <3> QED BY <1>1, <1>2, <2>2, <3>2
  <2> QED BY <2>1, <2>2
<1>6. 1 + k \in Nat /\ (1 + k) - 1 = k
  BY <1>1
<1> QED BY <1>4, <1>5, <1>6 DEF Width

LEMMA BitLengthWidth ==
  ASSUME NEW x \in Nat
  PROVE  Width(x, BitLength(x))
<1> DEFINE Is(f) == f = [y \in 0..x |-> IF y = 0 THEN 0 ELSE 1 + f[y \div 2]]
           bits == CHOOSE f : Is(f)
           width(y) == CHOOSE k : Width(y, k)
           w == [y \in 0..x |-> width(y)]
<1>1. ASSUME NEW y \in Nat PROVE Width(y, width(y))
  BY WidthExists, Zenon
<1> HIDE DEF width
<1>2. width(0) = 0
  <2>1. Width(0, 0)
    BY Pow2Def DEF Width
  <2> QED BY <1>1, <2>1, WidthUnique
<1>3. ASSUME NEW y \in 0..x, y # 0 PROVE y \div 2 \in 0..x /\ y \div 2 < y /\ width(y) = 1 + width(y \div 2)
  <2>1. y \in Nat /\ y \div 2 \in Nat /\ y \div 2 \in 0..x /\ y \div 2 < y
    BY <1>3
  <2>2. Width(y, 1 + width(y \div 2))
    BY <1>1, <1>3, <2>1, WidthHalf
  <2> QED BY <1>1, <2>1, <2>2, WidthUnique
<1>4. Is(w)
  <2>1. ASSUME NEW y \in 0..x PROVE w[y] = IF y = 0 THEN 0 ELSE 1 + w[y \div 2]
    <3>1. CASE y = 0
      BY <3>1, <1>2
    <3>2. CASE y # 0
      <4>1. y \div 2 \in 0..x /\ width(y) = 1 + width(y \div 2)
        BY <1>3, <3>2
      <4>2. w[y] = width(y) /\ w[y \div 2] = width(y \div 2)
        BY <4>1
      <4> QED BY <4>1, <4>2, <3>2
    <3> QED BY <3>1, <3>2
  <2> QED BY <2>1
<1>5. Is(bits)
  BY <1>4, Zenon
<1>6. BitLength(x) = bits[x]
  BY Zenon DEF BitLength
<1> HIDE DEF bits
<1>7. \A y \in 0..x : bits[y] = IF y = 0 THEN 0 ELSE 1 + bits[y \div 2]
  BY <1>5
<1>8. \A y \in 0..x : bits[y] = width(y)
  <2> SUFFICES ASSUME NEW z \in 0..x, bits[z] # width(z) PROVE FALSE
    OBVIOUS
  <2> DEFINE S == {y \in 0..x : bits[y] # width(y)}
  <2>1. PICK y \in S : \A v \in S : y <= v
    <3>1. S \in SUBSET Nat /\ S # {}
      OBVIOUS
    <3> QED BY <3>1, LeastNat, Zenon
  <2>2. y \in 0..x /\ bits[y] # width(y)
    BY <2>1
  <2>3. y # 0
    BY <1>2, <1>7, <2>2
  <2>4. y \div 2 \in 0..x /\ y \div 2 < y /\ width(y) = 1 + width(y \div 2)
    BY <1>3, <2>2, <2>3
  <2>5. y \div 2 \notin S
    <3>1. ~(y <= y \div 2)
      BY <2>2, <2>4
    <3> QED BY <3>1, <2>1
  <2>6. bits[y \div 2] = width(y \div 2)
    BY <2>4, <2>5
  <2> QED BY <1>7, <2>2, <2>3, <2>4, <2>6
<1>9. x \in 0..x
  OBVIOUS
<1> QED BY <1>1, <1>6, <1>8, <1>9

(* A quotient rounded up. *)
LEMMA RoundedUp ==
  ASSUME NEW s \in Nat, NEW f \in Nat, f > 0, NEW r \in Nat
  PROVE  /\ (s + f - 1) \div f \in Nat
         /\ (s + f - 1) \div f <= r <=> s <= r * f
<1> DEFINE q == (s + f - 1) \div f
<1>1. q \in Nat /\ q * f <= s + f - 1 /\ s + f - 1 < (q + 1) * f
  <2>1. s + f - 1 \in Nat
    OBVIOUS
  <2> QED BY <2>1, Division
<1> HIDE DEF q
<1>2. s <= q * f
  <2>1. (q + 1) * f = q * f + f
    BY <1>1
  <2> QED BY <1>1, <2>1
<1>3. q <= r => q * f <= r * f
  BY <1>1
<1>4. r < q => (r + 1) * f <= q * f
  BY <1>1
<1>5. (r + 1) * f = r * f + f
  OBVIOUS
<1>6. q * f \in Nat /\ r * f \in Nat
  BY <1>1
<1> QED BY <1>1, <1>2, <1>3, <1>4, <1>5, <1>6 DEF q

(* The logarithm of the budget is the least doubling of the free slots that
   reaches the slots. *)
LEMMA BudgetLogarithm ==
  ASSUME NEW s \in Usize, NEW f \in Nat, 0 < f, f <= s
  PROVE  BitLength((s + f - 1) \div f - 1) \in Least({k \in 0..UsizeBits : Pow2[k] * f >= s})
<1> DEFINE r == (s + f - 1) \div f
           b == BitLength(r - 1)
<1>1. s \in Nat /\ s < Pow2[UsizeBits] /\ UsizeBits \in Nat /\ f \in Nat /\ f > 0
  BY UsizeFacts
<1>2. r \in Nat /\ ~(r <= 0)
  <2>1. r \in Nat /\ (r <= 0 <=> s <= 0 * f)
    BY <1>1, RoundedUp
  <2> HIDE DEF r
  <2> QED BY <1>1, <2>1
<1>3. \A k \in Nat : Pow2[k] \in Nat /\ (r <= Pow2[k] <=> s <= Pow2[k] * f)
  BY <1>1, RoundedUp, Pow2Positive
<1> HIDE DEF r
<1>4. r - 1 \in Nat
  BY <1>2
<1>5. Width(r - 1, b)
  BY <1>4, BitLengthWidth
<1> HIDE DEF b
<1>6. b \in Nat
  BY <1>5 DEF Width
<1>7. ASSUME NEW k \in Nat PROVE s <= Pow2[k] * f <=> b <= k
  <2>1. r - 1 < Pow2[k] <=> b <= k
    BY <1>4, <1>5, WidthLeast
  <2> QED BY <1>2, <1>3, <2>1
<1>8. s <= Pow2[UsizeBits] * f
  <2> DEFINE p == Pow2[UsizeBits]
  <2>1. p \in Nat
    BY <1>1, Pow2Positive
  <2> HIDE DEF p
  <2>2. p <= p * f
    BY <1>1, <2>1
  <2>3. p * f \in Nat /\ s < p
    BY <1>1, <2>1 DEF p
  <2>4. s <= p * f
    BY <1>1, <2>1, <2>2, <2>3
  <2> QED BY <2>4 DEF p
<1>9. b <= UsizeBits
  BY <1>1, <1>7, <1>8
<1>10. \A k \in Nat : Pow2[k] * f \in Nat
  BY <1>1, Pow2Positive
<1>11. b \in {k \in 0..UsizeBits : Pow2[k] * f >= s}
  BY <1>1, <1>6, <1>7, <1>9, <1>10
<1>12. \A k \in {k \in 0..UsizeBits : Pow2[k] * f >= s} : b <= k
  BY <1>1, <1>7, <1>10
<1> QED BY <1>11, <1>12 DEF Least, b, r

------------------------------------------------------------------------------
(* Range reduction.                                                        *)

(* The threshold is what the words leave over a whole number of bounds. *)
LEMMA ThresholdFacts ==
  ASSUME NEW u \in Nat, u > 0, u < Words
  PROVE  /\ Words \in Nat /\ Words \div u \in Nat /\ RejectionThreshold(u) \in Nat
         /\ Words = (Words \div u) * u + RejectionThreshold(u)
         /\ RejectionThreshold(u) < u
<1> DEFINE N == Words
           q == N \div u
           M == N - u
           t == M % u
<1>1. N \in Nat /\ M \in Nat
  <2>1. N \in Nat
    BY WordBitsAssumption, Pow2Positive DEF Words
  <2> QED BY <2>1
<1> HIDE DEF N
<1>2. q \in Nat /\ q * u <= N /\ N < (q + 1) * u
  BY <1>1, Division
<1> HIDE DEF q, M
<1>3. M \div u \in Nat /\ t \in Nat /\ t < u /\ M = (M \div u) * u + t
  BY <1>1
<1>4. q # 0
  BY <1>1, <1>2 DEF N
<1>5. M \div u = q - 1
  <2>1. q - 1 \in Nat /\ (q - 1) * u = q * u - u /\ ((q - 1) + 1) * u = (q + 1) * u - u
    BY <1>2, <1>4
  <2>2. (q - 1) * u <= M /\ M < ((q - 1) + 1) * u
    BY <1>1, <1>2, <2>1 DEF M
  <2> QED BY <1>1, <2>1, <2>2, Quotient
<1>6. N = q * u + t
  <2>1. (q - 1) * u = q * u - u
    BY <1>2, <1>4
  <2>2. M = (q - 1) * u + t
    BY <1>3, <1>5
  <2> QED BY <1>1, <1>2, <1>3, <2>1, <2>2 DEF M
<1>7. t = RejectionThreshold(u)
  BY DEF t, M, N, RejectionThreshold
<1> QED BY <1>1, <1>2, <1>3, <1>6, <1>7 DEF N, q

(* The accepted words of one index are those whose product falls into a whole
   number of bounds. *)
LEMMA AcceptedWords ==
  ASSUME NEW u \in Nat, u > 0, u < Words, NEW x \in Nat, NEW w \in Nat
  PROVE  LET a == x * Words + RejectionThreshold(u)
         IN  Accepts(w, u) /\ High(w, u) = x <=> a <= w * u /\ w * u < a + (Words \div u) * u
<1> DEFINE N == Words
           t == RejectionThreshold(u)
           q == N \div u
           y == w * u
<1>1. N \in Nat /\ q \in Nat /\ t \in Nat /\ N = q * u + t /\ t < u /\ N > 0
  <2>1. N > 0
    BY ThresholdFacts
  <2> QED BY <2>1, ThresholdFacts
<1>2. y \in Nat
  OBVIOUS
<1>3. Accepts(w, u) <=> y % N >= t
  BY DEF Accepts
<1>4. High(w, u) = y \div N
  BY DEF High
<1> HIDE DEF N, t, q, y
<1>5. y \div N \in Nat /\ y % N \in Nat /\ y % N < N /\ y = (y \div N) * N + (y % N)
  BY <1>1, <1>2
<1>6. (x + 1) * N = x * N + N /\ x * N \in Nat
  BY <1>1
<1>7. x * N + t <= y /\ y < x * N + N => y \div N = x
  BY <1>1, <1>2, <1>6, Quotient
<1>8. Accepts(w, u) /\ High(w, u) = x <=> x * N + t <= y /\ y < (x * N + t) + q * u
  <2>1. ASSUME y \div N = x PROVE y = x * N + (y % N)
    BY <1>5, <2>1
  <2>2. q * u \in Nat /\ (x * N + t) + q * u = x * N + N
    BY <1>1, <1>6
  <2> QED BY <1>1, <1>2, <1>3, <1>4, <1>5, <1>6, <1>7, <2>1, <2>2
<1> QED BY <1>8 DEF N, t, q, y

(* So many words in a row. *)
LEMMA WordsInARow ==
  ASSUME NEW u \in Nat, u > 0, NEW a \in Nat, NEW q \in Nat, NEW w \in Nat
  PROVE  LET lo == (a + u - 1) \div u
         IN  a <= w * u /\ w * u < a + q * u <=> lo <= w /\ w < lo + q
<1> DEFINE lo == (a + u - 1) \div u
<1>1. lo \in Nat
  BY RoundedUp
<1>2. a <= w * u <=> lo <= w
  BY RoundedUp
<1>3. w * u < a + q * u <=> w < lo + q
  <2>1. CASE w < q
    <3>1. w * u < q * u
      BY <2>1
    <3> QED BY <1>1, <2>1, <3>1
  <2>2. CASE ~(w < q)
    <3>1. w - q \in Nat
      BY <2>2
    <3>2. lo <= w - q <=> a <= (w - q) * u
      BY <3>1, RoundedUp
    <3>3. (w - q) * u = w * u - q * u
      BY <3>1
    <3> HIDE DEF lo
    <3> QED BY <1>1, <2>2, <3>1, <3>2, <3>3
  <2> QED BY <2>1, <2>2
<1> QED BY <1>2, <1>3

LEMMA EqualShares ==
  ASSUME NEW u \in Nat, u > 0, u < Words, NEW x \in 0..(u - 1)
  PROVE  Cardinality({w \in RandomWord : Accepts(w, u) /\ High(w, u) = x}) = Words \div u
<1> DEFINE N == Words
           t == RejectionThreshold(u)
           q == N \div u
           a == x * N + t
           lo == (a + u - 1) \div u
           share == {w \in RandomWord : Accepts(w, u) /\ High(w, u) = x}
<1>1. N \in Nat /\ q \in Nat /\ t \in Nat /\ N = q * u + t
  BY ThresholdFacts
<1>2. x \in Nat /\ x + 1 <= u
  OBVIOUS
<1>3. a \in Nat /\ a + q * u = (x + 1) * N
  <2> HIDE DEF N, t, q
  <2> QED BY <1>1, <1>2
<1>4. RandomWord = 0..(N - 1)
  BY DEF RandomWord
<1>5. lo \in Nat
  BY <1>3, RoundedUp
<1>6. ASSUME NEW w \in Nat PROVE Accepts(w, u) /\ High(w, u) = x <=> lo <= w /\ w < lo + q
  <2>1. Accepts(w, u) /\ High(w, u) = x <=> a <= w * u /\ w * u < a + q * u
    BY <1>2, AcceptedWords
  <2>2. a <= w * u /\ w * u < a + q * u <=> lo <= w /\ w < lo + q
    <3> HIDE DEF a, q
    <3> QED BY <1>1, <1>3, WordsInARow
  <2> QED BY <2>1, <2>2
<1>7. ASSUME NEW w \in Nat, w < lo + q, lo <= w PROVE w < N
  <2>1. w * u < (x + 1) * N
    <3>1. a <= w * u /\ w * u < a + q * u
      <4> HIDE DEF a, q
      <4> QED BY <1>1, <1>3, <1>7, WordsInARow DEF lo
    <3> HIDE DEF a, q
    <3> QED BY <1>3, <3>1
  <2> HIDE DEF N
  <2>2. (x + 1) * N <= u * N
    BY <1>1, <1>2
  <2>3. N <= w => u * N <= w * u
    BY <1>1
  <2>4. w * u \in Nat /\ (x + 1) * N \in Nat /\ u * N \in Nat
    BY <1>1, <1>2
  <2> QED BY <1>1, <2>1, <2>2, <2>3, <2>4
<1>8. share = lo..(lo + q - 1)
  <2> HIDE DEF lo, q, N
  <2> QED BY <1>1, <1>4, <1>5, <1>6, <1>7
<1> HIDE DEF lo, q, share, N
<1>9. Cardinality(lo..(lo + q - 1)) = q
  <2>1. lo \in Int /\ lo + q - 1 \in Int
    BY <1>1, <1>5
  <2>2. Cardinality(lo..(lo + q - 1)) = IF lo > lo + q - 1 THEN 0 ELSE (lo + q - 1) - lo + 1
    BY <2>1, FS_Interval, Zenon
  <2> QED BY <1>1, <1>5, <2>2
<1> QED BY <1>8, <1>9 DEF share, q, N

(* A bound that is a power of two rejects no word and takes its top bits. *)
LEMMA PowerOfTwoBound ==
  ASSUME NEW b \in Nat, Pow2[b] < Words, NEW w \in RandomWord
  PROVE  /\ Accepts(w, Pow2[b])
         /\ High(w, Pow2[b]) = IF Pow2[b] = 1 THEN 0 ELSE w \div Pow2[WordBits - b]
<1> DEFINE u == Pow2[b]
           p == Pow2[WordBits - b]
           h == w \div p
<1>1. WordBits \in Nat /\ u \in Nat /\ u > 0 /\ b < WordBits
  <2>1. WordBits \in Nat /\ u \in Nat /\ u > 0 /\ Words \in Nat /\ Words = Pow2[WordBits]
    BY WordBitsAssumption, Pow2Positive DEF Words
  <2>2. WordBits <= b => Words <= u
    BY <2>1, Pow2Grows
  <2> QED BY <2>1, <2>2
<1>2. WordBits - b \in Nat /\ b + (WordBits - b) = WordBits
  BY <1>1
<1>3. p \in Nat /\ p > 0 /\ Words = u * p
  BY <1>2, Pow2Positive, Pow2Sum, Zenon DEF Words
<1>4. w \in Nat /\ w < Words /\ Words \in Nat
  <2>1. Words \in Nat
    <3> HIDE DEF u, p
    <3> QED BY <1>1, <1>3
  <2> QED BY <2>1 DEF RandomWord
<1> HIDE DEF u, p
<1>5. RejectionThreshold(u) = 0
  <2>1. Words \div u = p
    <3>1. p * u <= Words /\ Words < (p + 1) * u
      BY <1>1, <1>3
    <3> QED BY <1>1, <1>3, <1>4, <3>1, Quotient
  <2>2. Words = p * u + RejectionThreshold(u) /\ RejectionThreshold(u) \in Nat
    BY <1>1, <2>1, ThresholdFacts DEF u
  <2> QED BY <1>1, <1>3, <2>2
<1>6. Accepts(w, u)
  BY <1>1, <1>4, <1>5 DEF Accepts
<1>7. High(w, u) = h
  <2>1. h \in Nat /\ h * p <= w /\ w < (h + 1) * p
    BY <1>3, <1>4, Division
  <2> HIDE DEF h
  <2>2. (h * p) * u <= w * u /\ w * u < ((h + 1) * p) * u
    <3>1. h * p \in Nat /\ (h + 1) * p \in Nat
      BY <1>3, <2>1
    <3> QED BY <1>1, <1>4, <2>1, <3>1
  <2>3. (h * p) * u = h * Words /\ ((h + 1) * p) * u = (h + 1) * Words
    BY <1>1, <1>3, <2>1
  <2>4. w * u \in Nat /\ Words > 0
    BY <1>1, <1>4
  <2> QED BY <1>4, <2>1, <2>2, <2>3, <2>4, Quotient DEF High
<1>8. u = 1 => h = 0
  <2>1. u = 1 => w < p /\ 0 * p <= w /\ w < (0 + 1) * p
    BY <1>3, <1>4
  <2> QED BY <1>3, <1>4, <2>1, Quotient
<1> QED BY <1>6, <1>7, <1>8 DEF u, p

LEMMA ReduceOne ==
  ASSUME NEW v, NEW u, u # 0
  PROVE  ReduceWords(<<v>>, u) =
           IF Accepts(v, u) THEN {[index |-> High(v, u), count |-> 1]} ELSE {}
<1> DEFINE words == <<v>>
<1>1. DOMAIN words = {1} /\ words[1] = v
  OBVIOUS
<1> HIDE DEF words
<1>2. CASE Accepts(v, u)
  <2>1. {r \in DOMAIN words : Accepts(words[r], u)} = {1}
    BY <1>1, <1>2
  <2> QED BY <1>1, <1>2, <2>1 DEF ReduceWords, words
<1>3. CASE ~Accepts(v, u)
  <2>1. {r \in DOMAIN words : Accepts(words[r], u)} = {}
    BY <1>1, <1>3
  <2> QED BY <1>3, <2>1 DEF ReduceWords, words
<1> QED BY <1>2, <1>3

LEMMA ReducePair ==
  ASSUME NEW w, NEW v, NEW u, u # 0
  PROVE  ReduceWords(<<w, v>>, u) =
           IF Accepts(w, u) THEN {[index |-> High(w, u), count |-> 1]}
           ELSE IF Accepts(v, u) THEN {[index |-> High(v, u), count |-> 2]} ELSE {}
<1> DEFINE words == <<w, v>>
           accepted == {r \in DOMAIN words : Accepts(words[r], u)}
           first == {r \in accepted : \A q \in accepted : r <= q}
<1>1. DOMAIN words = {1, 2} /\ words[1] = w /\ words[2] = v
  OBVIOUS
<1>2. ReduceWords(words, u) = {[index |-> High(words[r], u), count |-> r] : r \in first}
  BY DEF ReduceWords
<1> HIDE DEF words
<1>3. CASE Accepts(w, u)
  <2>1. 1 \in accepted /\ \A q \in accepted : q = 1 \/ q = 2
    BY <1>1, <1>3
  <2> HIDE DEF accepted
  <2>2. first = {1}
    BY <2>1
  <2> QED BY <1>1, <1>2, <1>3, <2>2 DEF words
<1>4. CASE ~Accepts(w, u) /\ Accepts(v, u)
  <2>1. accepted = {2}
    BY <1>1, <1>4
  <2> HIDE DEF accepted
  <2>2. first = {2}
    BY <2>1
  <2> QED BY <1>1, <1>2, <1>4, <2>2 DEF words
<1>5. CASE ~Accepts(w, u) /\ ~Accepts(v, u)
  <2>1. accepted = {}
    BY <1>1, <1>5
  <2> HIDE DEF accepted
  <2>2. first = {}
    BY <2>1
  <2> QED BY <1>2, <1>5, <2>2 DEF words
<1> QED BY <1>3, <1>4, <1>5

(* Both loops answer as the plain one. *)
LEMMA ElasticLoop ==
  ASSUME NEW u \in Nat, u > 0, u < Words, NEW w \in RandomWord, NEW v
  PROVE  ElasticReduce(<<w, v>>, u) = ReduceWords(<<w, v>>, u)
<1> DEFINE b == BitLength(u) - 1
           words == <<w, v>>
<1>1. ~(Len(words) > 8) /\ words # <<>> /\ words[1] = w
  OBVIOUS
<1>2. b \in Nat
  <2>1. Width(u, BitLength(u))
    BY BitLengthWidth
  <2>2. BitLength(u) \in Nat /\ BitLength(u) # 0
    BY <2>1, Pow2Def DEF Width
  <2> QED BY <2>2
<1>3. CASE u = Pow2[b]
  <2>1. Accepts(w, u) /\ High(w, u) = IF u = 1 THEN 0 ELSE w \div Pow2[WordBits - b]
    <3> HIDE DEF b
    <3> QED BY <1>2, <1>3, PowerOfTwoBound
  <2>2. ReduceWords(words, u) = {[index |-> High(w, u), count |-> 1]}
    <3>1. u # 0 /\ Accepts(w, u)
      BY <2>1
    <3> QED BY <3>1, ReducePair, Zenon
  <2>3. ElasticReduce(words, u) = {[index |-> IF u = 1 THEN 0 ELSE w \div Pow2[WordBits - b], count |-> 1]}
    BY <1>1, <1>3 DEF ElasticReduce
  <2> QED BY <2>1, <2>2, <2>3
<1>4. CASE u # Pow2[b]
  BY <1>1, <1>4 DEF ElasticReduce
<1> QED BY <1>3, <1>4

LEMMA FunnelLoop ==
  ASSUME NEW u, u # 0, NEW w, NEW v
  PROVE  FunnelReduce(<<w, v>>, u) = ReduceWords(<<w, v>>, u)
<1>1. <<w, v>> # <<>> /\ ~(Len(<<w, v>>) > 256) /\ Tail(<<w, v>>) = <<v>>
  OBVIOUS
<1>2. FunnelReduce(<<w, v>>, u) =
        IF Accepts(w, u) THEN {[index |-> High(w, u), count |-> 1]}
        ELSE {[r EXCEPT !.count = @ + 1] : r \in ReduceWords(<<v>>, u)}
  BY <1>1 DEF FunnelReduce
<1>3. CASE Accepts(w, u)
  BY <1>2, <1>3, ReducePair
<1>4. CASE ~Accepts(w, u) /\ Accepts(v, u)
  <2>1. ReduceWords(<<v>>, u) = {[index |-> High(v, u), count |-> 1]}
    BY <1>4, ReduceOne
  <2>2. [[index |-> High(v, u), count |-> 1] EXCEPT !.count = @ + 1] = [index |-> High(v, u), count |-> 2]
    OBVIOUS
  <2>3. FunnelReduce(<<w, v>>, u) = {[index |-> High(v, u), count |-> 2]}
    BY <1>2, <1>4, <2>1, <2>2
  <2> QED BY <1>4, <2>3, ReducePair
<1>5. CASE ~Accepts(w, u) /\ ~Accepts(v, u)
  <2>1. ReduceWords(<<v>>, u) = {}
    BY <1>5, ReduceOne
  <2>2. FunnelReduce(<<w, v>>, u) = {}
    BY <1>2, <1>5, <2>1
  <2> QED BY <1>5, <2>2, ReducePair
<1> QED BY <1>3, <1>4, <1>5

------------------------------------------------------------------------------
(* Levels and batches.                                                     *)

(* Sums are given by their differences. *)
LEMMA TotalIs ==
  ASSUME NEW s \in Seq(Int), NEW sum \in [0..Len(s) -> Int], sum[0] = 0,
         \A i \in 1..Len(s) : sum[i] = sum[i - 1] + s[i]
  PROVE  Total(s) = sum[Len(s)]
<1> DEFINE n == Len(s)
           Is(f) == f = [i \in 0..Len(s) |-> IF i = 0 THEN 0 ELSE f[i - 1] + s[i]]
           upTo == CHOOSE f : Is(f)
<1>1. n \in Nat
  OBVIOUS
<1>2. Is(sum)
  <2>1. ASSUME NEW i \in 0..n PROVE sum[i] = IF i = 0 THEN 0 ELSE sum[i - 1] + s[i]
    <3>1. i = 0 \/ i \in 1..n
      BY <1>1
    <3> QED BY <3>1
  <2> QED BY <2>1
<1>3. Is(upTo)
  BY <1>2, Zenon
<1>4. Total(s) = upTo[Len(s)]
  BY Zenon DEF Total
<1> HIDE DEF upTo
<1>5. \A i \in 0..n : upTo[i] = IF i = 0 THEN 0 ELSE upTo[i - 1] + s[i]
  BY <1>3
<1> DEFINE S == {i \in 0..n : upTo[i] = sum[i]}
<1>6. 0 \in S
  BY <1>1, <1>5
<1>7. ASSUME NEW i \in 0..n, i < n, i \in S PROVE i + 1 \in S
  <2>1. i + 1 \in 1..n /\ i + 1 \in 0..n /\ (i + 1) - 1 = i /\ i + 1 # 0
    BY <1>1, <1>7
  <2>2. sum[i + 1] = sum[i] + s[i + 1]
    BY <2>1
  <2>3. upTo[i + 1] = upTo[i] + s[i + 1]
    BY <1>5, <2>1
  <2> QED BY <1>7, <2>1, <2>2, <2>3
<1> HIDE DEF S
<1>8. \A i \in 0..n : i \in S
  BY <1>1, <1>6, <1>7, PositionInduction
<1>9. n \in S
  BY <1>1, <1>8
<1> QED BY <1>4, <1>9 DEF S

LEMMA TotalOfPrefix ==
  ASSUME NEW s \in Seq(Int), NEW sum \in [0..Len(s) -> Int], sum[0] = 0,
         \A i \in 1..Len(s) : sum[i] = sum[i - 1] + s[i],
         NEW k \in 0..Len(s)
  PROVE  Total(SubSeq(s, 1, k)) = sum[k]
<1> DEFINE p == SubSeq(s, 1, k)
           part == [i \in 0..k |-> sum[i]]
<1>1. p \in Seq(Int) /\ Len(p) = k /\ \A i \in 1..k : p[i] = s[i]
  OBVIOUS
<1>2. k \in Nat /\ \A i \in 0..k : i \in 0..Len(s)
  OBVIOUS
<1>3. part \in [0..k -> Int] /\ part[0] = 0 /\ part[k] = sum[k]
  <2>1. \A i \in 0..k : sum[i] \in Int
    BY <1>2
  <2>2. 0 \in 0..k /\ k \in 0..k
    BY <1>2
  <2>3. part \in [0..k -> Int]
    BY <2>1
  <2> QED BY <2>2, <2>3
<1>4. ASSUME NEW i \in 1..k PROVE part[i] = part[i - 1] + p[i]
  <2>1. i \in 1..Len(s) /\ i \in 0..k /\ i - 1 \in 0..k
    BY <1>2
  <2> HIDE DEF p
  <2> QED BY <1>1, <2>1
<1> HIDE DEF p, part
<1>5. Total(p) = part[Len(p)]
  BY <1>1, <1>3, <1>4, TotalIs
<1> QED BY <1>1, <1>3, <1>5 DEF p

LEMMA CeilLog2Facts ==
  ASSUME NEW n \in Nat, n > 1
  PROVE  CeilLog2(n) \in 1..n /\ Pow2[CeilLog2(n) - 1] < n /\ n <= Pow2[CeilLog2(n)]
<1>1. PICK k : Width(n - 1, k)
  <2>1. n - 1 \in Nat
    OBVIOUS
  <2> QED BY <2>1, WidthExists, Zenon
<1>2. k \in Nat /\ n - 1 < Pow2[k] /\ (k # 0 => Pow2[k - 1] <= n - 1) /\ n - 1 \in Nat
  BY <1>1 DEF Width
<1>3. k # 0
  BY <1>2, Pow2Def
<1>4. k <= n
  <2>1. n - 1 < Pow2[n]
    BY Pow2Positive
  <2> QED BY <1>1, <1>2, <2>1, WidthLeast
<1>5. k \in 1..n /\ Pow2[k - 1] < n /\ n <= Pow2[k]
  <2>1. k - 1 \in Nat
    BY <1>2, <1>3
  <2>2. Pow2[k - 1] \in Nat /\ Pow2[k] \in Nat
    BY <1>2, <2>1, Pow2Positive
  <2> QED BY <1>2, <1>3, <1>4, <2>1, <2>2
<1>6. ~(n <= 1)
  OBVIOUS
<1>7. CeilLog2(n) = CHOOSE j \in 1..n : Pow2[j - 1] < n /\ n <= Pow2[j]
  BY <1>6, Zenon DEF CeilLog2
<1> QED BY <1>5, <1>7, Zenon

(* What remains halves from level to level and is one or two at the last. *)
LEMMA RemainingFacts ==
  ASSUME NEW n \in Nat, n > 1
  PROVE  /\ \A i \in 1..LevelCount(n) : Remaining(n, i) \in Nat /\ Remaining(n, i) > 0
         /\ Remaining(n, 1) = n
         /\ Remaining(n, LevelCount(n)) \in {1, 2}
         /\ \A i \in 1..(LevelCount(n) - 1) : Remaining(n, i + 1) = Remaining(n, i) \div 2
<1> DEFINE L == LevelCount(n)
           p(i) == Pow2[i - 1]
<1>1. L \in Nat /\ L > 0 /\ p(L) < n /\ n <= Pow2[L]
  BY CeilLog2Facts DEF LevelCount
<1> HIDE DEF L
<1>2. ASSUME NEW i \in 1..L PROVE p(i) \in Nat /\ p(i) > 0 /\ p(i) <= p(L)
  <2>1. i - 1 \in Nat /\ L - 1 \in Nat /\ i - 1 <= L - 1
    BY <1>1
  <2>2. p(i) \in Nat /\ p(i) > 0 /\ p(L) \in Nat
    BY <2>1, Pow2Positive
  <2>3. i - 1 < L - 1 => p(i) < p(L)
    BY <2>1, Pow2Grows
  <2>4. i - 1 = L - 1 => p(i) = p(L)
    OBVIOUS
  <2> HIDE DEF p
  <2> QED BY <2>1, <2>2, <2>3, <2>4
<1>3. ASSUME NEW i \in 1..L PROVE Remaining(n, i) \in Nat /\ Remaining(n, i) > 0
  <2> DEFINE r == n \div p(i)
  <2>1. p(i) \in Nat /\ p(i) > 0 /\ p(i) < n
    <3>1. p(L) \in Nat
      BY <1>1, <1>2
    <3> HIDE DEF p
    <3> QED BY <1>1, <1>2, <3>1
  <2>2. Remaining(n, i) = r
    BY DEF Remaining
  <2> HIDE DEF p
  <2>3. r \in Nat /\ n < (r + 1) * p(i)
    BY <2>1, Division
  <2> HIDE DEF r
  <2>4. r # 0
    BY <2>1, <2>3
  <2> QED BY <2>2, <2>3, <2>4
<1>4. Remaining(n, 1) = n
  <2>1. n \div 1 = n
    OBVIOUS
  <2>2. Pow2[1 - 1] = 1
    BY Pow2Def
  <2> QED BY <2>1, <2>2 DEF Remaining
<1>5. Remaining(n, L) \in {1, 2}
  <2> DEFINE r == n \div p(L)
  <2>1. L \in 1..L /\ L - 1 \in Nat /\ (L - 1) + 1 = L
    BY <1>1
  <2>2. p(L) \in Nat /\ p(L) > 0 /\ Pow2[L] = 2 * p(L)
    BY <1>2, <2>1, Pow2Def
  <2>3. Remaining(n, L) = r /\ r > 0
    BY <1>3, <2>1 DEF Remaining
  <2> HIDE DEF p
  <2>4. r \in Nat /\ r * p(L) <= n
    BY <2>2, Division
  <2> HIDE DEF r
  <2>5. r > 2 => 3 * p(L) <= r * p(L)
    BY <2>2, <2>4
  <2>6. r * p(L) \in Nat
    BY <2>2, <2>4
  <2> QED BY <1>1, <2>2, <2>3, <2>4, <2>5, <2>6
<1>6. ASSUME NEW i \in 1..(L - 1) PROVE Remaining(n, i + 1) = Remaining(n, i) \div 2
  <2> DEFINE P == p(i)
             r == n \div P
             h == r \div 2
  <2>1. i \in 1..L /\ i - 1 \in Nat /\ (i - 1) + 1 = i /\ (i + 1) - 1 = i
    BY <1>1
  <2>2. P \in Nat /\ P > 0 /\ Pow2[i] = 2 * P
    BY <1>2, <2>1, Pow2Def
  <2>3. Remaining(n, i) = r /\ Remaining(n, i + 1) = n \div (2 * P)
    BY <2>1, <2>2 DEF Remaining
  <2> HIDE DEF P
  <2>4. r \in Nat /\ r * P <= n /\ n < (r + 1) * P
    BY <2>2, Division
  <2> HIDE DEF r
  <2>5. h \in Nat /\ 2 * h <= r /\ r + 1 <= 2 * h + 2
    BY <2>4
  <2> HIDE DEF h
  <2>6. (2 * h) * P <= r * P /\ (r + 1) * P <= (2 * h + 2) * P
    BY <2>2, <2>4, <2>5
  <2>7. (2 * h) * P = h * (2 * P) /\ (2 * h + 2) * P = (h + 1) * (2 * P)
    BY <2>2, <2>5
  <2>8. r * P \in Nat /\ (r + 1) * P \in Nat /\ h * (2 * P) \in Nat /\ (h + 1) * (2 * P) \in Nat /\ 2 * P \in Nat /\ 2 * P > 0
    BY <2>2, <2>4, <2>5
  <2>9. h * (2 * P) <= n /\ n < (h + 1) * (2 * P)
    BY <2>4, <2>6, <2>7, <2>8
  <2>10. n \div (2 * P) = h
    BY <2>5, <2>8, <2>9, Quotient
  <2> QED BY <2>3, <2>10 DEF h
<1> QED BY <1>1, <1>3, <1>4, <1>5, <1>6 DEF L

LEMMA LengthFacts ==
  ASSUME NEW n \in Nat, n > 1
  PROVE  LET lengths == LevelLengths(n)
             L == LevelCount(n)
         IN  /\ lengths \in Seq(Nat) /\ lengths \in Seq(Int) /\ Len(lengths) = L /\ L \in Nat /\ L > 0
             /\ lengths[L] = Remaining(n, L)
             /\ \A i \in 1..(L - 1) : lengths[i] = (Remaining(n, i) + 1) \div 2
<1> DEFINE L == LevelCount(n)
           lengths == LevelLengths(n)
           len(i) == IF i = L THEN Remaining(n, i) ELSE CeilDiv(Remaining(n, i), 2)
<1>1. L \in Nat /\ L > 0
  BY CeilLog2Facts DEF LevelCount
<1>2. lengths = [i \in 1..L |-> len(i)]
  BY DEF LevelLengths
<1> HIDE DEF L, lengths
<1>3. ASSUME NEW i \in 1..L PROVE CeilDiv(Remaining(n, i), 2) = (Remaining(n, i) + 1) \div 2 /\ len(i) \in Nat
  <2> DEFINE r == Remaining(n, i)
  <2>1. r \in Nat
    BY RemainingFacts DEF L
  <2> HIDE DEF r
  <2>2. (r + 2) - 1 = r + 1 /\ (r + 1) \div 2 \in Nat
    BY <2>1
  <2>3. CeilDiv(r, 2) = (r + 1) \div 2
    BY <2>2 DEF CeilDiv
  <2> QED BY <2>1, <2>2, <2>3 DEF r
<1>4. lengths \in [1..L -> Nat]
  <2> HIDE DEF len
  <2> QED BY <1>2, <1>3
<1>5. lengths \in Seq(Nat) /\ lengths \in Seq(Int) /\ Len(lengths) = L
  BY <1>1, <1>4
<1>6. lengths[L] = Remaining(n, L)
  <2>1. L \in 1..L
    BY <1>1
  <2> QED BY <1>2, <2>1
<1>7. ASSUME NEW i \in 1..(L - 1) PROVE lengths[i] = (Remaining(n, i) + 1) \div 2
  <2>1. i \in 1..L /\ i # L
    BY <1>1
  <2> QED BY <1>2, <1>3, <2>1
<1> QED BY <1>1, <1>5, <1>6, <1>7 DEF L, lengths

(* The slots of the levels up to i. *)
SlotsUpTo(n, i) == IF i = LevelCount(n) THEN n ELSE n - Remaining(n, i + 1)

LEMMA SlotSums ==
  ASSUME NEW n \in Nat, n > 1
  PROVE  LET sum == [i \in 0..LevelCount(n) |-> SlotsUpTo(n, i)]
         IN  /\ sum \in [0..LevelCount(n) -> Nat]
             /\ sum[0] = 0 /\ sum[LevelCount(n)] = n
             /\ \A i \in 1..LevelCount(n) : sum[i] = sum[i - 1] + LevelLengths(n)[i]
             /\ \A i \in 0..LevelCount(n) : sum[i] <= n
<1> DEFINE L == LevelCount(n)
           R(i) == Remaining(n, i)
           sum == [i \in 0..L |-> SlotsUpTo(n, i)]
           lengths == LevelLengths(n)
<1>1. L \in Nat /\ L > 0
  BY LengthFacts
<1>2. (\A i \in 1..L : R(i) \in Nat /\ R(i) > 0) /\ R(1) = n
  BY RemainingFacts
<1>3. \A i \in 1..(L - 1) : R(i + 1) = R(i) \div 2 /\ lengths[i] = (R(i) + 1) \div 2
  BY RemainingFacts, LengthFacts
<1>4. lengths[L] = R(L)
  BY LengthFacts
<1>5. \A i \in 0..L : sum[i] = IF i = L THEN n ELSE n - R(i + 1)
  BY DEF SlotsUpTo
<1>6. sum = [i \in 0..L |-> sum[i]]
  OBVIOUS
<1> HIDE DEF L, R, sum, lengths
<1>7. ASSUME NEW i \in 1..L PROVE R(i) <= n
  <2> DEFINE S == {j \in 0..L : j = 0 \/ R(j) <= n}
  <2>1. 0 \in S
    BY <1>1
  <2>2. ASSUME NEW j \in 0..L, j < L, j \in S PROVE j + 1 \in S
    <3>1. j + 1 \in 0..L
      BY <1>1, <2>2
    <3>2. CASE j = 0
      BY <1>2, <3>1, <3>2
    <3>3. CASE j # 0
      <4>1. j \in 1..(L - 1) /\ j \in 1..L
        BY <1>1, <2>2, <3>3
      <4>2. R(j) \in Nat /\ R(j) <= n /\ R(j + 1) = R(j) \div 2
        BY <1>2, <1>3, <2>2, <3>3, <4>1
      <4> QED BY <3>1, <4>2
    <3> QED BY <3>2, <3>3
  <2> HIDE DEF S
  <2>3. \A j \in 0..L : j \in S
    BY <1>1, <2>1, <2>2, PositionInduction
  <2>4. i \in 0..L /\ i # 0
    BY <1>1
  <2> QED BY <2>3, <2>4 DEF S
<1>8. ASSUME NEW i \in 0..L PROVE sum[i] \in Nat /\ sum[i] <= n
  <2>1. CASE i = L
    BY <1>5, <2>1
  <2>2. CASE i # L
    <3>1. i + 1 \in 1..L
      BY <1>1, <2>2
    <3> QED BY <1>2, <1>5, <1>7, <2>2, <3>1
  <2> QED BY <2>1, <2>2
<1>9. sum[0] = 0 /\ sum[L] = n
  <2>1. 0 \in 0..L /\ L \in 0..L /\ 0 # L /\ 0 + 1 = 1
    BY <1>1
  <2> QED BY <1>2, <1>5, <2>1
<1>10. ASSUME NEW i \in 1..L PROVE sum[i] = sum[i - 1] + lengths[i]
  <2>1. i \in 0..L /\ i - 1 \in 0..L /\ i - 1 # L /\ (i - 1) + 1 = i
    BY <1>1
  <2>2. sum[i - 1] = n - R(i)
    BY <1>5, <2>1
  <2>3. R(i) \in Nat
    BY <1>2
  <2>4. CASE i = L
    BY <1>4, <1>5, <2>1, <2>2, <2>3, <2>4
  <2>5. CASE i # L
    <3>1. i \in 1..(L - 1)
      BY <1>1, <2>5
    <3>2. sum[i] = n - R(i) \div 2 /\ lengths[i] = (R(i) + 1) \div 2
      BY <1>3, <1>5, <2>1, <2>5, <3>1
    <3>3. (R(i) + 1) \div 2 = R(i) - R(i) \div 2
      BY <2>3
    <3> QED BY <2>2, <2>3, <3>2, <3>3
  <2> QED BY <2>4, <2>5
<1>11. sum \in [0..L -> Nat]
  BY <1>6, <1>8
<1> QED BY <1>8, <1>9, <1>10, <1>11 DEF L, R, sum, lengths

(* What half the reserve is of the slots of a level. *)
LEMMA HalfReserve ==
  ASSUME NEW x \in Nat, NEW d \in Nat \ {0}
  PROVE  /\ FloorHalfReserved(x, d) \in Nat
         /\ FloorHalfReserved(x, d) * Pow2[d + 1] <= x
         /\ d + 1 >= UsizeBits => FloorHalfReserved(x, d) = 0
         /\ x - FloorHalfReserved(x, d) >= CeilThreeQuarters(x)
         /\ CeilThreeQuarters(x) \in Nat /\ CeilThreeQuarters(x) <= x
<1> DEFINE h == FloorHalfReserved(x, d)
           D == Pow2[d + 1]
<1>1. D \in Nat /\ D >= 4
  <2>1. 1 \in Nat /\ 0 \in Nat /\ 0 + 1 = 1 /\ 1 + 1 = 2 /\ 2 \in Nat
    OBVIOUS
  <2>2. Pow2[1] = 2
    BY <2>1, Pow2Def
  <2>3. Pow2[2] = 4
    BY <2>1, <2>2, Pow2Def
  <2>4. d + 1 \in Nat /\ 2 <= d + 1
    OBVIOUS
  <2>5. D \in Nat
    BY <2>4, Pow2Positive
  <2>6. 2 < d + 1 => Pow2[2] < D
    BY <2>4, Pow2Grows
  <2> QED BY <2>3, <2>4, <2>5, <2>6
<1>2. h = IF d + 1 >= UsizeBits THEN 0 ELSE x \div D
  BY DEF FloorHalfReserved, FloorDivPow2
<1> HIDE DEF D, h
<1>3. h \in Nat /\ h * D <= x
  <2>1. x \div D \in Nat /\ (x \div D) * D <= x
    BY <1>1, Division
  <2>2. CASE d + 1 >= UsizeBits
    BY <1>1, <1>2, <2>2
  <2>3. CASE ~(d + 1 >= UsizeBits)
    BY <1>2, <2>1, <2>3
  <2> QED BY <2>2, <2>3
<1>4. 4 * h <= x
  <2>1. h * 4 <= h * D /\ h * D \in Nat
    BY <1>1, <1>3
  <2> QED BY <1>3, <2>1
<1>5. h <= x \div 4 /\ x \div 4 \in Nat /\ x \div 4 <= x
  BY <1>3, <1>4
<1> QED BY <1>2, <1>3, <1>5 DEF CeilThreeQuarters, h, D

LEMMA RawQuotaFacts ==
  ASSUME NEW n \in Nat, n > 1, NEW d \in Nat \ {0}, NEW i \in 1..LevelCount(n)
  PROVE  LET lengths == LevelLengths(n)
             q == CeilThreeQuarters(lengths[i])
         IN  /\ RawQuota(lengths, d, i) \in Nat /\ q \in Nat /\ q <= lengths[i]
             /\ i = 1 => RawQuota(lengths, d, i) = q
             /\ i > 1 => LET b == lengths[i - 1]
                             h == FloorHalfReserved(b, d)
                         IN  /\ b \in Nat /\ h \in Nat /\ CeilThreeQuarters(b) \in Nat
                             /\ RawQuota(lengths, d, i) = b - h - CeilThreeQuarters(b) + q
<1> DEFINE lengths == LevelLengths(n)
           L == LevelCount(n)
           q == CeilThreeQuarters(lengths[i])
<1>1. lengths \in Seq(Nat) /\ Len(lengths) = L /\ L \in Nat
  BY LengthFacts
<1> HIDE DEF lengths, L
<1>2. i \in 1..L
  BY DEF L
<1>3. lengths[i] \in Nat
  BY <1>1, <1>2
<1>4. q \in Nat /\ q <= lengths[i]
  BY <1>3, HalfReserve
<1>5. CASE i = 1
  BY <1>4, <1>5 DEF RawQuota, lengths
<1>6. CASE i > 1
  <2> DEFINE b == lengths[i - 1]
             h == FloorHalfReserved(b, d)
             t == CeilThreeQuarters(b)
  <2>1. i - 1 \in 1..L
    BY <1>1, <1>2, <1>6
  <2>2. b \in Nat
    BY <1>1, <2>1
  <2>3. h \in Nat /\ t \in Nat /\ b - h >= t
    BY <2>2, HalfReserve
  <2>4. RawQuota(lengths, d, i) = b - h - t + q
    <3>1. i # 1
      BY <1>6
    <3> QED BY <3>1 DEF RawQuota
  <2> HIDE DEF b, h, t, q
  <2>5. RawQuota(lengths, d, i) \in Nat
    BY <1>4, <2>2, <2>3, <2>4
  <2> QED BY <1>4, <1>6, <2>2, <2>3, <2>4, <2>5 DEF b, h, t, q, lengths
<1>7. i = 1 \/ i > 1
  BY <1>1, <1>2
<1> QED BY <1>5, <1>6, <1>7

LEMMA LimitFacts ==
  ASSUME NEW n \in Nat, NEW d \in Nat \ {0}
  PROVE  /\ InsertionLimit(n, d) \in Nat /\ InsertionLimit(n, d) <= n
         /\ \A h \in Nat :
              h * Pow2[d + 1] <= n /\ (d + 1 >= UsizeBits => h = 0) => InsertionLimit(n, d) <= n - h
<1> DEFINE D == Pow2[d]
           r == n \div D
<1>1. D \in Nat /\ D > 0 /\ Pow2[d + 1] = 2 * D /\ UsizeBits \in Nat
  BY Pow2Positive, Pow2Def, UsizeFacts
<1>2. InsertionLimit(n, d) = IF d >= UsizeBits THEN n ELSE n - r
  BY DEF InsertionLimit, FloorReserved, FloorDivPow2
<1> HIDE DEF D
<1>3. r \in Nat /\ r * D <= n /\ n < (r + 1) * D
  BY <1>1, Division
<1> HIDE DEF r
<1>4. r <= n
  <2>1. r <= r * D /\ r * D \in Nat
    BY <1>1, <1>3
  <2> QED BY <1>3, <2>1
<1>5. ASSUME NEW h \in Nat, h * (2 * D) <= n, d + 1 >= UsizeBits => h = 0
      PROVE  InsertionLimit(n, d) <= n - h
  <2>1. CASE d >= UsizeBits
    BY <1>1, <1>2, <1>5, <2>1
  <2>2. CASE ~(d >= UsizeBits)
    <3>1. h * D <= h * (2 * D)
      BY <1>1
    <3>2. r < h => (r + 1) * D <= h * D
      BY <1>1, <1>3
    <3>3. h * D \in Nat /\ h * (2 * D) \in Nat /\ (r + 1) * D \in Nat
      BY <1>1, <1>3
    <3>4. h <= r
      BY <1>3, <1>5, <3>1, <3>2, <3>3
    <3> QED BY <1>2, <1>3, <1>4, <2>2, <3>4
  <2> QED BY <2>1, <2>2
<1>6. InsertionLimit(n, d) \in Nat /\ InsertionLimit(n, d) <= n
  BY <1>2, <1>3, <1>4
<1> QED BY <1>1, <1>5, <1>6

LEMMA UnspentSteps ==
  ASSUME NEW n \in Nat, n > 1, NEW d \in Nat \ {0}
  PROVE  LET left == Unspent(n, d)
             raw(i) == RawQuota(LevelLengths(n), d, i)
         IN  /\ \A i \in 0..LevelCount(n) : left[i] \in Nat
             /\ left[0] = InsertionLimit(n, d)
             /\ \A i \in 1..LevelCount(n) :
                  left[i] = IF raw(i) < left[i - 1] THEN left[i - 1] - raw(i) ELSE 0
<1> DEFINE L == LevelCount(n)
           lengths == LevelLengths(n)
           raw(i) == RawQuota(lengths, d, i)
           limit == InsertionLimit(n, d)
           less(b, i) == IF raw(i) < b THEN b - raw(i) ELSE 0
           step == [i \in 1..L |-> [b \in Nat |-> less(b, i)]]
           Is(f) == f = [i \in 0..Len(lengths) |-> IF i = 0 THEN limit ELSE less(f[i - 1], i)]
           left == CHOOSE f : Is(f)
<1>1. L \in Nat /\ Len(lengths) = L
  BY LengthFacts
<1>2. limit \in Nat
  BY LimitFacts
<1>3. \A i \in 1..L : raw(i) \in Nat
  BY RawQuotaFacts
<1> HIDE DEF L, raw, limit
<1>4. \A i \in 1..L, b \in Nat : less(b, i) \in Nat
  BY <1>3
<1>5. step \in [1..L -> [Nat -> Nat]]
  <2> HIDE DEF less
  <2> QED BY <1>4
<1>6. PICK f \in [0..L -> Nat] : TakesSteps(f, L, limit, step)
  <2> HIDE DEF step
  <2> QED BY <1>1, <1>2, <1>5, StepsExist, Zenon
<1>7. ASSUME NEW i \in 0..L PROVE f[i] = IF i = 0 THEN limit ELSE less(f[i - 1], i)
  <2>1. CASE i = 0
    BY <1>6, <2>1 DEF TakesSteps
  <2>2. CASE i # 0
    <3>1. i \in 1..L /\ i - 1 \in 0..L
      BY <1>1, <2>2
    <3>2. f[i] = step[i][f[i - 1]] /\ f[i - 1] \in Nat
      BY <1>6, <3>1 DEF TakesSteps
    <3> HIDE DEF less
    <3> QED BY <2>2, <3>1, <3>2
  <2> QED BY <2>1, <2>2
<1>8. Is(f)
  <2> HIDE DEF less
  <2> QED BY <1>1, <1>7
<1>9. Is(left)
  BY <1>8, Zenon
<1>10. Unspent(n, d) = left
  BY Zenon DEF Unspent, raw, limit
<1> HIDE DEF left
<1>11. \A i \in 0..L : left[i] = IF i = 0 THEN limit ELSE less(left[i - 1], i)
  <2> HIDE DEF less
  <2> QED BY <1>1, <1>9
<1>12. left[0] = limit /\ \A i \in 1..L : left[i] = less(left[i - 1], i)
  <2>1. 0 \in 0..L /\ \A i \in 1..L : i \in 0..L /\ i # 0
    BY <1>1
  <2> HIDE DEF less
  <2> QED BY <1>11, <2>1
<1>13. \A i \in 0..L : left[i] \in Nat
  <2>1. \A i \in 1..L : left[i - 1] \in Nat => left[i] \in Nat
    BY <1>4, <1>12
  <2> QED BY <1>1, <1>2, <1>12, <2>1, StaysIn
<1> QED BY <1>10, <1>12, <1>13 DEF L, raw, limit

(* After i batches, of which all but the last leave half the reserve of their
   level, together F slots: what they leave of the limit is the difference to
   what they ask for, if any. *)
Spends(n, d, i, F) ==
  LET asked == SlotsUpTo(n, i - 1) - F + CeilThreeQuarters(LevelLengths(n)[i])
      left  == Unspent(n, d)[i]
  IN  /\ F * Pow2[d + 1] <= SlotsUpTo(n, i - 1)
      /\ d + 1 >= UsizeBits => F = 0
      /\ left = 0 \/ left = InsertionLimit(n, d) - asked
      /\ left >= InsertionLimit(n, d) - asked

LEMMA BatchesSpend ==
  ASSUME NEW n \in Nat, n > 1, NEW d \in Nat \ {0}, NEW k \in 1..LevelCount(n)
  PROVE  \E F \in Nat : Spends(n, d, k, F)
<1> DEFINE L == LevelCount(n)
           len(i) == LevelLengths(n)[i]
           q(i) == CeilThreeQuarters(len(i))
           raw(i) == RawQuota(LevelLengths(n), d, i)
           left(i) == Unspent(n, d)[i]
           sum(i) == SlotsUpTo(n, i)
           limit == InsertionLimit(n, d)
           D == Pow2[d + 1]
           S == {i \in 0..L : i = 0 \/ \E F \in Nat : Spends(n, d, i, F)}
<1>1. L \in Nat /\ L > 0 /\ \A i \in 1..L : len(i) \in Nat
  BY LengthFacts
<1>2. /\ \A i \in 0..L : sum(i) \in Nat
      /\ sum(0) = 0
      /\ \A i \in 1..L : sum(i) = sum(i - 1) + len(i)
  <2> DEFINE s == [i \in 0..L |-> sum(i)]
  <2>1. s \in [0..L -> Nat] /\ s[0] = 0 /\ \A i \in 1..L : s[i] = s[i - 1] + len(i)
    BY SlotSums
  <2>2. \A i \in 0..L : s[i] = sum(i)
    OBVIOUS
  <2>3. 0 \in 0..L /\ \A i \in 1..L : i \in 0..L /\ i - 1 \in 0..L
    BY <1>1
  <2> HIDE DEF s, L, sum, len
  <2> QED BY <2>1, <2>2, <2>3
<1>3. /\ \A i \in 0..L : left(i) \in Nat
      /\ left(0) = limit
      /\ \A i \in 1..L : left(i) = IF raw(i) < left(i - 1) THEN left(i - 1) - raw(i) ELSE 0
  BY UnspentSteps
<1>4. limit \in Nat
  BY LimitFacts
<1>5. ASSUME NEW i \in 1..L
      PROVE  /\ raw(i) \in Nat /\ q(i) \in Nat
             /\ i = 1 => raw(i) = q(i)
  BY RawQuotaFacts
<1>6. ASSUME NEW i \in 1..L, i > 1
      PROVE  raw(i) = len(i - 1) - FloorHalfReserved(len(i - 1), d) - q(i - 1) + q(i)
  BY <1>6, RawQuotaFacts
<1>7. D \in Nat
  BY Pow2Positive
<1>8. \A i \in 1..L, F \in Nat :
        Spends(n, d, i, F) <=> /\ F * D <= sum(i - 1)
                               /\ d + 1 >= UsizeBits => F = 0
                               /\ left(i) = 0 \/ left(i) = limit - (sum(i - 1) - F + q(i))
                               /\ left(i) >= limit - (sum(i - 1) - F + q(i))
  BY DEF Spends
<1>9. \A i \in 1..L : LET h == FloorHalfReserved(len(i), d)
                       IN  h \in Nat /\ h * D <= len(i) /\ (d + 1 >= UsizeBits => h = 0)
  BY <1>1, HalfReserve
<1> HIDE DEF L, len, q, raw, left, sum, limit, D
<1>10. 0 \in S
  BY <1>1
<1>11. ASSUME NEW i \in 0..L, i < L, i \in S PROVE i + 1 \in S
  <2>1. i + 1 \in 1..L /\ i + 1 \in 0..L /\ (i + 1) - 1 = i
    BY <1>1, <1>11
  <2>2. left(i + 1) = IF raw(i + 1) < left(i) THEN left(i) - raw(i + 1) ELSE 0
    BY <1>3, <2>1
  <2>3. left(i) \in Nat /\ raw(i + 1) \in Nat /\ q(i + 1) \in Nat
    BY <1>3, <1>5, <2>1
  <2>4. CASE i = 0
    <3>1. raw(1) = q(1) /\ left(0) = limit /\ sum(0) = 0
      BY <1>2, <1>3, <1>5, <2>1, <2>4
    <3>2. Spends(n, d, 1, 0)
      <4>1. 0 * D <= sum(0)
        BY <1>7, <3>1
      <4>2. left(1) = 0 \/ left(1) = limit - (sum(0) - 0 + q(1))
        BY <1>4, <2>2, <2>3, <2>4, <3>1
      <4>3. left(1) >= limit - (sum(0) - 0 + q(1))
        BY <1>4, <2>2, <2>3, <2>4, <3>1
      <4>4. 1 \in 1..L /\ 0 \in Nat /\ 1 - 1 = 0
        BY <2>1, <2>4
      <4> QED BY <1>8, <4>1, <4>2, <4>3, <4>4
    <3> QED BY <2>1, <2>4, <3>2
  <2>5. CASE i # 0
    <3>1. i \in 1..L /\ i - 1 \in 0..L /\ i + 1 > 1
      BY <1>1, <2>5
    <3>2. PICK F \in Nat : Spends(n, d, i, F)
      BY <1>11, <2>5
    <3> DEFINE h == FloorHalfReserved(len(i), d)
    <3>3. h \in Nat /\ h * D <= len(i) /\ (d + 1 >= UsizeBits => h = 0)
      BY <1>9, <3>1
    <3>4. raw(i + 1) = len(i) - h - q(i) + q(i + 1)
      BY <1>6, <2>1, <3>1
    <3> HIDE DEF h
    <3>5. /\ F * D <= sum(i - 1)
          /\ d + 1 >= UsizeBits => F = 0
          /\ left(i) = 0 \/ left(i) = limit - (sum(i - 1) - F + q(i))
          /\ left(i) >= limit - (sum(i - 1) - F + q(i))
      BY <1>8, <3>1, <3>2
    <3>6. sum(i) = sum(i - 1) + len(i) /\ sum(i - 1) \in Nat /\ len(i) \in Nat /\ q(i) \in Nat
      BY <1>1, <1>2, <1>5, <3>1
    <3>7. (F + h) * D <= sum(i)
      <4>1. (F + h) * D = F * D + h * D /\ F * D \in Nat /\ h * D \in Nat
        BY <1>7, <3>3
      <4> QED BY <3>3, <3>5, <3>6, <4>1
    <3>8. sum(i) - (F + h) + q(i + 1) = (sum(i - 1) - F + q(i)) + raw(i + 1)
      BY <2>3, <3>3, <3>4, <3>6
    <3>9. left(i + 1) = 0 \/ left(i + 1) = limit - (sum(i) - (F + h) + q(i + 1))
      BY <1>4, <2>2, <2>3, <3>3, <3>5, <3>6, <3>8
    <3>10. left(i + 1) >= limit - (sum(i) - (F + h) + q(i + 1))
      BY <1>4, <2>2, <2>3, <3>3, <3>5, <3>6, <3>8
    <3>11. F + h \in Nat /\ (d + 1 >= UsizeBits => F + h = 0)
      BY <3>3, <3>5
    <3>12. Spends(n, d, i + 1, F + h)
      BY <1>8, <2>1, <3>7, <3>9, <3>10, <3>11
    <3> QED BY <2>1, <3>11, <3>12
  <2> QED BY <2>4, <2>5
<1> HIDE DEF S
<1>12. \A i \in 0..L : i \in S
  BY <1>1, <1>10, <1>11, PositionInduction
<1>13. k \in 0..L /\ k # 0
  BY <1>1 DEF L
<1> QED BY <1>12, <1>13 DEF S

(* The batches spend the limit, and never more than the slots up to their level. *)
LEMMA QuotasSpendLimit ==
  ASSUME NEW n \in Nat, n > 1, NEW d \in Nat \ {0}
  PROVE  /\ Total(BatchQuotas(n, d)) = InsertionLimit(n, d)
         /\ \A i \in 1..Len(BatchQuotas(n, d)) :
              Total(SubSeq(BatchQuotas(n, d), 1, i)) <= Total(SubSeq(LevelLengths(n), 1, i))
         /\ Total(LevelLengths(n)) = n
<1> DEFINE L == LevelCount(n)
           lengths == LevelLengths(n)
           quotas == BatchQuotas(n, d)
           left == Unspent(n, d)
           limit == InsertionLimit(n, d)
           slots == [i \in 0..L |-> SlotsUpTo(n, i)]
           spent == [i \in 0..L |-> left[0] - left[i]]
<1>1. L \in Nat /\ L > 0 /\ lengths \in Seq(Int) /\ Len(lengths) = L /\ \A i \in 1..L : lengths[i] \in Nat
  BY LengthFacts
<1>2. /\ slots \in [0..L -> Nat] /\ slots[0] = 0 /\ slots[L] = n
      /\ \A i \in 1..L : slots[i] = slots[i - 1] + lengths[i]
      /\ \A i \in 0..L : slots[i] <= n
  BY SlotSums
<1>3. \A i \in 0..L : slots[i] = SlotsUpTo(n, i)
  OBVIOUS
<1>4. (\A i \in 0..L : left[i] \in Nat) /\ left[0] = limit
  BY UnspentSteps
<1>5. quotas = [i \in 1..L |-> left[i - 1] - left[i]]
  BY DEF BatchQuotas
<1>6. limit \in Nat
  BY LimitFacts
<1>7. \A k \in 1..L : \E F \in Nat : Spends(n, d, k, F)
  BY BatchesSpend
<1>8. lengths[L] \in {1, 2}
  BY LengthFacts, RemainingFacts
<1>9. \A i \in 1..L : CeilThreeQuarters(lengths[i]) \in Nat /\ CeilThreeQuarters(lengths[i]) <= lengths[i]
  BY RawQuotaFacts
<1>10. \A h \in Nat :
         h * Pow2[d + 1] <= n /\ (d + 1 >= UsizeBits => h = 0) => limit <= n - h
  BY LimitFacts
<1>11. \A k \in 1..L, F \in Nat :
         Spends(n, d, k, F) <=>
           /\ F * Pow2[d + 1] <= SlotsUpTo(n, k - 1)
           /\ d + 1 >= UsizeBits => F = 0
           /\ \/ left[k] = 0
              \/ left[k] = limit - (SlotsUpTo(n, k - 1) - F + CeilThreeQuarters(lengths[k]))
           /\ left[k] >= limit - (SlotsUpTo(n, k - 1) - F + CeilThreeQuarters(lengths[k]))
  BY DEF Spends
<1>12. Pow2[d + 1] \in Nat
  BY Pow2Positive
<1>13. spent = [i \in 0..L |-> spent[i]] /\ \A i \in 0..L : spent[i] = limit - left[i]
  BY <1>4
<1> HIDE DEF L, lengths, quotas, left, limit, slots, spent
<1>14. \A i \in 1..L : i \in 0..L /\ i - 1 \in 0..L
  BY <1>1
<1>15. quotas \in Seq(Int) /\ Len(quotas) = L
  <2>1. \A i \in 1..L : left[i - 1] - left[i] \in Int
    BY <1>4, <1>14
  <2>2. quotas \in [1..L -> Int]
    BY <1>5, <2>1
  <2> QED BY <1>1, <2>2
<1>16. /\ spent \in [0..L -> Int] /\ spent[0] = 0
       /\ \A i \in 1..L : spent[i] = spent[i - 1] + quotas[i]
  <2>1. \A i \in 0..L : spent[i] \in Int
    BY <1>4, <1>6, <1>13
  <2>2. spent \in [0..L -> Int]
    BY <1>13, <2>1
  <2>3. spent[0] = 0
    BY <1>1, <1>4, <1>6, <1>13
  <2>4. ASSUME NEW i \in 1..L PROVE spent[i] = spent[i - 1] + quotas[i]
    BY <1>4, <1>5, <1>6, <1>13, <1>14
  <2> QED BY <2>2, <2>3, <2>4
<1>17. slots \in [0..L -> Int]
  BY <1>2
<1>18. Total(quotas) = spent[L] /\ \A i \in 1..L : Total(SubSeq(quotas, 1, i)) = spent[i]
  <2>1. Total(quotas) = spent[L]
    BY <1>15, <1>16, TotalIs
  <2>2. ASSUME NEW i \in 1..L PROVE Total(SubSeq(quotas, 1, i)) = spent[i]
    BY <1>14, <1>15, <1>16, TotalOfPrefix
  <2> QED BY <2>1, <2>2
<1>19. Total(lengths) = slots[L] /\ \A i \in 1..L : Total(SubSeq(lengths, 1, i)) = slots[i]
  <2>1. Total(lengths) = slots[L]
    BY <1>1, <1>2, <1>17, TotalIs
  <2>2. ASSUME NEW i \in 1..L PROVE Total(SubSeq(lengths, 1, i)) = slots[i]
    BY <1>1, <1>2, <1>14, <1>17, TotalOfPrefix
  <2> QED BY <2>1, <2>2
<1>20. ASSUME NEW i \in 1..L PROVE spent[i] <= slots[i]
  <2>1. PICK F \in Nat : Spends(n, d, i, F)
    BY <1>7
  <2>2. left[i] >= limit - (slots[i - 1] - F + CeilThreeQuarters(lengths[i]))
    BY <1>3, <1>11, <1>14, <2>1
  <2>3. left[i] \in Nat /\ slots[i - 1] \in Nat /\ slots[i] = slots[i - 1] + lengths[i]
    BY <1>2, <1>4, <1>14
  <2>4. spent[i] = limit - left[i]
    BY <1>13, <1>14
  <2>5. CeilThreeQuarters(lengths[i]) \in Nat /\ CeilThreeQuarters(lengths[i]) <= lengths[i] /\ lengths[i] \in Nat
    BY <1>1, <1>9
  <2> QED BY <1>6, <2>2, <2>3, <2>4, <2>5
<1>21. left[L] = 0
  <2>1. L \in 1..L /\ L \in 0..L /\ L - 1 \in 0..L
    BY <1>1
  <2>2. PICK F \in Nat : Spends(n, d, L, F)
    BY <1>7, <2>1
  <2>3. /\ F * Pow2[d + 1] <= slots[L - 1]
        /\ d + 1 >= UsizeBits => F = 0
        /\ left[L] = 0 \/ left[L] = limit - (slots[L - 1] - F + CeilThreeQuarters(lengths[L]))
    BY <1>3, <1>11, <2>1, <2>2
  <2>4. slots[L - 1] \in Nat /\ slots[L - 1] <= n /\ n = slots[L - 1] + lengths[L]
    BY <1>2, <2>1
  <2>5. F * Pow2[d + 1] <= n
    <3>1. F * Pow2[d + 1] \in Nat
      BY <1>12
    <3> QED BY <2>3, <2>4, <3>1
  <2>6. limit <= n - F
    BY <1>10, <2>3, <2>5
  <2>7. CeilThreeQuarters(lengths[L]) = lengths[L]
    <3>1. 1 \div 4 = 0 /\ 2 \div 4 = 0
      OBVIOUS
    <3> QED BY <1>8, <3>1 DEF CeilThreeQuarters
  <2>8. left[L] \in Nat
    BY <1>4, <2>1
  <2> QED BY <1>6, <1>8, <2>3, <2>4, <2>6, <2>7, <2>8
<1>22. Total(quotas) = limit
  <2>1. L \in 0..L
    BY <1>1
  <2> QED BY <1>6, <1>13, <1>18, <1>21, <2>1
<1> QED BY <1>2, <1>15, <1>18, <1>19, <1>20, <1>22 DEF quotas, lengths, limit

LEMMA NeighbouringLevels ==
  ASSUME NEW n \in Nat, n > 1, NEW i \in 1..(LevelCount(n) - 1)
  PROVE  LET lengths == LevelLengths(n)
         IN  /\ lengths[i] \in Nat
             /\ lengths[i + 1] > 0
             /\ 2 * lengths[i + 1] - lengths[i] \in -2..2
<1> DEFINE L == LevelCount(n)
           lengths == LevelLengths(n)
           r == Remaining(n, i)
           h == Remaining(n, i + 1)
<1>1. L \in Nat /\ i \in 1..L /\ i + 1 \in 1..L
  BY LengthFacts
<1>2. r \in Nat /\ h \in Nat /\ h > 0 /\ h = r \div 2
  BY <1>1, RemainingFacts
<1>3. lengths[i] = (r + 1) \div 2
  BY LengthFacts
<1>4. CASE i + 1 = L
  <2>1. lengths[i + 1] = h /\ h \in {1, 2}
    BY <1>4, LengthFacts, RemainingFacts
  <2> HIDE DEF r, h, lengths
  <2> QED BY <1>2, <1>3, <2>1 DEF lengths
<1>5. CASE i + 1 # L
  <2>1. i + 1 \in 1..(L - 1)
    BY <1>1, <1>5
  <2>2. lengths[i + 1] = (h + 1) \div 2
    BY <2>1, LengthFacts
  <2> HIDE DEF r, h, lengths
  <2> QED BY <1>2, <1>3, <2>2 DEF lengths
<1> QED BY <1>4, <1>5

------------------------------------------------------------------------------
(* Places of a number.                                                     *)

LEMMA Shifted ==
  ASSUME NEW x \in Nat, NEW b \in Nat
  PROVE  x \div Pow2[b] \in Nat /\ Bit(x, b) \in {0, 1}
<1> DEFINE p == Pow2[b]
           q == x \div p
<1>1. p \in Nat /\ p > 0
  BY Pow2Positive
<1>2. q \in Nat
  <2> HIDE DEF p
  <2> QED BY <1>1, Division
<1>3. Bit(x, b) = q % 2
  BY DEF Bit
<1> HIDE DEF q
<1>4. q % 2 \in {0, 1}
  BY <1>2
<1> QED BY <1>2, <1>3, <1>4 DEF q

LEMMA ShiftedTwice ==
  ASSUME NEW x \in Nat, NEW a \in Nat, NEW b \in Nat
  PROVE  (x \div Pow2[a]) \div Pow2[b] = x \div Pow2[a + b]
<1> DEFINE p == Pow2[a]
           r == Pow2[b]
           y == x \div p
           q == y \div r
<1>1. p \in Nat /\ p > 0 /\ r \in Nat /\ r > 0 /\ Pow2[a + b] = p * r
  BY Pow2Positive, Pow2Sum
<1>2. y \in Nat /\ y * p <= x /\ x < (y + 1) * p
  <2> HIDE DEF p
  <2> QED BY <1>1, Division
<1>3. q \in Nat /\ q * r <= y /\ y < (q + 1) * r
  <2> HIDE DEF r, y
  <2> QED BY <1>1, <1>2, Division
<1> HIDE DEF p, r, y, q
<1>4. (q * r) * p <= y * p /\ (y + 1) * p <= ((q + 1) * r) * p
  <2>1. y + 1 <= (q + 1) * r
    BY <1>1, <1>2, <1>3
  <2>2. (q + 1) * r \in Nat /\ q * r \in Nat
    BY <1>1, <1>3
  <2>3. \A u, v \in Nat : u <= v => u * p <= v * p
    BY <1>1
  <2> QED BY <1>2, <1>3, <2>1, <2>2, <2>3
<1>5. (q * r) * p = q * (p * r) /\ ((q + 1) * r) * p = (q + 1) * (p * r)
  BY <1>1, <1>3
<1>6. q * (p * r) <= x /\ x < (q + 1) * (p * r)
  <2>1. q * (p * r) \in Nat /\ (q + 1) * (p * r) \in Nat /\ y * p \in Nat /\ (y + 1) * p \in Nat
    BY <1>1, <1>2, <1>3
  <2> QED BY <1>2, <1>4, <1>5, <2>1
<1>7. p * r \in Nat /\ p * r > 0
  BY <1>1
<1>8. x \div (p * r) = q
  <2> DEFINE m == p * r
  <2>1. m \in Nat /\ m > 0 /\ q * m <= x /\ x < (q + 1) * m
    BY <1>6, <1>7
  <2> HIDE DEF m
  <2>2. x \div m = q
    BY <1>3, <2>1, Quotient
  <2> QED BY <2>2 DEF m
<1> QED BY <1>1, <1>8 DEF p, r, y, q

(* The places of u * 2^k + v are those of v below k, and then those of u. *)
LEMMA Stacked ==
  ASSUME NEW u \in Nat, NEW k \in Nat, NEW v \in Nat, v < Pow2[k], NEW b \in Nat
  PROVE  /\ (u * Pow2[k] + v) \div Pow2[k] = u
         /\ b >= k => Bit(u * Pow2[k] + v, b) = Bit(u, b - k)
         /\ b < k => Bit(u * Pow2[k] + v, b) = Bit(v, b)
<1> DEFINE p == Pow2[k]
           x == u * p + v
<1>1. p \in Nat /\ p > 0 /\ x \in Nat
  BY Pow2Positive
<1>2. x \div p = u
  <2>1. u * p <= x /\ x < (u + 1) * p
    BY <1>1
  <2> HIDE DEF p, x
  <2> QED BY <1>1, <2>1, Quotient
<1>3. ASSUME b >= k PROVE Bit(x, b) = Bit(u, b - k)
  <2>1. b - k \in Nat /\ k + (b - k) = b
    BY <1>3
  <2> HIDE DEF x
  <2>2. x \div Pow2[b] = u \div Pow2[b - k]
    BY <1>1, <1>2, <2>1, ShiftedTwice
  <2> QED BY <2>2 DEF Bit
<1>4. ASSUME b < k PROVE Bit(x, b) = Bit(v, b)
  <2> DEFINE c == k - b - 1
             s == Pow2[b]
             w == Pow2[c]
             q == v \div s
  <2>1. c \in Nat /\ b + (c + 1) = k /\ c + 1 \in Nat
    BY <1>4
  <2>2. s \in Nat /\ s > 0 /\ w \in Nat
    BY <2>1, Pow2Positive
  <2>3. p = s * (2 * w)
    <3> HIDE DEF c
    <3>1. Pow2[c + 1] = 2 * w /\ Pow2[b + (c + 1)] = s * Pow2[c + 1]
      BY <2>1, Pow2Def, Pow2Sum
    <3> QED BY <2>1, <3>1
  <2>4. q \in Nat /\ q * s <= v /\ v < (q + 1) * s
    <3> HIDE DEF s
    <3> QED BY <2>2, Division
  <2>5. x \div s = 2 * (u * w) + q
    <3> DEFINE m == 2 * (u * w) + q
    <3> HIDE DEF p, s, w, q
    <3>1. x = (2 * (u * w)) * s + v
      BY <2>2, <2>3
    <3>2. m \in Nat /\ m * s = (2 * (u * w)) * s + q * s /\ (m + 1) * s = (2 * (u * w)) * s + (q + 1) * s
      BY <2>2, <2>4
    <3>3. m * s <= x /\ x < (m + 1) * s
      BY <2>2, <2>4, <3>1, <3>2
    <3> HIDE DEF m, x
    <3>4. x \div s = m
      BY <1>1, <2>2, <3>2, <3>3, Quotient
    <3> QED BY <3>4 DEF m
  <2>6. (2 * (u * w) + q) % 2 = q % 2
    <3> DEFINE t == u * w
    <3>1. t \in Nat
      BY <2>2
    <3> HIDE DEF t, q
    <3>2. (2 * t + q) % 2 = q % 2
      BY <2>4, <3>1
    <3> QED BY <3>2 DEF t
  <2> HIDE DEF x, q
  <2> QED BY <2>5, <2>6 DEF Bit, q
<1> QED BY <1>2, <1>3, <1>4

LEMMA LengthFits ==
  ASSUME NEW x \in Nat
  PROVE  /\ BitLength(x) \in Nat
         /\ \A k \in Nat : x < Pow2[k] <=> BitLength(x) <= k
<1>1. Width(x, BitLength(x))
  BY BitLengthWidth
<1>2. BitLength(x) \in Nat
  BY <1>1 DEF Width
<1> QED BY <1>1, <1>2, WidthLeast

LEMMA NoPlacePast ==
  ASSUME NEW x \in Nat, NEW b \in Nat, x < Pow2[b]
  PROVE  Bit(x, b) = 0
<1> DEFINE p == Pow2[b]
<1>1. p \in Nat /\ p > 0
  BY Pow2Positive
<1>2. x \div p = 0
  <2>1. 0 * p <= x /\ x < (0 + 1) * p
    BY <1>1
  <2> HIDE DEF p
  <2> QED BY <1>1, <2>1, Quotient
<1> QED BY <1>2 DEF Bit

LEMMA OnesAre ==
  ASSUME NEW x \in Nat
  PROVE  /\ \A b : b \in Ones(x) <=> b \in Nat /\ Bit(x, b) = 1
         /\ \A k \in Nat : x < Pow2[k] => Ones(x) \subseteq 0..(k - 1)
<1>1. BitLength(x) \in Nat /\ \A k \in Nat : x < Pow2[k] <=> BitLength(x) <= k
  BY LengthFits
<1>2. ASSUME NEW b \in Nat, Bit(x, b) = 1 PROVE b \in 0..(BitLength(x) - 1)
  <2>1. ~(x < Pow2[b])
    BY <1>2, NoPlacePast
  <2> QED BY <1>1, <2>1
<1> QED BY <1>1, <1>2 DEF Ones

LEMMA Remainder ==
  ASSUME NEW n \in Nat, NEW m \in Nat, m > 0
  PROVE  n % m \in 0..(m - 1) /\ n = (n \div m) * m + (n % m)
OBVIOUS

(* A number is the word of its places. *)
LEMMA BelowNext ==
  ASSUME NEW x \in Nat, NEW k \in Nat
  PROVE  x % Pow2[k + 1] = (x % Pow2[k]) + (IF Bit(x, k) = 1 THEN Pow2[k] ELSE 0)
<1> DEFINE p == Pow2[k]
           q == x \div p
           r == x % p
<1>1. p \in Nat /\ p > 0 /\ Pow2[k + 1] = 2 * p
  BY Pow2Positive, Pow2Def
<1>2. q \in Nat /\ r \in 0..(p - 1) /\ x = q * p + r
  <2> HIDE DEF p
  <2> QED BY <1>1
<1>3. Bit(x, k) = q % 2
  BY DEF Bit
<1> DEFINE h == q \div 2
           c == q % 2
<1>4. h \in Nat /\ c \in {0, 1} /\ q = 2 * h + c
  <2>1. q \in Nat
    BY <1>2
  <2> HIDE DEF q
  <2> QED BY <2>1
<1>8. Bit(x, k) = c
  BY <1>3
<1>9. x % Pow2[k] = r
  BY Zenon
<1> HIDE DEF p, q, r, h, c
<1>5. x = h * (2 * p) + (c * p + r)
  <2>1. q * p = h * (2 * p) + c * p
    BY <1>1, <1>4
  <2> QED BY <2>1, <1>1, <1>2, <1>4
<1>6. c * p + r \in 0..(2 * p - 1)
  BY <1>1, <1>2, <1>4
<1>7. x % (2 * p) = c * p + r
  <2> DEFINE m == 2 * p
             e == c * p + r
  <2>1. m \in Nat /\ m > 0 /\ e \in 0..(m - 1) /\ x = h * m + e
    BY <1>1, <1>5, <1>6
  <2> HIDE DEF m, e
  <2>2. h * m <= x /\ x < (h + 1) * m
    BY <1>4, <2>1
  <2>3. x \div m = h
    BY <1>4, <2>1, <2>2, Quotient
  <2>4. x = (x \div m) * m + (x % m) /\ x % m \in 0..(m - 1)
    BY <2>1, Remainder
  <2>5. x % m = e
    BY <1>4, <2>1, <2>3, <2>4
  <2> QED BY <2>5 DEF m, e
<1> QED BY <1>1, <1>2, <1>4, <1>6, <1>7, <1>8, <1>9 DEF p

LEMMA NumberIs ==
  ASSUME NEW x \in Nat, x < Pow2[64]
  PROVE  Number(Ones(x)) = x
<1> DEFINE word == Ones(x)
           n == 64
           Is(f) == f = [k \in 0..64 |->
                           IF k = 0 THEN 0
                           ELSE f[k - 1] + (IF k - 1 \in word THEN Pow2[k - 1] ELSE 0)]
           low == CHOOSE f : Is(f)
           below == [k \in 0..64 |-> x % Pow2[k]]
<1>1. n \in Nat
  OBVIOUS
<1>2. \A b \in Nat : b \in word <=> Bit(x, b) = 1
  BY OnesAre
<1> HIDE DEF word
<1>3. ASSUME NEW k \in 0..64, k # 0
      PROVE  below[k] = below[k - 1] + (IF k - 1 \in word THEN Pow2[k - 1] ELSE 0)
  <2>1. k - 1 \in Nat /\ k - 1 \in 0..64 /\ (k - 1) + 1 = k
    BY <1>3
  <2>2. x % Pow2[k] = (x % Pow2[k - 1]) + (IF Bit(x, k - 1) = 1 THEN Pow2[k - 1] ELSE 0)
    BY <2>1, BelowNext
  <2>3. below[k] = x % Pow2[k] /\ below[k - 1] = x % Pow2[k - 1]
    BY <2>1
  <2> HIDE DEF below
  <2>4. k - 1 \in word <=> Bit(x, k - 1) = 1
    BY <1>2, <2>1
  <2> QED BY <2>2, <2>3, <2>4
<1>4. below[0] = 0
  BY Pow2Def
<1>5. below = [k \in 0..64 |-> below[k]]
  OBVIOUS
<1>6. below[64] = x
  <2> DEFINE p == Pow2[n]
  <2>1. p \in Nat /\ x < p
    BY <1>1, Pow2Positive
  <2>2. x % p = x
    <3> HIDE DEF p
    <3> QED BY <2>1
  <2> QED BY <2>2
<1> HIDE DEF below
<1>7. Is(below)
  <2>1. ASSUME NEW k \in 0..64
        PROVE  below[k] = IF k = 0 THEN 0
                          ELSE below[k - 1] + (IF k - 1 \in word THEN Pow2[k - 1] ELSE 0)
    BY <1>3, <1>4
  <2> QED BY <1>5, <2>1
<1>8. Is(low)
  BY <1>7, Zenon
<1>9. Number(word) = low[64]
  BY Zenon DEF Number
<1> HIDE DEF low
<1>10. \A k \in 0..64 : low[k] = IF k = 0 THEN 0
                                 ELSE low[k - 1] + (IF k - 1 \in word THEN Pow2[k - 1] ELSE 0)
  BY <1>8
<1> DEFINE S == {k \in 0..n : low[k] = below[k]}
<1>11. 0 \in S
  BY <1>4, <1>10
<1>12. ASSUME NEW k \in 0..n, k < n, k \in S PROVE k + 1 \in S
  <2>1. k + 1 \in 0..64 /\ k + 1 # 0 /\ (k + 1) - 1 = k
    BY <1>12
  <2>2. below[k + 1] = below[k] + (IF k \in word THEN Pow2[k] ELSE 0)
    BY <1>3, <2>1
  <2>3. low[k + 1] = low[k] + (IF k \in word THEN Pow2[k] ELSE 0)
    BY <1>10, <2>1
  <2> QED BY <1>12, <2>1, <2>2, <2>3
<1> HIDE DEF S
<1>13. \A k \in 0..n : k \in S
  BY <1>1, <1>11, <1>12, PositionInduction, Zenon
<1>14. n \in S
  BY <1>13
<1>15. low[64] = below[64]
  BY <1>14 DEF S
<1> QED BY <1>6, <1>9, <1>15 DEF word

(* The places of a sum of a shifted number and one that fits below it. *)
LEMMA OnesStacked ==
  ASSUME NEW u \in Nat, NEW k \in Nat, NEW v \in Nat, v < Pow2[k]
  PROVE  Ones(u * Pow2[k] + v) = ShiftLeft(Ones(u), k) \cup Ones(v)
<1> DEFINE x == u * Pow2[k] + v
<1>1. x \in Nat
  BY Pow2Positive
<1>2. \A b \in Nat : /\ b >= k => Bit(x, b) = Bit(u, b - k)
                     /\ b < k => Bit(x, b) = Bit(v, b)
  BY Stacked
<1> HIDE DEF x
<1>3. /\ \A b : b \in Ones(x) <=> b \in Nat /\ Bit(x, b) = 1
      /\ \A b : b \in Ones(u) <=> b \in Nat /\ Bit(u, b) = 1
      /\ \A b : b \in Ones(v) <=> b \in Nat /\ Bit(v, b) = 1
      /\ Ones(v) \subseteq 0..(k - 1)
  BY <1>1, OnesAre
<1>4. ASSUME NEW b PROVE b \in ShiftLeft(Ones(u), k) <=> b \in Nat /\ b >= k /\ Bit(u, b - k) = 1
  <2>1. ASSUME b \in ShiftLeft(Ones(u), k) PROVE b \in Nat /\ b >= k /\ Bit(u, b - k) = 1
    <3>1. PICK a \in Ones(u) : b = a + k
      BY <2>1 DEF ShiftLeft
    <3>2. a \in Nat /\ Bit(u, a) = 1 /\ b - k = a
      BY <1>3, <3>1
    <3> QED BY <3>1, <3>2
  <2>2. ASSUME b \in Nat, b >= k, Bit(u, b - k) = 1 PROVE b \in ShiftLeft(Ones(u), k)
    <3>1. b - k \in Nat /\ b = (b - k) + k
      BY <2>2
    <3>2. b - k \in Ones(u)
      BY <1>3, <2>2, <3>1
    <3> QED BY <3>1, <3>2 DEF ShiftLeft
  <2> QED BY <2>1, <2>2
<1>5. ASSUME NEW b PROVE b \in Ones(x) <=> b \in ShiftLeft(Ones(u), k) \/ b \in Ones(v)
  <2>1. CASE b \notin Nat
    BY <1>3, <1>4, <2>1
  <2>2. CASE b \in Nat /\ b >= k
    <3>1. b \notin Ones(v)
      BY <1>3, <2>2
    <3> QED BY <1>2, <1>3, <1>4, <2>2, <3>1
  <2>3. CASE b \in Nat /\ b < k
    BY <1>2, <1>3, <1>4, <2>3
  <2> QED BY <2>1, <2>2, <2>3
<1> QED BY <1>5 DEF x

(* A lane read out of a word: what is above place k and below place k + n. *)
Laned(L, k, M, H) == L \cup ShiftLeft(M, k) \cup H

IsLane(w, L, k, n, M, H) ==
  /\ ShiftRight(w \cap k..(k + n - 1), k) = M
  /\ ShiftRight(w, k) \cap 0..(n - 1) = M
  /\ w \cap k..(k + n - 1) = ShiftLeft(M, k)
  /\ w \ k..(k + n - 1) = L \cup H

LEMMA LaneRead ==
  ASSUME NEW k \in Nat, NEW n \in Nat,
         NEW L \in SUBSET (0..(k - 1)), NEW M \in SUBSET (0..(n - 1)),
         NEW H \in SUBSET {b \in Nat : b >= k + n}
  PROVE  IsLane(Laned(L, k, M, H), L, k, n, M, H)
<1> DEFINE w == Laned(L, k, M, H)
<1>1. \A b : b \in ShiftLeft(M, k) <=> b \in k..(k + n - 1) /\ b - k \in M
  <2> SUFFICES ASSUME NEW b PROVE b \in ShiftLeft(M, k) <=> b \in k..(k + n - 1) /\ b - k \in M
    OBVIOUS
  <2>1. ASSUME b \in ShiftLeft(M, k) PROVE b \in k..(k + n - 1) /\ b - k \in M
    <3>1. PICK a \in M : b = a + k
      BY <2>1 DEF ShiftLeft
    <3>2. a \in 0..(n - 1)
      OBVIOUS
    <3>3. b - k = a
      BY <3>1, <3>2
    <3> QED BY <3>1, <3>2, <3>3
  <2>2. ASSUME b \in k..(k + n - 1), b - k \in M PROVE b \in ShiftLeft(M, k)
    <3>1. b = (b - k) + k
      BY <2>2
    <3> QED BY <2>2, <3>1 DEF ShiftLeft
  <2> QED BY <2>1, <2>2
<1>2. \A b : b \in w <=> b \in L \/ (b \in k..(k + n - 1) /\ b - k \in M) \/ b \in H
  BY <1>1 DEF Laned
<1> HIDE DEF w
<1>3. \A b \in k..(k + n - 1) : b \in w <=> b - k \in M
  <2> TAKE b \in k..(k + n - 1)
  <2>1. b \notin L /\ b \notin H
    OBVIOUS
  <2> QED BY <1>2, <2>1
<1>4. ASSUME NEW a PROVE a \in ShiftRight(w \cap k..(k + n - 1), k) <=> a \in M
  <2>1. ASSUME a \in ShiftRight(w \cap k..(k + n - 1), k) PROVE a \in M
    <3>1. PICK b \in w \cap k..(k + n - 1) : a = b - k
      BY <2>1 DEF ShiftRight
    <3> QED BY <1>3, <3>1
  <2>2. ASSUME a \in M PROVE a \in ShiftRight(w \cap k..(k + n - 1), k)
    <3>1. a \in 0..(n - 1)
      BY <2>2
    <3>2. a + k \in k..(k + n - 1) /\ (a + k) - k = a /\ a + k >= k
      BY <3>1
    <3>3. a + k \in w
      BY <1>3, <2>2, <3>2
    <3> QED BY <3>2, <3>3 DEF ShiftRight
  <2> QED BY <2>1, <2>2
<1>5. ASSUME NEW a PROVE a \in ShiftRight(w, k) \cap 0..(n - 1) <=> a \in M
  <2>1. ASSUME a \in ShiftRight(w, k) \cap 0..(n - 1) PROVE a \in M
    <3>1. PICK b \in w : b >= k /\ a = b - k
      BY <2>1 DEF ShiftRight
    <3>2. b \in Int
      <4>1. b \in L => b \in Int
        OBVIOUS
      <4>2. b \in k..(k + n - 1) => b \in Int
        OBVIOUS
      <4>3. b \in H => b \in Int
        OBVIOUS
      <4> QED BY <1>2, <3>1, <4>1, <4>2, <4>3
    <3>3. b \in k..(k + n - 1)
      BY <2>1, <3>1, <3>2
    <3> QED BY <1>3, <3>1, <3>3
  <2>2. ASSUME a \in M PROVE a \in ShiftRight(w, k) \cap 0..(n - 1)
    <3>1. a \in 0..(n - 1)
      BY <2>2
    <3>2. a + k \in k..(k + n - 1) /\ (a + k) - k = a /\ a + k >= k
      BY <3>1
    <3>3. a + k \in w
      BY <1>3, <2>2, <3>2
    <3> QED BY <3>1, <3>2, <3>3 DEF ShiftRight
  <2> QED BY <2>1, <2>2
<1>6. ASSUME NEW b PROVE b \in w \cap k..(k + n - 1) <=> b \in ShiftLeft(M, k)
  BY <1>1, <1>3
<1>7. ASSUME NEW b PROVE b \in w \ k..(k + n - 1) <=> b \in L \cup H
  <2>1. b \in L => b \notin k..(k + n - 1)
    OBVIOUS
  <2>2. b \in H => b \notin k..(k + n - 1)
    OBVIOUS
  <2> QED BY <1>2, <2>1, <2>2
<1>8. ShiftRight(w \cap k..(k + n - 1), k) = M
  BY <1>4, Zenon
<1>9. ShiftRight(w, k) \cap 0..(n - 1) = M
  BY <1>5, Zenon
<1> QED BY <1>6, <1>7, <1>8, <1>9 DEF IsLane, w

------------------------------------------------------------------------------
(* The epoch word.                                                         *)

LEMMA FewPlaces ==
  ASSUME NEW n \in Nat, n <= 64, NEW x \in Nat, x < Pow2[n]
  PROVE  Ones(x) \subseteq 0..(n - 1) /\ Number(Ones(x)) = x
<1> DEFINE m == 64
<1>1. m \in Nat /\ n <= m
  OBVIOUS
<1>2. x < Pow2[m]
  <2> HIDE DEF m
  <2>1. Pow2[n] \in Nat /\ Pow2[m] \in Nat
    BY <1>1, Pow2Positive
  <2>2. n < m => Pow2[n] < Pow2[m]
    BY <1>1, Pow2Grows
  <2> QED BY <1>1, <2>1, <2>2
<1> QED BY <1>2, OnesAre, NumberIs

LEMMA SmallPowers ==
  Pow2[3] = 8 /\ Pow2[5] = 32 /\ Pow2[8] = 256 /\ Pow2[13] = 8192
<1>1. \A k \in Nat : Pow2[k + 1] = 2 * Pow2[k]
  BY Pow2Def
<1>2. Pow2[0 + 1] = 2 /\ Pow2[1 + 1] = 4 /\ Pow2[2 + 1] = 8
  BY <1>1, Pow2Def
<1>3. Pow2[3 + 1] = 16 /\ Pow2[4 + 1] = 32 /\ Pow2[5 + 1] = 64
  BY <1>1, <1>2
<1>4. Pow2[6 + 1] = 128 /\ Pow2[7 + 1] = 256 /\ Pow2[8 + 1] = 512
  BY <1>1, <1>3
<1>5. Pow2[9 + 1] = 1024 /\ Pow2[10 + 1] = 2048 /\ Pow2[11 + 1] = 4096
  BY <1>1, <1>4
<1>6. Pow2[12 + 1] = 8192
  BY <1>1, <1>5
<1> QED BY <1>2, <1>3, <1>4, <1>6

LEMMA Codes ==
  \A t \in Transition : Code(t) \in 0..5 /\ TransitionFromBits(Code(t)) = t
<1>1. DOMAIN Discriminants = 1..5
  BY DEF Discriminants
<1>2. ASSUME NEW t \in Transition, t # "Initial" PROVE Code(t) \in 1..5 /\ Discriminants[Code(t)] = t
  <2>1. \E c \in DOMAIN Discriminants : Discriminants[c] = t
    <3>1. Discriminants[1] = "Growth" /\ Discriminants[2] = "TombstoneCleanup"
          /\ Discriminants[3] = "ExplicitResize" /\ Discriminants[4] = "Clear"
          /\ Discriminants[5] = "PlacementRecovery"
      BY DEF Discriminants
    <3>2. t \in {"Growth", "TombstoneCleanup", "ExplicitResize", "Clear", "PlacementRecovery"}
      BY <1>2 DEF Transition
    <3>3. 1 \in 1..5 /\ 2 \in 1..5 /\ 3 \in 1..5 /\ 4 \in 1..5 /\ 5 \in 1..5
      OBVIOUS
    <3> QED BY <1>1, <3>1, <3>2, <3>3, Zenon
  <2>2. Code(t) = CHOOSE c \in DOMAIN Discriminants : Discriminants[c] = t
    BY <1>2 DEF Code
  <2> HIDE DEF Discriminants
  <2>3. Code(t) \in DOMAIN Discriminants /\ Discriminants[Code(t)] = t
    BY <2>1, <2>2, Zenon
  <2> QED BY <1>1, <2>3
<1>3. Code("Initial") = 0 /\ TransitionFromBits(0) = "Initial"
  BY <1>1 DEF Code, TransitionFromBits
<1>4. ASSUME NEW t \in Transition PROVE Code(t) \in 0..5 /\ TransitionFromBits(Code(t)) = t
  <2>1. CASE t = "Initial"
    BY <2>1, <1>3
  <2>2. CASE t # "Initial"
    <3>1. Code(t) \in 1..5 /\ Discriminants[Code(t)] = t
      BY <1>2, <2>2
    <3> QED BY <1>1, <3>1 DEF TransitionFromBits
  <2> QED BY <2>1, <2>2
<1> QED BY <1>4

(* The word with these fields. *)
Fields(g, r, c, h) ==
  Ones(g) \cup ShiftLeft(Ones(r), RecoveryShift) \cup ShiftLeft(Ones(c), TransitionShift)
    \cup (IF h THEN HadDeleteMask ELSE {})

HasFields(w, g, r, c, h) ==
  /\ Generation(w) = g /\ Recoveries(w) = r
  /\ Number(ShiftRight(w \cap TransitionMask, TransitionShift)) = c
  /\ w \cap HadDeleteMask # {} <=> h
  /\ w \cap RecoveryMask = ShiftLeft(Ones(r), RecoveryShift)
  /\ w \ RecoveryMask = Fields(g, 0, c, h)

LEMMA FieldLanes ==
  ASSUME NEW g \in 0..GenMax, NEW r \in 0..RecMax, NEW c \in 0..5, NEW h \in BOOLEAN
  PROVE  HasFields(Fields(g, r, c, h), g, r, c, h)
<1> DEFINE w == Fields(g, r, c, h)
           R == ShiftLeft(Ones(r), GenBits)
           T == ShiftLeft(Ones(c), GenBits + RecBits)
           D == IF h THEN {GenBits + RecBits + 3} ELSE {}
<1>1. GenBits \in Nat /\ RecBits \in Nat /\ GenBits + RecBits + 4 <= 64
  BY LaneAssumption
<1>2. g \in Nat /\ g < Pow2[GenBits] /\ r \in Nat /\ r < Pow2[RecBits] /\ c \in Nat /\ c < Pow2[3]
  <2>1. Pow2[GenBits] \in Nat /\ Pow2[RecBits] \in Nat
    BY <1>1, Pow2Positive
  <2> QED BY <2>1, LaneAssumption, SmallPowers
<1>3. /\ Ones(g) \subseteq 0..(GenBits - 1) /\ Number(Ones(g)) = g
      /\ Ones(r) \subseteq 0..(RecBits - 1) /\ Number(Ones(r)) = r
      /\ Ones(c) \subseteq 0..(3 - 1) /\ Number(Ones(c)) = c
  <2>1. GenBits <= 64 /\ RecBits <= 64 /\ 3 \in Nat /\ 3 <= 64
    BY <1>1
  <2> QED BY <1>1, <1>2, <2>1, FewPlaces
<1>4. w = Ones(g) \cup R \cup T \cup D
  BY DEF Fields, RecoveryShift, TransitionShift, HadDeleteMask
<1>5. /\ \A b \in R : b \in GenBits..(GenBits + RecBits - 1)
      /\ \A b \in T : b \in (GenBits + RecBits)..(GenBits + RecBits + 2)
  <2>1. \A b \in R : \E a \in 0..(RecBits - 1) : b = a + GenBits
    BY <1>3 DEF ShiftLeft
  <2>2. \A b \in T : \E a \in 0..2 : b = a + (GenBits + RecBits)
    BY <1>3 DEF ShiftLeft
  <2> HIDE DEF R, T
  <2> QED BY <1>1, <2>1, <2>2
<1>6. \A b \in D : b = GenBits + RecBits + 3
  OBVIOUS
<1>7. ShiftLeft(Ones(0), RecoveryShift) = {}
  <2>1. 0 \in Nat /\ 0 < Pow2[0]
    BY Pow2Def
  <2>2. Ones(0) \subseteq 0..(0 - 1)
    BY <2>1, OnesAre
  <2>3. 0..(0 - 1) = {}
    OBVIOUS
  <2> QED BY <2>2, <2>3 DEF ShiftLeft
<1>8. /\ ShiftRight(w \cap RecoveryMask, GenBits) = Ones(r)
      /\ w \cap RecoveryMask = R
      /\ w \ RecoveryMask = Ones(g) \cup T \cup D
  <2> DEFINE H == T \cup D
  <2>1. \A b \in H : b \in Nat /\ b >= GenBits + RecBits
    BY <1>1, <1>5, <1>6
  <2>2. w = Ones(g) \cup ShiftLeft(Ones(r), GenBits) \cup H
    BY <1>4
  <2>3. RecoveryMask = GenBits..(GenBits + RecBits - 1)
    BY DEF RecoveryMask, RecoveryShift
  <2> HIDE DEF H, w, T, D
  <2>4. /\ ShiftRight(w \cap GenBits..(GenBits + RecBits - 1), GenBits) = Ones(r)
        /\ w \cap GenBits..(GenBits + RecBits - 1) = ShiftLeft(Ones(r), GenBits)
        /\ w \ GenBits..(GenBits + RecBits - 1) = Ones(g) \cup H
    <3>1. /\ Ones(g) \in SUBSET (0..(GenBits - 1)) /\ Ones(r) \in SUBSET (0..(RecBits - 1))
          /\ H \in SUBSET {b \in Nat : b >= GenBits + RecBits}
      BY <1>3, <2>1
    <3>2. IsLane(Laned(Ones(g), GenBits, Ones(r), H), Ones(g), GenBits, RecBits, Ones(r), H)
      BY <1>1, <3>1, LaneRead
    <3>3. Laned(Ones(g), GenBits, Ones(r), H) = w
      BY <2>2 DEF Laned
    <3> QED BY <3>2, <3>3, Zenon DEF IsLane
  <2> QED BY <2>3, <2>4 DEF H
<1>9. Number(ShiftRight(w \cap TransitionMask, TransitionShift)) = c
  <2> DEFINE k == GenBits + RecBits
             n == 3
             L == Ones(g) \cup R
  <2>1. k \in Nat /\ n \in Nat /\ L \subseteq 0..(k - 1) /\ Ones(c) \subseteq 0..(n - 1)
    <3>1. \A b \in L : b \in 0..(k - 1)
      <4>1. \A b \in Ones(g) : b \in 0..(GenBits - 1)
        BY <1>3
      <4> HIDE DEF R
      <4> QED BY <1>1, <1>5, <4>1
    <3> QED BY <1>1, <1>3, <3>1
  <2>2. \A b \in D : b \in Nat /\ b >= k + n
    BY <1>1
  <2>3. w = L \cup ShiftLeft(Ones(c), k) \cup D
    BY <1>4
  <2>4. TransitionMask = k..(k + n - 1) /\ TransitionShift = k
    BY <1>1 DEF TransitionMask, TransitionShift
  <2> HIDE DEF k, n, L, D, w
  <2>5. ShiftRight(w \cap k..(k + n - 1), k) = Ones(c)
    <3>1. L \in SUBSET (0..(k - 1)) /\ Ones(c) \in SUBSET (0..(n - 1)) /\ D \in SUBSET {b \in Nat : b >= k + n}
      BY <2>1, <2>2
    <3>2. IsLane(Laned(L, k, Ones(c), D), L, k, n, Ones(c), D)
      BY <2>1, <3>1, LaneRead
    <3>3. Laned(L, k, Ones(c), D) = w
      BY <2>3 DEF Laned
    <3> QED BY <3>2, <3>3, Zenon DEF IsLane
  <2> QED BY <1>3, <2>4, <2>5
<1>10. w \cap GenerationMask = Ones(g)
  <2>1. \A b \in R \cup T \cup D : b \notin 0..(GenBits - 1)
    <3> HIDE DEF R, T, D
    <3>1. \A b \in R \cup T \cup D : b \in Int /\ b >= GenBits
      BY <1>1, <1>5, <1>6
    <3> QED BY <1>1, <3>1
  <2>2. GenerationMask = 0..(GenBits - 1)
    BY DEF GenerationMask
  <2> HIDE DEF w, R, T, D
  <2> QED BY <1>3, <1>4, <2>1, <2>2, Zenon
<1>11. w \cap HadDeleteMask # {} <=> h
  <2> DEFINE p == GenBits + RecBits + 3
  <2>1. p \notin Ones(g) /\ p \notin R /\ p \notin T
    <3> HIDE DEF R, T
    <3>1. p \notin 0..(GenBits - 1)
      BY <1>1
    <3> QED BY <1>1, <1>3, <1>5, <3>1
  <2>2. p \in D <=> h
    OBVIOUS
  <2>3. HadDeleteMask = {p}
    BY DEF HadDeleteMask, TransitionShift
  <2> HIDE DEF w, R, T, D, p
  <2> QED BY <1>4, <2>1, <2>2, <2>3
<1>12. Fields(g, 0, c, h) = Ones(g) \cup T \cup D
  BY <1>7 DEF Fields, RecoveryShift, TransitionShift, HadDeleteMask
<1> HIDE DEF w
<1>13. Generation(w) = g /\ Recoveries(w) = r
  BY <1>3, <1>8, <1>10 DEF Generation, Recoveries, RecoveryShift
<1>14. w \cap RecoveryMask = ShiftLeft(Ones(r), RecoveryShift) /\ w \ RecoveryMask = Fields(g, 0, c, h)
  BY <1>8, <1>12 DEF RecoveryShift
<1> QED BY <1>9, <1>11, <1>13, <1>14 DEF HasFields, w

LEMMA SuccWithin ==
  ASSUME NEW max \in Nat, NEW x \in 0..max
  PROVE  SaturatingSucc(x, max) \in 0..max
BY DEF SaturatingSucc

LEMMA EpochsStayEpochs ==
  ASSUME NEW e \in Epoch
  PROVE  /\ NoteDelete(e) \in Epoch /\ NoteDelete(e).deletions = SaturatingSucc(e.deletions, DelMax)
         /\ NotePlacementRecovery(e) \in Epoch /\ NotePlacementRecovery(e).deletions = e.deletions
         /\ \A t \in Transition : StartOf(e, t) \in Epoch /\ StartOf(e, t).deletions = 0
<1>1. /\ SaturatingSucc(e.generation, GenMax) \in 0..GenMax
      /\ SaturatingSucc(e.recoveries, RecMax) \in 0..RecMax
      /\ SaturatingSucc(e.deletions, DelMax) \in 0..DelMax
      /\ 0 \in 0..DelMax
  BY WidthAssumption, SuccWithin DEF Epoch
<1> QED BY <1>1 DEF NoteDelete, NotePlacementRecovery, StartOf, Epoch

------------------------------------------------------------------------------
(* Counters.                                                               *)

LEMMA ShiftedPlaces ==
  ASSUME NEW n \in Nat, n <= 64, NEW x \in Nat, x < Pow2[n], NEW k \in Nat
  PROVE  \A b \in ShiftLeft(Ones(x), k) : b \in Nat /\ k <= b /\ b < k + n
<1> TAKE b \in ShiftLeft(Ones(x), k)
<1>1. PICK a \in Ones(x) : b = a + k
  BY DEF ShiftLeft
<1>2. a \in 0..(n - 1)
  BY FewPlaces
<1> QED BY <1>1, <1>2

LEMMA LaneNumber ==
  ASSUME NEW k \in Nat, NEW n \in Nat, n <= 64, NEW x \in Nat, x < Pow2[n],
         NEW L \in SUBSET {b \in Nat : b < k}, NEW H \in SUBSET {b \in Nat : b >= k + n}
  PROVE  Lane(Laned(L, k, Ones(x), H), k, n) = x
<1>1. L \in SUBSET (0..(k - 1))
  OBVIOUS
<1>2. Ones(x) \in SUBSET (0..(n - 1)) /\ Number(Ones(x)) = x
  BY FewPlaces
<1>3. IsLane(Laned(L, k, Ones(x), H), L, k, n, Ones(x), H)
  BY <1>1, <1>2, LaneRead
<1> QED BY <1>2, <1>3, Zenon DEF IsLane, Lane

LEMMA LowestLane ==
  ASSUME NEW n \in Nat, n <= 64, NEW x \in Nat, x < Pow2[n],
         NEW H \in SUBSET {b \in Nat : b >= n}
  PROVE  Lane(Ones(x) \cup H, 0, n) = x
<1>1. Lane(Laned({}, 0, Ones(x), H), 0, n) = x
  <2> DEFINE L == {}
             k == 0
  <2>1. k \in Nat /\ L \in SUBSET {b \in Nat : b < k}
    OBVIOUS
  <2>2. H \in SUBSET {b \in Nat : b >= k + n}
    OBVIOUS
  <2> HIDE DEF L, k
  <2>3. Lane(Laned(L, k, Ones(x), H), k, n) = x
    BY <2>1, <2>2, LaneNumber
  <2> QED BY <2>3 DEF L, k
<1>3. ShiftLeft(Ones(x), 0) = Ones(x)
  <2>1. \A b \in Ones(x) : b \in Nat /\ b + 0 = b
    <3>1. \A b \in Ones(x) : b \in Nat
      BY OnesAre
    <3> QED BY <3>1
  <2> QED BY <2>1 DEF ShiftLeft
<1>4. Laned({}, 0, Ones(x), H) = Ones(x) \cup H
  BY <1>3 DEF Laned
<1> QED BY <1>1, <1>4

LEMMA ElasticCounterLanes ==
  ASSUME NEW level \in Nat, NEW logical \in Nat, NEW retry \in Nat,
         NEW c \in ElasticCounter(level, logical, retry)
  PROVE  /\ ElasticCounterLevel(c) = level
         /\ Lane(c, 3, 13) = logical
         /\ Lane(c, 0, 3) = retry
<1> DEFINE A == ShiftLeft(Ones(level), 16)
           B == ShiftLeft(Ones(logical), 3)
           R == Ones(retry)
<1>1. level < Pow2[5] /\ logical < Pow2[13] /\ retry < Pow2[3] /\ c = A \cup B \cup R
  <2>1. Pow2[5] \in Nat /\ Pow2[13] \in Nat /\ Pow2[3] \in Nat
    BY SmallPowers
  <2> QED BY <2>1 DEF ElasticCounter
<1>2. /\ \A b \in A : b \in Nat /\ 16 <= b
      /\ \A b \in B : b \in Nat /\ 3 <= b /\ b < 16
      /\ \A b \in R : b \in Nat /\ b < 3
  <2>1. \A b \in A : b \in Nat /\ 16 <= b /\ b < 16 + 5
    BY <1>1, ShiftedPlaces
  <2>2. \A b \in B : b \in Nat /\ 3 <= b /\ b < 3 + 13
    BY <1>1, ShiftedPlaces
  <2>3. R \subseteq 0..(3 - 1)
    BY <1>1, FewPlaces
  <2> QED BY <2>1, <2>2, <2>3
<1>3. ElasticCounterLevel(c) = level
  <2>1. (B \cup R) \in SUBSET {b \in Nat : b < 16}
    BY <1>2
  <2>2. {} \in SUBSET {b \in Nat : b >= 16 + 5}
    OBVIOUS
  <2>3. Lane(Laned(B \cup R, 16, Ones(level), {}), 16, 5) = level
    BY <1>1, <2>1, <2>2, LaneNumber
  <2>4. Laned(B \cup R, 16, Ones(level), {}) = c
    BY <1>1 DEF Laned
  <2>5. 5 - 1 = 4
    OBVIOUS
  <2> QED BY <2>3, <2>4, <2>5 DEF ElasticCounterLevel
<1>4. Lane(c, 3, 13) = logical
  <2>1. A \in SUBSET {b \in Nat : b >= 3 + 13}
    BY <1>2
  <2>2. R \in SUBSET {b \in Nat : b < 3}
    BY <1>2
  <2>3. Lane(Laned(R, 3, Ones(logical), A), 3, 13) = logical
    BY <1>1, <2>1, <2>2, LaneNumber
  <2>4. Laned(R, 3, Ones(logical), A) = c
    BY <1>1 DEF Laned
  <2> QED BY <2>3, <2>4
<1>5. Lane(c, 0, 3) = retry
  <2>1. (A \cup B) \in SUBSET {b \in Nat : b >= 3}
    BY <1>2
  <2>2. Lane(Ones(retry) \cup (A \cup B), 0, 3) = retry
    <3> DEFINE H == A \cup B
    <3>1. H \in SUBSET {b \in Nat : b >= 3}
      BY <2>1
    <3> HIDE DEF H
    <3>2. Lane(Ones(retry) \cup H, 0, 3) = retry
      BY <1>1, <3>1, LowestLane
    <3> QED BY <3>2 DEF H
  <2>3. Ones(retry) \cup (A \cup B) = c
    BY <1>1
  <2> QED BY <2>2, <2>3
<1> QED BY <1>3, <1>4, <1>5

LEMMA FunnelCounterLanes ==
  ASSUME NEW domain \in FunnelDomain, NEW level \in Nat, NEW logical \in Nat, NEW retry \in Nat,
         NEW c \in FunnelCounter(domain, level, logical, retry)
  PROVE  /\ Lane(c, 8, 8) = logical
         /\ Lane(c, 0, 8) = retry
         /\ domain = "ordinary" => Lane(c, 16, FunnelLevelBits) = level
         /\ Lane(c, 16 + FunnelLevelBits, 2) = Tag[domain]
<1> DEFINE tag == Tag[domain]
           lane == IF domain = "ordinary" THEN level ELSE 0
           m == FunnelLevelBits
           T == ShiftLeft(Ones(tag), 16 + m)
           A == ShiftLeft(Ones(lane), 16)
           B == ShiftLeft(Ones(logical), 8)
           R == Ones(retry)
<1>1. m \in Nat /\ m <= 46
  BY EncodingAssumption
<1>2. tag \in 0..3 /\ Pow2[2] = 4 /\ tag < Pow2[2]
  <2>1. tag \in 0..3
    BY DEF Tag, FunnelDomain
  <2>2. Pow2[0 + 1] = 2 /\ Pow2[1 + 1] = 4
    BY Pow2Def
  <2> QED BY <2>1, <2>2
<1>3. /\ lane \in Nat /\ lane < Pow2[m] /\ logical < Pow2[8] /\ retry < Pow2[8]
      /\ c = T \cup A \cup B \cup R
  <2>1. Pow2[8] \in Nat /\ Pow2[m] \in Nat
    BY <1>1, SmallPowers, Pow2Positive
  <2>2. lane \in Nat
    OBVIOUS
  <2>3. c \in IF logical >= Pow2[8] \/ retry >= Pow2[8] \/ lane >= Pow2[m] THEN {}
              ELSE {T \cup A \cup B \cup R}
    BY Zenon DEF FunnelCounter
  <2> HIDE DEF lane, T, A, B, R
  <2> QED BY <2>1, <2>2, <2>3
<1>4. /\ \A b \in T : b \in Nat /\ 16 + m <= b
      /\ \A b \in A : b \in Nat /\ 16 <= b /\ b < 16 + m
      /\ \A b \in B : b \in Nat /\ 8 <= b /\ b < 16
      /\ \A b \in R : b \in Nat /\ b < 8
  <2> HIDE DEF tag, lane, m
  <2>1. \A b \in T : b \in Nat /\ 16 + m <= b /\ b < 16 + m + 2
    BY <1>1, <1>2, ShiftedPlaces
  <2>2. \A b \in A : b \in Nat /\ 16 <= b /\ b < 16 + m
    BY <1>1, <1>3, ShiftedPlaces
  <2>3. \A b \in B : b \in Nat /\ 8 <= b /\ b < 8 + 8
    BY <1>3, ShiftedPlaces
  <2>4. R \subseteq 0..(8 - 1)
    BY <1>3, FewPlaces
  <2> QED BY <1>1, <2>1, <2>2, <2>3, <2>4
<1> HIDE DEF tag, lane, m
<1>5. Lane(c, 8, 8) = logical
  <2>1. (T \cup A) \in SUBSET {b \in Nat : b >= 8 + 8}
    <3> HIDE DEF T, A
    <3> QED BY <1>1, <1>4
  <2>2. R \in SUBSET {b \in Nat : b < 8}
    BY <1>4
  <2>3. Lane(Laned(R, 8, Ones(logical), T \cup A), 8, 8) = logical
    BY <1>3, <2>1, <2>2, LaneNumber
  <2>4. Laned(R, 8, Ones(logical), T \cup A) = c
    BY <1>3 DEF Laned
  <2> QED BY <2>3, <2>4
<1>6. Lane(c, 0, 8) = retry
  <2>1. (T \cup A \cup B) \in SUBSET {b \in Nat : b >= 8}
    <3> HIDE DEF T, A, B
    <3> QED BY <1>1, <1>4
  <2>2. Lane(Ones(retry) \cup (T \cup A \cup B), 0, 8) = retry
    <3> DEFINE H == T \cup A \cup B
    <3>1. H \in SUBSET {b \in Nat : b >= 8}
      BY <2>1
    <3> HIDE DEF H
    <3>2. Lane(Ones(retry) \cup H, 0, 8) = retry
      BY <1>3, <3>1, LowestLane
    <3> QED BY <3>2 DEF H
  <2>3. Ones(retry) \cup (T \cup A \cup B) = c
    BY <1>3
  <2> QED BY <2>2, <2>3
<1>7. Lane(c, 16, m) = lane
  <2>1. T \in SUBSET {b \in Nat : b >= 16 + m}
    BY <1>4
  <2>2. (B \cup R) \in SUBSET {b \in Nat : b < 16}
    <3> HIDE DEF B, R
    <3> QED BY <1>4
  <2>3. Lane(Laned(B \cup R, 16, Ones(lane), T), 16, m) = lane
    BY <1>1, <1>3, <2>1, <2>2, LaneNumber
  <2>4. Laned(B \cup R, 16, Ones(lane), T) = c
    BY <1>3 DEF Laned
  <2> QED BY <2>3, <2>4
<1>8. Lane(c, 16 + m, 2) = tag
  <2>1. (A \cup B \cup R) \in SUBSET {b \in Nat : b < 16 + m}
    <3> HIDE DEF A, B, R
    <3> QED BY <1>1, <1>4
  <2>2. {} \in SUBSET {b \in Nat : b >= 16 + m + 2}
    OBVIOUS
  <2>3. Lane(Laned(A \cup B \cup R, 16 + m, Ones(tag), {}), 16 + m, 2) = tag
    BY <1>1, <1>2, <2>1, <2>2, LaneNumber
  <2>4. Laned(A \cup B \cup R, 16 + m, Ones(tag), {}) = c
    BY <1>3 DEF Laned
  <2> QED BY <2>3, <2>4
<1> QED BY <1>5, <1>6, <1>7, <1>8 DEF lane, m, tag

------------------------------------------------------------------------------
(* The pairing phi.                                                        *)

LEMMA HalvingInduction ==
  ASSUME NEW S, 0 \in S, \A y \in Nat : y # 0 /\ y \div 2 \in S => y \in S
  PROVE  \A y \in Nat : y \in S
<1> SUFFICES ASSUME NEW x \in Nat, x \notin S PROVE FALSE
  OBVIOUS
<1> DEFINE T == {y \in Nat : y \notin S}
<1>1. PICK m \in T : \A y \in T : m <= y
  <2>1. T \in SUBSET Nat /\ T # {}
    OBVIOUS
  <2> QED BY <2>1, LeastNat, Zenon
<1>2. m \in Nat /\ m # 0 /\ m \notin S
  BY <1>1
<1>3. m \div 2 \in Nat /\ ~(m <= m \div 2)
  BY <1>2
<1>4. m \div 2 \notin T
  BY <1>1, <1>3
<1> QED BY <1>2, <1>3, <1>4

(* A function given by its first value and by a step from the half. *)
Halves(h, b, step) == h[0] = b /\ \A y \in Nat \ {0} : h[y] = step[y][h[y \div 2]]

HalvesUpto(h, n, A, b, step) ==
  h \in [0..n -> A] /\ h[0] = b /\ \A y \in 1..n : h[y] = step[y][h[y \div 2]]

LEMMA HalvesUptoExist ==
  ASSUME NEW A, NEW b \in A, NEW step \in [Nat -> [A -> A]], NEW n \in Nat
  PROVE  \E h : HalvesUpto(h, n, A, b, step)
<1> DEFINE S == {k \in Nat : \E h : HalvesUpto(h, k, A, b, step)}
<1>1. 0 \in S
  <2> DEFINE h == [i \in 0..0 |-> b]
  <2>1. HalvesUpto(h, 0, A, b, step)
    BY DEF HalvesUpto
  <2> HIDE DEF h
  <2> QED BY <2>1
<1>2. ASSUME NEW k \in Nat, k \in S PROVE k + 1 \in S
  <2>1. PICK g : HalvesUpto(g, k, A, b, step)
    BY <1>2
  <2> DEFINE c == (k + 1) \div 2
             h == [i \in 0..(k + 1) |-> IF i <= k THEN g[i] ELSE step[k + 1][g[c]]]
  <2>2. c \in 0..k /\ k + 1 \in Nat
    OBVIOUS
  <2>3. step[k + 1][g[c]] \in A
    <3> HIDE DEF c
    <3>1. g[c] \in A /\ step[k + 1] \in [A -> A]
      BY <2>1, <2>2 DEF HalvesUpto
    <3> QED BY <3>1
  <2>4. h \in [0..(k + 1) -> A]
    <3> HIDE DEF c
    <3>1. \A i \in 0..(k + 1) : i <= k => g[i] \in A
      BY <2>1 DEF HalvesUpto
    <3> QED BY <2>3, <3>1
  <2>5. h[0] = b
    BY <2>1 DEF HalvesUpto
  <2>6. ASSUME NEW i \in 1..(k + 1) PROVE h[i] = step[i][h[i \div 2]]
    <3>1. i \div 2 \in 0..k /\ i \div 2 \in 0..(k + 1)
      OBVIOUS
    <3> DEFINE v == i \div 2
    <3>2. h[v] = g[v]
      <4> HIDE DEF v, c
      <4>1. v \in 0..k /\ v \in 0..(k + 1)
        BY <3>1 DEF v
      <4> QED BY <4>1
    <3>3. CASE i <= k
      <4>1. h[i] = g[i] /\ i \in 1..k
        <5> HIDE DEF c
        <5> QED BY <3>3
      <4> HIDE DEF h, c
      <4>2. g[i] = step[i][g[i \div 2]]
        BY <2>1, <4>1 DEF HalvesUpto
      <4> QED BY <3>2, <4>1, <4>2
    <3>4. CASE ~(i <= k)
      <4>1. i = k + 1
        BY <3>4
      <4>2. h[i] = step[k + 1][g[c]]
        <5> HIDE DEF c
        <5> QED BY <3>4
      <4> HIDE DEF h
      <4> QED BY <3>2, <4>1, <4>2
    <3> QED BY <3>3, <3>4
  <2> HIDE DEF h
  <2>7. HalvesUpto(h, k + 1, A, b, step)
    BY <2>4, <2>5, <2>6 DEF HalvesUpto
  <2> QED BY <2>2, <2>7
<1> HIDE DEF S
<1>3. n \in S
  BY <1>1, <1>2, NaturalInduction
<1> QED BY <1>3 DEF S

LEMMA HalvesAgree ==
  ASSUME NEW A, NEW b, NEW step, NEW m \in Nat, NEW n \in Nat, m <= n, NEW g, NEW h,
         HalvesUpto(g, m, A, b, step), HalvesUpto(h, n, A, b, step)
  PROVE  \A i \in 0..m : h[i] = g[i]
<1> DEFINE S == {i \in Nat : i <= m => h[i] = g[i]}
<1>1. 0 \in S
  BY DEF HalvesUpto
<1>2. ASSUME NEW y \in Nat, y # 0, y \div 2 \in S PROVE y \in S
  <2>1. ASSUME y <= m PROVE h[y] = g[y]
    <3>1. y \in 1..m /\ y \in 1..n /\ y \div 2 \in Nat /\ y \div 2 <= m
      BY <1>2, <2>1
    <3>2. h[y \div 2] = g[y \div 2]
      BY <1>2, <3>1
    <3>3. h[y] = step[y][h[y \div 2]] /\ g[y] = step[y][g[y \div 2]]
      BY <3>1 DEF HalvesUpto
    <3> QED BY <3>2, <3>3
  <2> QED BY <2>1
<1> HIDE DEF S
<1>3. \A i \in Nat : i \in S
  BY <1>1, <1>2, HalvingInduction, Zenon
<1>4. \A i \in 0..m : i \in Nat /\ i <= m
  OBVIOUS
<1> QED BY <1>3, <1>4 DEF S

LEMMA HalvesExist ==
  ASSUME NEW A, NEW b \in A, NEW step \in [Nat -> [A -> A]]
  PROVE  \E h \in [Nat -> A] : Halves(h, b, step)
<1> DEFINE first(n) == CHOOSE h : HalvesUpto(h, n, A, b, step)
           f == [n \in Nat |-> first(n)[n]]
<1>1. ASSUME NEW n \in Nat PROVE HalvesUpto(first(n), n, A, b, step)
  BY HalvesUptoExist, Zenon
<1> HIDE DEF first
<1>2. f \in [Nat -> A]
  <2>1. ASSUME NEW n \in Nat PROVE first(n)[n] \in A
    BY <1>1 DEF HalvesUpto
  <2> QED BY <2>1
<1>3. f[0] = b
  BY <1>1 DEF HalvesUpto
<1>4. ASSUME NEW y \in Nat \ {0} PROVE f[y] = step[y][f[y \div 2]]
  <2> DEFINE v == y \div 2
  <2>1. v \in Nat /\ v <= y /\ v \in 0..v /\ y \in 1..y
    OBVIOUS
  <2>2. f[y] = first(y)[y] /\ f[v] = first(v)[v]
    <3> HIDE DEF v
    <3> QED BY <2>1
  <2>3. first(y)[y] = step[y][first(y)[v]]
    BY <1>1, <2>1 DEF HalvesUpto
  <2>4. first(y)[v] = first(v)[v]
    <3> HIDE DEF v
    <3> QED BY <1>1, <2>1, HalvesAgree
  <2> HIDE DEF f
  <2> QED BY <2>2, <2>3, <2>4
<1> HIDE DEF f
<1>5. Halves(f, b, step)
  BY <1>3, <1>4 DEF Halves
<1> QED BY <1>2, <1>5

LEMMA PairsIs ==
  /\ Pairs \in [Nat -> Nat] /\ Pairs[0] = 0
  /\ \A j \in Nat \ {0} : Pairs[j] = 4 * Pairs[j \div 2] + 2 + (j % 2)
<1> DEFINE step == [y \in Nat |-> [v \in Nat |-> 4 * v + 2 + (y % 2)]]
           Is(f) == f = [j \in Nat |-> IF j = 0 THEN 0 ELSE 4 * f[j \div 2] + 2 + (j % 2)]
           p == CHOOSE f : Is(f)
           A == Nat
           b == 0
<1>1. b \in A /\ step \in [Nat -> [A -> A]]
  <2>1. ASSUME NEW y \in Nat PROVE [v \in Nat |-> 4 * v + 2 + (y % 2)] \in [Nat -> Nat]
    <3>1. y % 2 \in Nat
      OBVIOUS
    <3> QED BY <3>1
  <2> QED BY <2>1
<1>2. PICK h \in [Nat -> A] : Halves(h, b, step)
  <2> HIDE DEF step, A, b
  <2> QED BY <1>1, HalvesExist, Zenon
<1>3. h \in [Nat -> Nat] /\ h[0] = 0
  BY <1>2 DEF Halves
<1>4. ASSUME NEW j \in Nat, j # 0 PROVE h[j] = 4 * h[j \div 2] + 2 + (j % 2)
  <2>1. j \div 2 \in Nat /\ j \in Nat \ {0}
    BY <1>4
  <2>2. h[j] = step[j][h[j \div 2]]
    <3> HIDE DEF step
    <3> QED BY <1>2, <2>1 DEF Halves
  <2>3. h[j \div 2] \in Nat
    BY <1>3, <2>1
  <2> QED BY <2>1, <2>2, <2>3
<1>5. Is(h)
  <2>1. ASSUME NEW j \in Nat PROVE h[j] = IF j = 0 THEN 0 ELSE 4 * h[j \div 2] + 2 + (j % 2)
    BY <1>3, <1>4
  <2> HIDE DEF step
  <2> QED BY <1>3, <2>1
<1>6. Is(p)
  BY <1>5, Zenon
<1>7. Pairs = p
  BY Zenon DEF Pairs
<1> HIDE DEF p
<1>8. \A j \in Nat : p[j] = IF j = 0 THEN 0 ELSE 4 * p[j \div 2] + 2 + (j % 2)
  BY <1>6
<1>9. p = [j \in Nat |-> p[j]]
  BY <1>6
<1>10. \A j \in Nat : p[j] \in Nat
  <2> DEFINE S == {j \in Nat : p[j] \in Nat}
  <2>1. 0 \in S
    BY <1>8
  <2>2. ASSUME NEW y \in Nat, y # 0, y \div 2 \in S PROVE y \in S
    <3>1. p[y] = 4 * p[y \div 2] + 2 + (y % 2) /\ p[y \div 2] \in Nat /\ y % 2 \in Nat
      BY <1>8, <2>2
    <3> QED BY <3>1
  <2> HIDE DEF S
  <2>3. \A j \in Nat : j \in S
    BY <2>1, <2>2, HalvingInduction, Zenon
  <2> QED BY <2>3 DEF S
<1> QED BY <1>7, <1>8, <1>9, <1>10

LEMMA PairsStep ==
  ASSUME NEW x \in Nat
  PROVE  /\ Pairs[x] \in Nat /\ Pairs[x] \div 4 = Pairs[x \div 2]
         /\ Pairs[x] % 2 = x % 2
         /\ x = 0 => Pairs[x] = 0
         /\ x # 0 => Pairs[x] # 0 /\ (Pairs[x] \div 2) % 2 = 1
<1>1. Pairs[0] = 0 /\ Pairs[x] \in Nat /\ Pairs[x \div 2] \in Nat
  BY PairsIs
<1>2. CASE x = 0
  <2>1. x \div 2 = 0 /\ x % 2 = 0
    BY <1>2
  <2> QED BY <1>1, <1>2, <2>1
<1>3. CASE x # 0
  <2> DEFINE p == Pairs[x]
             h == Pairs[x \div 2]
             c == x % 2
  <2>1. p = 4 * h + 2 + c /\ c \in {0, 1}
    BY <1>3, PairsIs
  <2>2. p \in Nat /\ h \in Nat
    BY <1>1
  <2> HIDE DEF p, h, c
  <2>3. p \div 4 = h /\ p % 2 = c /\ p # 0 /\ p \div 2 = 2 * h + 1
    BY <2>1, <2>2
  <2>4. (2 * h + 1) % 2 = 1
    BY <2>2
  <2> QED BY <1>3, <2>2, <2>3, <2>4 DEF p, h, c
<1> QED BY <1>2, <1>3

LEMMA PairsShifted ==
  ASSUME NEW x \in Nat, NEW b \in Nat
  PROVE  Pairs[x] \div Pow2[2 * b] = Pairs[x \div Pow2[b]]
<1> DEFINE S == {k \in Nat : Pairs[x] \div Pow2[2 * k] = Pairs[x \div Pow2[k]]}
<1>1. 0 \in S
  <2>1. Pow2[0] = 1 /\ Pairs[x] \in Nat
    BY Pow2Def, PairsIs
  <2>3. 2 * 0 = 0
    OBVIOUS
  <2>2. Pairs[x] \div 1 = Pairs[x] /\ x \div 1 = x
    BY <2>1
  <2> QED BY <2>1, <2>2, <2>3
<1>2. ASSUME NEW k \in Nat, k \in S PROVE k + 1 \in S
  <2> DEFINE y == x \div Pow2[k]
             p == Pairs[x]
  <2>1. y \in Nat /\ p \in Nat
    BY Shifted, PairsIs
  <2>2. p \div Pow2[2 * k] = Pairs[y]
    BY <1>2
  <2>3. Pow2[2] = 4 /\ Pow2[1] = 2
    <3>1. Pow2[0 + 1] = 2 /\ Pow2[1 + 1] = 4
      BY Pow2Def
    <3> QED BY <3>1
  <2>4. (p \div Pow2[2 * k]) \div Pow2[2] = p \div Pow2[2 * k + 2]
    <3>1. 2 * k \in Nat /\ 2 \in Nat
      OBVIOUS
    <3> HIDE DEF p
    <3> QED BY <2>1, <3>1, ShiftedTwice
  <2>5. (x \div Pow2[k]) \div Pow2[1] = x \div Pow2[k + 1]
    BY ShiftedTwice
  <2> HIDE DEF p
  <2>6. p \div Pow2[2 * (k + 1)] = Pairs[y] \div 4
    <3>1. 2 * (k + 1) = 2 * k + 2
      OBVIOUS
    <3> QED BY <2>2, <2>3, <2>4, <3>1, Zenon
  <2>7. x \div Pow2[k + 1] = y \div 2
    BY <2>3, <2>5
  <2> HIDE DEF y
  <2>8. Pairs[y] \div 4 = Pairs[y \div 2]
    BY <2>1, PairsStep
  <2>9. p \div Pow2[2 * (k + 1)] = Pairs[x \div Pow2[k + 1]]
    BY <2>6, <2>7, <2>8, Zenon
  <2> QED BY <2>9 DEF p
<1> HIDE DEF S
<1>3. b \in S
  BY <1>1, <1>2, NaturalInduction
<1> QED BY <1>3 DEF S

LEMMA PairsPlaces ==
  ASSUME NEW x \in Nat, NEW b \in Nat
  PROVE  /\ Bit(Pairs[x], 2 * b) = Bit(x, b)
         /\ Bit(Pairs[x], 2 * b + 1) = IF b < BitLength(x) THEN 1 ELSE 0
<1> DEFINE y == x \div Pow2[b]
           p == Pairs[x]
<1>1. y \in Nat /\ p \in Nat /\ p \div Pow2[2 * b] = Pairs[y]
  BY Shifted, PairsIs, PairsShifted
<1>2. Bit(p, 2 * b) = Pairs[y] % 2 /\ Bit(x, b) = y % 2
  BY <1>1 DEF Bit
<1>3. p \div Pow2[2 * b + 1] = Pairs[y] \div 2
  <2>1. Pow2[1] = 2
    <3>1. Pow2[0 + 1] = 2
      BY Pow2Def
    <3> QED BY <3>1
  <2>2. 2 * b \in Nat /\ 1 \in Nat
    OBVIOUS
  <2> HIDE DEF p
  <2>3. (p \div Pow2[2 * b]) \div Pow2[1] = p \div Pow2[2 * b + 1]
    BY <1>1, <2>2, ShiftedTwice
  <2> QED BY <1>1, <2>1, <2>3, Zenon
<1>4. y = 0 <=> ~(b < BitLength(x))
  <2> DEFINE w == Pow2[b]
  <2>1. w \in Nat /\ w > 0
    BY Pow2Positive
  <2>2. x < w <=> BitLength(x) <= b
    BY LengthFits
  <2>3. y \in Nat /\ y * w <= x /\ x < (y + 1) * w
    <3>1. y = x \div w
      OBVIOUS
    <3> HIDE DEF w, y
    <3> QED BY <2>1, <3>1, Division
  <2>4. BitLength(x) \in Nat
    BY LengthFits
  <2>5. x < w => y = 0
    <3> HIDE DEF w, y
    <3>1. y # 0 => w <= y * w
      BY <2>1, <2>3
    <3> QED BY <2>1, <2>3, <3>1
  <2>6. y = 0 => x < w
    BY <2>1, <2>3
  <2> QED BY <2>2, <2>4, <2>5, <2>6
<1>5. /\ Pairs[y] \in Nat /\ Pairs[y] % 2 = y % 2
      /\ y = 0 => Pairs[y] = 0 
      /\ y # 0 => (Pairs[y] \div 2) % 2 = 1
  <2> HIDE DEF y
  <2> QED BY <1>1, PairsStep
<1> HIDE DEF y, p
<1>6. Bit(p, 2 * b + 1) = (Pairs[y] \div 2) % 2
  BY <1>3 DEF Bit
<1> QED BY <1>2, <1>4, <1>5, <1>6 DEF p

LEMMA LengthStep ==
  ASSUME NEW x \in Nat
  PROVE  /\ BitLength(0) = 0
         /\ x # 0 => BitLength(x) = 1 + BitLength(x \div 2)
<1>1. BitLength(0) = 0
  <2>1. Width(0, BitLength(0)) /\ Width(0, 0)
    BY BitLengthWidth, Pow2Def DEF Width
  <2> QED BY <2>1, WidthUnique
<1>2. ASSUME x # 0 PROVE BitLength(x) = 1 + BitLength(x \div 2)
  <2> DEFINE h == x \div 2
  <2>1. h \in Nat
    OBVIOUS
  <2>2. Width(h, BitLength(h)) /\ Width(x, BitLength(x))
    BY <2>1, BitLengthWidth
  <2>3. Width(x, 1 + BitLength(h))
    BY <1>2, <2>2, WidthHalf
  <2> QED BY <2>2, <2>3, WidthUnique
<1> QED BY <1>1, <1>2

LEMMA PairsWidth ==
  ASSUME NEW x \in Nat
  PROVE  Width(Pairs[x], 2 * BitLength(x))
<1> DEFINE S == {y \in Nat : Width(Pairs[y], 2 * BitLength(y))}
<1>1. 0 \in S
  <2>1. BitLength(0) = 0 /\ Pairs[0] = 0 /\ 2 * 0 = 0
    BY LengthStep, PairsIs
  <2>2. Width(0, 0)
    BY Pow2Def DEF Width
  <2> QED BY <2>1, <2>2
<1>2. ASSUME NEW y \in Nat, y # 0, y \div 2 \in S PROVE y \in S
  <2> DEFINE p == Pairs[y]
             h == y \div 2
             k == 2 * BitLength(h)
  <2>1. p \in Nat /\ p # 0 /\ p \div 4 = Pairs[h] /\ (p \div 2) % 2 = 1
    BY <1>2, PairsStep
  <2>2. h \in Nat /\ BitLength(h) \in Nat /\ BitLength(y) = 1 + BitLength(h)
    BY <1>2, LengthStep, LengthFits
  <2>3. Width(Pairs[h], k)
    BY <1>2
  <2> HIDE DEF p, h, k
  <2>4. p \div 2 \in Nat /\ p \div 2 # 0 /\ (p \div 2) \div 2 = p \div 4
    BY <2>1
  <2>5. Width(p \div 2, 1 + k)
    BY <2>1, <2>3, <2>4, WidthHalf
  <2>6. Width(p, 1 + (1 + k))
    BY <2>1, <2>5, WidthHalf
  <2>7. 1 + (1 + k) = 2 * BitLength(y)
    BY <2>2 DEF k
  <2> QED BY <2>6, <2>7 DEF p
<1> HIDE DEF S
<1>3. x \in S
  BY <1>1, <1>2, HalvingInduction
<1> QED BY <1>3 DEF S

LEMMA PairsGrow ==
  ASSUME NEW x \in Nat, NEW y \in Nat, x < y
  PROVE  Pairs[x] < Pairs[y]
<1> DEFINE S == {v \in Nat : \A u \in Nat : u < v => Pairs[u] < Pairs[v]}
<1>1. 0 \in S
  OBVIOUS
<1>2. ASSUME NEW v \in Nat, v # 0, v \div 2 \in S PROVE v \in S
  <2> SUFFICES ASSUME NEW u \in Nat, u < v PROVE Pairs[u] < Pairs[v]
    OBVIOUS
  <2>1. Pairs[v] = 4 * Pairs[v \div 2] + 2 + (v % 2) /\ Pairs[v \div 2] \in Nat /\ v \div 2 \in Nat
    BY <1>2, PairsIs
  <2>2. CASE u = 0
    BY <2>1, <2>2, PairsIs
  <2>3. CASE u # 0
    <3>1. Pairs[u] = 4 * Pairs[u \div 2] + 2 + (u % 2) /\ Pairs[u \div 2] \in Nat /\ u \div 2 \in Nat
      BY <2>3, PairsIs
    <3>2. CASE u \div 2 < v \div 2
      <4>1. Pairs[u \div 2] < Pairs[v \div 2]
        BY <1>2, <3>1, <3>2
      <4> QED BY <2>1, <3>1, <4>1
    <3>3. CASE ~(u \div 2 < v \div 2)
      <4>1. u \div 2 = v \div 2 /\ u % 2 < v % 2
        BY <3>3
      <4> QED BY <2>1, <3>1, <4>1
    <3> QED BY <3>2, <3>3
  <2> QED BY <2>2, <2>3
<1> HIDE DEF S
<1>3. y \in S
  BY <1>1, <1>2, HalvingInduction
<1> QED BY <1>3 DEF S

LEMMA WidthStacked ==
  ASSUME NEW u \in Nat, u # 0, NEW k, Width(u, k), NEW m \in Nat, NEW v \in Nat, v < Pow2[m]
  PROVE  Width(u * Pow2[m] + v, k + m)
<1> DEFINE p == Pow2[m]
           q == Pow2[k]
           h == Pow2[k - 1]
<1>1. k \in Nat /\ u < q /\ (k # 0 => h <= u) /\ p \in Nat /\ p > 0 /\ q \in Nat /\ Pow2[k + m] = q * p
  BY Pow2Positive, Pow2Sum DEF Width
<1>2. k # 0
  BY <1>1, Pow2Def
<1>3. k - 1 \in Nat /\ (k - 1) + m = k + m - 1
  BY <1>1, <1>2
<1>4. h \in Nat /\ Pow2[k + m - 1] = h * p
  <2> DEFINE c == k - 1
  <2>1. c \in Nat /\ c + m = k + m - 1
    BY <1>3
  <2> HIDE DEF c
  <2>2. Pow2[c] \in Nat /\ Pow2[c + m] = Pow2[c] * Pow2[m]
    BY <2>1, Pow2Positive, Pow2Sum
  <2> QED BY <2>1, <2>2 DEF c
<1> HIDE DEF p, q, h
<1>5. u * p + v < q * p
  <2>1. (u + 1) * p <= q * p
    BY <1>1
  <2>2. (u + 1) * p = u * p + p /\ u * p \in Nat
    BY <1>1
  <2> QED BY <1>1, <2>1, <2>2 DEF p
<1>6. h * p <= u * p + v
  <2>1. h * p <= u * p
    BY <1>1, <1>2, <1>4
  <2>2. u * p \in Nat /\ h * p \in Nat
    BY <1>1, <1>4
  <2> QED BY <2>1, <2>2
<1>7. k + m \in Nat
  BY <1>1
<1> QED BY <1>1, <1>4, <1>5, <1>6, <1>7 DEF Width, p

(* phi is a marked, delimited word of so many bits. *)
PhiLength(i, j) == 2 * BitLength(j) + 1 + BitLength(i)

LEMMA PhiWidth ==
  ASSUME NEW i \in Nat, NEW j \in Nat
  PROVE  /\ ElasticPhi(i, j) \in Nat /\ PhiLength(i, j) \in Nat
         /\ j # 0 => Width(ElasticPhi(i, j), PhiLength(i, j))
<1> DEFINE m == BitLength(i)
           n == BitLength(j)
           p == Pairs[j]
<1>1. m \in Nat /\ n \in Nat /\ p \in Nat /\ i < Pow2[m] /\ Pow2[m] \in Nat
  BY LengthFits, PairsIs, Pow2Positive
<1>2. ElasticPhi(i, j) = 2 * p * Pow2[m] + i /\ PhiLength(i, j) = 2 * n + 1 + m
  BY DEF ElasticPhi, PhiLength
<1>3. ElasticPhi(i, j) \in Nat /\ PhiLength(i, j) \in Nat
  <2> HIDE DEF m, n, p
  <2> QED BY <1>1, <1>2
<1>4. ASSUME j # 0 PROVE Width(2 * p * Pow2[m] + i, 2 * n + 1 + m)
  <2>1. p # 0 /\ Width(p, 2 * n)
    BY <1>4, PairsStep, PairsWidth
  <2>2. Pow2[1] = 2 /\ 1 \in Nat /\ 0 \in Nat
    <3>1. Pow2[0 + 1] = 2
      BY Pow2Def
    <3> QED BY <3>1
  <2> HIDE DEF m, n, p
  <2>3. Width(p * Pow2[1] + 0, 2 * n + 1)
    <3>1. 0 < Pow2[1]
      BY <2>2
    <3> QED BY <1>1, <2>1, <2>2, <3>1, WidthStacked
  <2>4. p * Pow2[1] + 0 = 2 * p /\ 2 * p \in Nat /\ 2 * p # 0
    BY <1>1, <2>1, <2>2
  <2> DEFINE e == 2 * p
             k == 2 * n + 1
  <2>5. e \in Nat /\ e # 0 /\ Width(e, k)
    BY <2>3, <2>4
  <2> HIDE DEF e, k
  <2>6. Width(e * Pow2[m] + i, k + m)
    BY <1>1, <2>5, WidthStacked
  <2> QED BY <2>6 DEF e, k
<1> QED BY <1>2, <1>3, <1>4, Zenon

LEMMA PhiBounded ==
  ASSUME NEW i \in Nat, NEW j \in Nat, i # 0, j # 0
  PROVE  ElasticPhi(i, j) < 16 * i * j * j
<1> DEFINE m == BitLength(i)
           n == BitLength(j)
           a == Pow2[m]
           b == Pow2[n]
           e == ElasticPhi(i, j)
<1>1. e \in Nat /\ e < Pow2[2 * n + 1 + m] /\ m \in Nat /\ n \in Nat
  BY PhiWidth, LengthFits DEF Width, PhiLength
<1>2. Width(i, m) /\ Width(j, n) /\ a \in Nat /\ b \in Nat
  BY <1>1, BitLengthWidth, Pow2Positive
<1>3. ASSUME NEW x \in Nat, x # 0, NEW k \in Nat, Width(x, k) PROVE Pow2[k] <= 2 * x
  <2>1. k # 0
    BY <1>3, Pow2Def DEF Width
  <2>2. k - 1 \in Nat /\ (k - 1) + 1 = k
    BY <1>3, <2>1
  <2>3. Pow2[k] = 2 * Pow2[k - 1] /\ Pow2[k - 1] <= x
    BY <1>3, <2>1, <2>2, Pow2Def DEF Width
  <2> QED BY <2>2, <2>3, Pow2Positive
<1>4. a <= 2 * i /\ b <= 2 * j
  BY <1>1, <1>2, <1>3
<1>5. Pow2[2 * n + 1 + m] = (2 * (b * b)) * a
  <2> HIDE DEF m, n
  <2>1. Pow2[n + n] = b * b
    BY <1>1, Pow2Sum
  <2>2. Pow2[(n + n) + 1] = 2 * Pow2[n + n] /\ n + n \in Nat
    BY <1>1, Pow2Def
  <2>3. Pow2[((n + n) + 1) + m] = Pow2[(n + n) + 1] * a
    <3>1. (n + n) + 1 \in Nat
      BY <1>1
    <3> QED BY <1>1, <3>1, Pow2Sum
  <2>4. ((n + n) + 1) + m = 2 * n + 1 + m
    BY <1>1
  <2> QED BY <2>1, <2>2, <2>3, <2>4
<1> HIDE DEF m, n, a, b, e
<1>6. b * b <= (2 * j) * (2 * j)
  <2>1. b * b <= b * (2 * j)
    BY <1>2, <1>4
  <2>2. b * (2 * j) <= (2 * j) * (2 * j)
    BY <1>2, <1>4
  <2>3. b * b \in Nat /\ b * (2 * j) \in Nat /\ (2 * j) * (2 * j) \in Nat
    BY <1>2
  <2> QED BY <2>1, <2>2, <2>3
<1> DEFINE c == b * b
           f == (2 * j) * (2 * j)
<1>7. c \in Nat /\ f \in Nat /\ c <= f
  BY <1>2, <1>6
<1>8. f = 4 * (j * j)
  OBVIOUS
<1> HIDE DEF c, f
<1>9. (2 * c) * a <= (2 * f) * (2 * i)
  <2>1. (2 * c) * a <= (2 * f) * a
    BY <1>2, <1>7
  <2>2. (2 * f) * a <= (2 * f) * (2 * i)
    BY <1>2, <1>4, <1>7
  <2>3. (2 * c) * a \in Nat /\ (2 * f) * a \in Nat /\ (2 * f) * (2 * i) \in Nat
    BY <1>2, <1>7
  <2> QED BY <2>1, <2>2, <2>3
<1>10. (2 * f) * (2 * i) = 16 * i * j * j
  <2> DEFINE s == j * j
  <2>1. s \in Nat /\ f = 4 * s
    BY <1>8
  <2>2. 16 * i * j * j = 16 * (i * s)
    OBVIOUS
  <2> HIDE DEF s
  <2>3. (2 * (4 * s)) * (2 * i) = 16 * (i * s)
    BY <2>1
  <2> QED BY <2>1, <2>2, <2>3
<1>11. e < (2 * c) * a
  BY <1>1, <1>5 DEF c, e
<1>12. (2 * c) * a \in Nat /\ (2 * f) * (2 * i) \in Nat
  BY <1>2, <1>7
<1>13. e < 16 * i * j * j
  BY <1>1, <1>9, <1>10, <1>11, <1>12
<1> QED BY <1>13 DEF e

LEMMA PhiGrows ==
  ASSUME NEW i \in Nat, NEW j \in Nat, NEW l \in Nat, j < l
  PROVE  ElasticPhi(i, j) < ElasticPhi(i, l)
<1> DEFINE w == Pow2[BitLength(i)]
           p == Pairs[j]
           q == Pairs[l]
<1>1. w \in Nat /\ w > 0 /\ p \in Nat /\ q \in Nat /\ p < q
  BY LengthFits, Pow2Positive, PairsIs, PairsGrow
<1>2. ElasticPhi(i, j) = 2 * p * w + i /\ ElasticPhi(i, l) = 2 * q * w + i
  BY DEF ElasticPhi
<1> HIDE DEF w, p, q
<1>3. p * w + w <= q * w
  <2>1. (p + 1) * w <= q * w
    BY <1>1
  <2>2. (p + 1) * w = p * w + w
    BY <1>1
  <2> QED BY <2>1, <2>2
<1>4. 2 * p * w = 2 * (p * w) /\ 2 * q * w = 2 * (q * w) /\ p * w \in Nat /\ q * w \in Nat
  BY <1>1
<1> QED BY <1>1, <1>2, <1>3, <1>4

------------------------------------------------------------------------------
(* The exact encoder answers phi as far as it fits. *)

Fit(v) == {x \in {v} : x < Pow2[PhiBits]}

LEMMA BitAppended ==
  ASSUME NEW v \in Nat, NEW b \in {0, 1}
  PROVE  AppendBit(Fit(v), b) = Fit(2 * v + b)
<1> DEFINE w == Pow2[PhiBits]
<1>1. w \in Nat
  BY EncodingAssumption, Pow2Positive
<1>2. ~(v < w) => ~(2 * v + b < w)
  <2> HIDE DEF w
  <2> QED BY <1>1
<1>3. CASE v < w
  <2>1. Fit(v) = {v}
    BY <1>3 DEF Fit
  <2> QED BY <2>1 DEF AppendBit, Fit
<1>4. CASE ~(v < w)
  <2>1. Fit(v) = {} /\ Fit(2 * v + b) = {}
    BY <1>2, <1>4 DEF Fit
  <2> QED BY <2>1 DEF AppendBit
<1> QED BY <1>3, <1>4

LEMMA CheckedPairsFit ==
  \A j \in Nat : CheckedPairs[j] = Fit(Pairs[j])
<1> DEFINE Is(f) == f = [j \in Nat |-> IF j = 0 THEN {0}
                                       ELSE AppendBit(AppendBit(f[j \div 2], 1), j % 2)]
           g == [j \in Nat |-> Fit(Pairs[j])]
           p == CHOOSE f : Is(f)
<1>1. Fit(0) = {0}
  <2>1. 0 < Pow2[PhiBits]
    BY EncodingAssumption, Pow2Positive
  <2> QED BY <2>1 DEF Fit
<1>2. ASSUME NEW j \in Nat, j # 0
      PROVE  /\ j \div 2 \in Nat
             /\ AppendBit(AppendBit(Fit(Pairs[j \div 2]), 1), j % 2) = Fit(Pairs[j])
  <2> DEFINE h == Pairs[j \div 2]
             c == j % 2
  <2>1. j \div 2 \in Nat /\ h \in Nat /\ c \in {0, 1} /\ Pairs[j] = 4 * h + 2 + c
    <3>1. j \div 2 \in Nat /\ j % 2 \in {0, 1}
      OBVIOUS
    <3> QED BY <1>2, <3>1, PairsIs
  <2> HIDE DEF h, c
  <2>2. AppendBit(Fit(h), 1) = Fit(2 * h + 1)
    BY <2>1, BitAppended
  <2>3. AppendBit(Fit(2 * h + 1), c) = Fit(2 * (2 * h + 1) + c)
    <3>1. 2 * h + 1 \in Nat
      BY <2>1
    <3> HIDE DEF Fit
    <3> QED BY <2>1, <3>1, BitAppended
  <2>4. 2 * (2 * h + 1) + c = 4 * h + 2 + c
    BY <2>1
  <2> QED BY <2>1, <2>2, <2>3, <2>4 DEF h, c
<1>3. Is(g)
  <2>1. ASSUME NEW j \in Nat
        PROVE  g[j] = IF j = 0 THEN {0} ELSE AppendBit(AppendBit(g[j \div 2], 1), j % 2)
    <3>1. CASE j = 0
      BY <1>1, <3>1, PairsIs
    <3>2. CASE j # 0
      <4>1. g[j] = Fit(Pairs[j]) /\ g[j \div 2] = Fit(Pairs[j \div 2])
        BY <1>2, <3>2
      <4> HIDE DEF g
      <4> QED BY <1>2, <3>2, <4>1
    <3> QED BY <3>1, <3>2
  <2> QED BY <2>1, Zenon
<1>4. Is(p)
  BY <1>3, Zenon
<1>5. CheckedPairs = p
  BY Zenon DEF CheckedPairs
<1> HIDE DEF p
<1>6. ASSUME NEW j \in Nat
      PROVE  p[j] = IF j = 0 THEN {0} ELSE AppendBit(AppendBit(p[j \div 2], 1), j % 2)
  BY <1>4, Zenon
<1> DEFINE S == {j \in Nat : p[j] = Fit(Pairs[j])}
<1>7. 0 \in S
  BY <1>1, <1>6, PairsIs
<1>8. ASSUME NEW j \in Nat, j # 0, j \div 2 \in S PROVE j \in S
  BY <1>2, <1>6, <1>8, Zenon
<1> HIDE DEF S
<1>9. \A j \in Nat : j \in S
  BY <1>7, <1>8, HalvingInduction, Zenon
<1> QED BY <1>5, <1>9 DEF S

LEMMA CheckedFits ==
  ASSUME NEW i \in Nat, NEW j \in Nat, i # 0, j # 0
  PROVE  ElasticPhiChecked(i, j) = Fit(ElasticPhi(i, j))
<1> DEFINE first == AppendBit(CheckedPairs[j], 0)
           Is(f) == f = [y \in 0..i |-> IF y = 0 THEN first ELSE AppendBit(f[y \div 2], y % 2)]
           code == CHOOSE f : Is(f)
           phi(y) == ElasticPhi(y, j)
           g == [y \in 0..i |-> Fit(phi(y))]
<1>1. first = Fit(phi(0))
  <2>1. first = Fit(2 * Pairs[j] + 0) /\ Pairs[j] \in Nat
    BY CheckedPairsFit, PairsIs, BitAppended
  <2>2. phi(0) = 2 * Pairs[j] + 0
    <3>1. BitLength(0) = 0 /\ Pow2[0] = 1
      BY LengthStep, Pow2Def
    <3>2. phi(0) = 2 * Pairs[j] * 1 + 0
      BY <3>1 DEF ElasticPhi
    <3> QED BY <2>1, <3>2
  <2> QED BY <2>1, <2>2
<1>2. ASSUME NEW y \in Nat, y # 0
      PROVE  y \div 2 \in Nat /\ AppendBit(Fit(phi(y \div 2)), y % 2) = Fit(phi(y))
  <2> DEFINE h == y \div 2
             c == y % 2
             w == Pow2[BitLength(h)]
             a == Pairs[j]
  <2>1. h \in Nat /\ c \in {0, 1} /\ y = 2 * h + c
    BY <1>2
  <2>2. BitLength(y) = 1 + BitLength(h) /\ BitLength(h) \in Nat
    BY <1>2, <2>1, LengthStep, LengthFits
  <2>3. w \in Nat /\ Pow2[BitLength(y)] = 2 * w /\ a \in Nat
    <3> DEFINE k == BitLength(h)
    <3>1. w \in Nat /\ Pow2[k + 1] = 2 * w
      BY <2>2, Pow2Def
    <3>2. 1 + k = k + 1
      BY <2>2
    <3> HIDE DEF k
    <3>3. BitLength(y) = k + 1
      BY <2>2, <3>2 DEF k
    <3> QED BY <3>1, <3>3, PairsIs
  <2>4. phi(h) = 2 * a * w + h /\ phi(y) = 2 * a * (2 * w) + y
    BY <2>3 DEF ElasticPhi
  <2>5. phi(h) \in Nat
    BY <2>1, PhiWidth
  <2>6. phi(y) = 2 * phi(h) + c
    <3> HIDE DEF h, c, w, a
    <3>1. 2 * a * (2 * w) = 2 * (2 * a * w)
      BY <2>3
    <3>2. 2 * a * w \in Nat
      BY <2>3
    <3> DEFINE t == 2 * a * w
    <3> HIDE DEF t, phi
    <3> QED BY <2>1, <2>4, <3>1, <3>2 DEF t
  <2>7. AppendBit(Fit(phi(h)), c) = Fit(2 * phi(h) + c)
    <3> HIDE DEF phi, h, c
    <3> QED BY <2>1, <2>5, BitAppended
  <2> QED BY <2>1, <2>6, <2>7
<1>3. ASSUME NEW y \in 0..i PROVE y \in Nat /\ (y # 0 => y \div 2 \in 0..i)
  OBVIOUS
<1> HIDE DEF first, phi
<1>4. Is(g)
  <2>1. ASSUME NEW y \in 0..i
        PROVE  g[y] = IF y = 0 THEN first ELSE AppendBit(g[y \div 2], y % 2)
    <3>1. CASE y = 0
      BY <1>1, <3>1
    <3>2. CASE y # 0
      <4>1. g[y] = Fit(phi(y)) /\ g[y \div 2] = Fit(phi(y \div 2))
        BY <1>3, <3>2
      <4> HIDE DEF g
      <4> QED BY <1>2, <1>3, <3>2, <4>1
    <3> QED BY <3>1, <3>2
  <2> QED BY <2>1, Zenon
<1>5. Is(code)
  BY <1>4, Zenon
<1>6. ElasticPhiChecked(i, j) = code[i]
  BY Zenon DEF ElasticPhiChecked, first
<1> HIDE DEF code
<1>7. ASSUME NEW y \in 0..i
      PROVE  code[y] = IF y = 0 THEN first ELSE AppendBit(code[y \div 2], y % 2)
  BY <1>5, Zenon
<1> DEFINE S == {y \in Nat : y <= i => code[y] = Fit(phi(y))}
<1>8. 0 \in S
  <2>1. 0 \in 0..i
    OBVIOUS
  <2> QED BY <1>1, <1>7, <2>1
<1>9. ASSUME NEW y \in Nat, y # 0, y \div 2 \in S PROVE y \in S
  <2>1. ASSUME y <= i PROVE code[y] = Fit(phi(y))
    <3>1. y \in 0..i /\ y \div 2 <= i
      BY <1>9, <2>1
    <3>2. code[y] = AppendBit(code[y \div 2], y % 2)
      BY <1>7, <1>9, <3>1
    <3> QED BY <1>2, <1>9, <3>1, <3>2
  <2> QED BY <2>1
<1> HIDE DEF S
<1>10. \A y \in Nat : y \in S
  BY <1>8, <1>9, HalvingInduction, Zenon
<1>11. code[i] = Fit(phi(i))
  BY <1>10 DEF S
<1> QED BY <1>6, <1>11 DEF phi

------------------------------------------------------------------------------
(* The narrow encoder: the spread bits.                                    *)

(* Each step moves the upper half of every group of places apart. *)
Apart(S, k) == {b \in 0..31 : b % (2 * k) < k /\ (b % k) + k * (b \div (2 * k)) \in S}

Half(k) == {b \in 0..31 : b % (2 * k) < k}

LEMMA SpreadSteps ==
  ASSUME NEW S \in SUBSET (0..15)
  PROVE  /\ (S \cup ShiftLeft(S, 8)) \cap Half(8) = Apart(S, 8)
         /\ (Apart(S, 8) \cup ShiftLeft(Apart(S, 8), 4)) \cap Half(4) = Apart(S, 4)
         /\ (Apart(S, 4) \cup ShiftLeft(Apart(S, 4), 2)) \cap Half(2) = Apart(S, 2)
         /\ (Apart(S, 2) \cup ShiftLeft(Apart(S, 2), 1)) \cap Half(1) = Apart(S, 1)
<1>1. ASSUME NEW T \in SUBSET (0..31), NEW k \in {1, 2, 4, 8}
      PROVE  \A b : b \in ShiftLeft(T, k) <=> b \in Int /\ b - k \in T
  <2> TAKE b
  <2>1. ASSUME b \in ShiftLeft(T, k) PROVE b \in Int /\ b - k \in T
    <3>1. PICK a \in T : b = a + k
      BY <2>1 DEF ShiftLeft
    <3>2. a \in Int /\ b - k = a
      BY <3>1
    <3> QED BY <3>1, <3>2
  <2>2. ASSUME b \in Int, b - k \in T PROVE b \in ShiftLeft(T, k)
    <3>1. b = (b - k) + k
      BY <2>2
    <3> QED BY <2>2, <3>1 DEF ShiftLeft
  <2> QED BY <2>1, <2>2
<1>2. (S \cup ShiftLeft(S, 8)) \cap Half(8) = Apart(S, 8)
  <2>1. \A b : b \in ShiftLeft(S, 8) <=> b \in Int /\ b - 8 \in S
    BY <1>1
  <2>2. ASSUME NEW b \in 0..31
        PROVE  b \in (S \cup ShiftLeft(S, 8)) \cap Half(8) <=> b \in Apart(S, 8)
    <3>1. CASE b \in 0..7
      <4>1. b % 16 = b /\ b % 8 = b /\ b \div 16 = 0 /\ b - 8 \notin S
        BY <3>1
      <4> QED BY <2>1, <3>1, <4>1 DEF Half, Apart
    <3>2. CASE b \in 8..15
      <4>1. ~(b % 16 < 8)
        BY <3>2
      <4> QED BY <4>1 DEF Half, Apart
    <3>3. CASE b \in 16..23
      <4>1. b % 16 = b - 16 /\ b % 8 = b - 16 /\ b \div 16 = 1 /\ b \notin S
        BY <3>3
      <4> QED BY <2>1, <3>3, <4>1 DEF Half, Apart
    <3>4. CASE b \in 24..31
      <4>1. ~(b % 16 < 8)
        BY <3>4
      <4> QED BY <4>1 DEF Half, Apart
    <3> QED BY <3>1, <3>2, <3>3, <3>4
  <2> QED BY <2>2 DEF Half, Apart
<1>3. (Apart(S, 8) \cup ShiftLeft(Apart(S, 8), 4)) \cap Half(4) = Apart(S, 4)
  <2> DEFINE T == Apart(S, 8)
  <2>1. T \in SUBSET (0..31)
    BY DEF Apart
  <2>2. \A b : b \in ShiftLeft(T, 4) <=> b \in Int /\ b - 4 \in T
    <3> HIDE DEF T
    <3> QED BY <1>1, <2>1
  <2>3. ASSUME NEW b \in 0..31
        PROVE  b \in (T \cup ShiftLeft(T, 4)) \cap Half(4) <=> b \in Apart(S, 4)
    <3>1. CASE ~(b % 8 < 4)
      BY <3>1 DEF Half, Apart
    <3>2. CASE b % 8 < 4 /\ b % 16 < 8
      <4>1. ~((b - 4) % 16 < 8) /\ (b % 8) + 8 * (b \div 16) = (b % 4) + 4 * (b \div 8)
        BY <3>2
      <4> QED BY <2>2, <3>2, <4>1 DEF Half, Apart
    <3>3. CASE b % 8 < 4 /\ ~(b % 16 < 8)
      <4>1. /\ (b - 4) % 16 < 8 /\ b - 4 \in 0..31
            /\ ((b - 4) % 8) + 8 * ((b - 4) \div 16) = (b % 4) + 4 * (b \div 8)
        BY <3>3
      <4>2. b \notin T
        BY <3>3 DEF Apart
      <4>3. b - 4 \in T <=> (b % 4) + 4 * (b \div 8) \in S
        BY <4>1 DEF Apart
      <4>4. b \in Half(4) /\ (b \in Apart(S, 4) <=> (b % 4) + 4 * (b \div 8) \in S)
        BY <3>3 DEF Half, Apart
      <4> HIDE DEF T
      <4> QED BY <2>2, <4>2, <4>3, <4>4
    <3> QED BY <3>1, <3>2, <3>3
  <2> QED BY <2>3 DEF Half, Apart
<1>4. (Apart(S, 4) \cup ShiftLeft(Apart(S, 4), 2)) \cap Half(2) = Apart(S, 2)
  <2> DEFINE T == Apart(S, 4)
  <2>1. T \in SUBSET (0..31)
    BY DEF Apart
  <2>2. \A b : b \in ShiftLeft(T, 2) <=> b \in Int /\ b - 2 \in T
    <3> HIDE DEF T
    <3> QED BY <1>1, <2>1
  <2>3. ASSUME NEW b \in 0..31
        PROVE  b \in (T \cup ShiftLeft(T, 2)) \cap Half(2) <=> b \in Apart(S, 2)
    <3>1. CASE ~(b % 4 < 2)
      BY <3>1 DEF Half, Apart
    <3>2. CASE b % 4 < 2 /\ b % 8 < 4
      <4>1. ~((b - 2) % 8 < 4) /\ (b % 4) + 4 * (b \div 8) = (b % 2) + 2 * (b \div 4)
        BY <3>2
      <4> QED BY <2>2, <3>2, <4>1 DEF Half, Apart
    <3>3. CASE b % 4 < 2 /\ ~(b % 8 < 4)
      <4>1. /\ (b - 2) % 8 < 4 /\ b - 2 \in 0..31
            /\ ((b - 2) % 4) + 4 * ((b - 2) \div 8) = (b % 2) + 2 * (b \div 4)
        BY <3>3
      <4>2. b \notin T
        BY <3>3 DEF Apart
      <4>3. b - 2 \in T <=> (b % 2) + 2 * (b \div 4) \in S
        BY <4>1 DEF Apart
      <4>4. b \in Half(2) /\ (b \in Apart(S, 2) <=> (b % 2) + 2 * (b \div 4) \in S)
        BY <3>3 DEF Half, Apart
      <4> HIDE DEF T
      <4> QED BY <2>2, <4>2, <4>3, <4>4
    <3> QED BY <3>1, <3>2, <3>3
  <2> QED BY <2>3 DEF Half, Apart
<1>5. (Apart(S, 2) \cup ShiftLeft(Apart(S, 2), 1)) \cap Half(1) = Apart(S, 1)
  <2> DEFINE T == Apart(S, 2)
  <2>1. T \in SUBSET (0..31)
    BY DEF Apart
  <2>2. \A b : b \in ShiftLeft(T, 1) <=> b \in Int /\ b - 1 \in T
    <3> HIDE DEF T
    <3> QED BY <1>1, <2>1
  <2>3. ASSUME NEW b \in 0..31
        PROVE  b \in (T \cup ShiftLeft(T, 1)) \cap Half(1) <=> b \in Apart(S, 1)
    <3>1. CASE ~(b % 2 < 1)
      BY <3>1 DEF Half, Apart
    <3>2. CASE b % 2 < 1 /\ b % 4 < 2
      <4>1. ~((b - 1) % 4 < 2) /\ (b % 2) + 2 * (b \div 4) = (b % 1) + 1 * (b \div 2)
        BY <3>2
      <4> QED BY <2>2, <3>2, <4>1 DEF Half, Apart
    <3>3. CASE b % 2 < 1 /\ ~(b % 4 < 2)
      <4>1. /\ (b - 1) % 4 < 2 /\ b - 1 \in 0..31
            /\ ((b - 1) % 2) + 2 * ((b - 1) \div 4) = (b % 1) + 1 * (b \div 2)
        BY <3>3
      <4> QED BY <2>2, <3>3, <4>1 DEF Half, Apart
    <3> QED BY <3>1, <3>2, <3>3
  <2> QED BY <2>3 DEF Half, Apart
<1> QED BY <1>2, <1>3, <1>4, <1>5

LEMMA SpreadIs ==
  ASSUME NEW S \in SUBSET (0..15)
  PROVE  SpreadLow16(S) = {b \in 0..31 : b % 2 = 0 /\ b \div 2 \in S}
<1>1. SpreadLow16(S) = Apart(S, 1)
  <2> DEFINE mask(k) == {b \in 0..31 : b % (2 * k) < k}
  <2>1. mask(8) = Half(8) /\ mask(4) = Half(4) /\ mask(2) = Half(2) /\ mask(1) = Half(1)
    BY Zenon DEF Half
  <2> DEFINE s8 == (S \cup ShiftLeft(S, 8)) \cap mask(8)
             s4 == (s8 \cup ShiftLeft(s8, 4)) \cap mask(4)
             s2 == (s4 \cup ShiftLeft(s4, 2)) \cap mask(2)
  <2>2. SpreadLow16(S) = (s2 \cup ShiftLeft(s2, 1)) \cap mask(1)
    BY Zenon DEF SpreadLow16
  <2> HIDE DEF mask
  <2>3. s8 = Apart(S, 8)
    BY <2>1, SpreadSteps, Zenon
  <2> HIDE DEF s8
  <2>4. s4 = Apart(S, 4)
    BY <2>1, <2>3, SpreadSteps, Zenon
  <2> HIDE DEF s4
  <2>5. s2 = Apart(S, 2)
    BY <2>1, <2>4, SpreadSteps, Zenon
  <2> HIDE DEF s2
  <2> QED BY <2>1, <2>2, <2>5, SpreadSteps, Zenon
<1>2. ASSUME NEW b \in 0..31 PROVE b \in Apart(S, 1) <=> b % 2 = 0 /\ b \div 2 \in S
  <2>1. (b % 1) + 1 * (b \div 2) = b \div 2 /\ (b % 2 < 1 <=> b % 2 = 0) /\ 2 * 1 = 2
    OBVIOUS
  <2> QED BY <2>1 DEF Apart
<1> QED BY <1>1, <1>2 DEF Apart

(* The marked bits of j, spread and marked in one go. *)
LEMMA MarkedOnes ==
  ASSUME NEW j \in Nat, j < Pow2[16]
  PROVE  Ones(Pairs[j]) = SpreadLow16(Ones(j)) \cup Markers(2 * BitLength(j))
<1> DEFINE n == BitLength(j)
           p == Pairs[j]
           k == 16
<1>1. n \in Nat /\ n <= 16 /\ p \in Nat /\ Ones(j) \in SUBSET (0..15)
  <2>1. k \in Nat /\ j < Pow2[k]
    OBVIOUS
  <2> HIDE DEF k
  <2>2. n \in Nat /\ n <= k /\ Ones(j) \subseteq 0..(k - 1)
    BY <2>1, LengthFits, OnesAre
  <2> QED BY <2>2, PairsIs DEF k
<1>2. \A b : b \in Ones(p) <=> b \in Nat /\ Bit(p, b) = 1
  BY <1>1, OnesAre
<1>3. \A b : b \in Ones(j) <=> b \in Nat /\ Bit(j, b) = 1
  BY OnesAre
<1>4. \A a \in Nat : /\ Bit(p, 2 * a) = Bit(j, a)
                     /\ Bit(p, 2 * a + 1) = IF a < n THEN 1 ELSE 0
  BY PairsPlaces
<1> HIDE DEF p, n
<1>5. ASSUME NEW b PROVE b \in Ones(p) <=> b \in SpreadLow16(Ones(j)) \/ b \in Markers(2 * n)
  <2>1. CASE b \notin Nat
    BY <1>1, <1>2, <2>1, SpreadIs DEF Markers
  <2>2. CASE b \in Nat /\ b % 2 = 0
    <3> DEFINE a == b \div 2
    <3>1. a \in Nat /\ b = 2 * a
      BY <2>2
    <3>2. b \notin Markers(2 * n)
      BY <2>2 DEF Markers
    <3> HIDE DEF a
    <3>3. b \in Ones(p) <=> a \in Ones(j)
      <4>1. Bit(p, 2 * a) = Bit(j, a)
        BY <1>4, <3>1
      <4> QED BY <1>2, <1>3, <2>2, <3>1, <4>1
    <3>4. a \in Ones(j) => b \in 0..31
      BY <1>1, <3>1
    <3> QED BY <1>1, <2>2, <3>2, <3>3, <3>4, SpreadIs DEF a
  <2>3. CASE b \in Nat /\ ~(b % 2 = 0)
    <3> DEFINE a == b \div 2
    <3>1. a \in Nat /\ b = 2 * a + 1 /\ b % 2 = 1
      BY <2>3
    <3>2. b \notin SpreadLow16(Ones(j))
      BY <1>1, <2>3, SpreadIs
    <3> HIDE DEF a
    <3>3. b \in Ones(p) <=> a < n
      BY <1>2, <1>4, <3>1
    <3>4. a < n <=> b \in 0..(2 * n - 1) /\ b \in 0..31
      BY <1>1, <3>1
    <3> QED BY <3>1, <3>2, <3>3, <3>4 DEF Markers
  <2> QED BY <2>1, <2>2, <2>3
<1> QED BY <1>5 DEF p, n

LEMMA BoundedAgrees ==
  ASSUME NEW i \in Nat, NEW j \in Nat
  PROVE  ElasticPhiBounded(i, j)
           = {e \in ElasticPhiChecked(i, j) : j < Pow2[JBits] /\ e < Pow2[EncodedBits]}
<1> DEFINE n == BitLength(j)
           m == BitLength(i)
           p == Pairs[j]
           phi == ElasticPhi(i, j)
           word == ShiftLeft(SpreadLow16(Ones(j)) \cup Markers(2 * n), m + 1) \cup Ones(i)
<1>1. CASE i = 0 \/ j = 0
  BY <1>1 DEF ElasticPhiBounded, ElasticPhiChecked
<1>2. CASE i # 0 /\ j # 0
  <2>1. n \in Nat /\ m \in Nat /\ p \in Nat /\ i < Pow2[m] /\ phi \in Nat
    <3>1. n \in Nat /\ m \in Nat /\ i < Pow2[m]
      BY LengthFits
    <3>2. p \in Nat /\ phi \in Nat
      BY PairsIs, PhiWidth
    <3> QED BY <3>1, <3>2
  <2>2. ElasticPhiChecked(i, j) = Fit(phi)
    BY <1>2, CheckedFits
  <2>3. EncodedBits \in Nat /\ PhiBits \in Nat /\ EncodedBits <= PhiBits /\ EncodedBits <= 64
        /\ JBits \in Nat /\ JBits <= 16
    BY EncodingAssumption
  <2>4. \A k \in Nat : phi < Pow2[k] <=> 2 * n + 1 + m <= k
    <3>1. Width(phi, 2 * n + 1 + m)
      BY <1>2, PhiWidth DEF PhiLength
    <3> HIDE DEF phi, n, m
    <3> QED BY <2>1, <3>1, WidthLeast
  <2>5. ElasticPhiBounded(i, j) =
          IF j >= Pow2[JBits] \/ 2 * n + 1 + m > EncodedBits THEN {} ELSE {Number(word)}
    BY <1>2 DEF ElasticPhiBounded
  <2>6. ASSUME j < Pow2[JBits], 2 * n + 1 + m <= EncodedBits PROVE Number(word) = phi
    <3>1. j < Pow2[16]
      <4> DEFINE k == 16
      <4>1. k \in Nat /\ JBits <= k
        BY <2>3
      <4> HIDE DEF k
      <4>2. n <= JBits
        BY <2>3, <2>6, LengthFits
      <4>3. j < Pow2[k]
        BY <2>1, <2>3, <4>1, <4>2, LengthFits
      <4> QED BY <4>3 DEF k
    <3>2. Ones(p) = SpreadLow16(Ones(j)) \cup Markers(2 * n)
      BY <3>1, MarkedOnes
    <3> HIDE DEF n, m, p, phi
    <3>3. phi = p * Pow2[m + 1] + i /\ i < Pow2[m + 1] /\ m + 1 \in Nat
      <4>1. phi = 2 * p * Pow2[m] + i /\ Pow2[m + 1] = 2 * Pow2[m] /\ Pow2[m] \in Nat
        BY <2>1, Pow2Def DEF phi, p, m, ElasticPhi
      <4> DEFINE w == Pow2[m]
      <4>2. w \in Nat /\ phi = 2 * p * w + i /\ Pow2[m + 1] = 2 * w /\ i < w
        BY <2>1, <4>1
      <4> HIDE DEF w
      <4>3. 2 * p * w = p * (2 * w)
        BY <2>1, <4>2
      <4> QED BY <2>1, <4>2, <4>3
    <3>4. Ones(phi) = ShiftLeft(Ones(p), m + 1) \cup Ones(i)
      BY <2>1, <3>3, OnesStacked
    <3>5. phi < Pow2[EncodedBits]
      BY <2>3, <2>4, <2>6
    <3>6. Number(Ones(phi)) = phi
      BY <2>1, <2>3, <3>5, FewPlaces
    <3> QED BY <3>2, <3>4, <3>6
  <2>7. phi < Pow2[EncodedBits] => phi < Pow2[PhiBits]
    <3> HIDE DEF phi, n, m
    <3> QED BY <2>1, <2>3, <2>4
  <2>8. ~(j < Pow2[JBits]) <=> j >= Pow2[JBits]
    BY <2>3, Pow2Positive
  <2>9. ~(phi < Pow2[EncodedBits]) <=> 2 * n + 1 + m > EncodedBits
    <3> HIDE DEF phi, n, m
    <3> QED BY <2>1, <2>3, <2>4
  <2> HIDE DEF phi, n, m, word
  <2>10. CASE j < Pow2[JBits] /\ phi < Pow2[EncodedBits]
    <3>1. ElasticPhiBounded(i, j) = {phi}
      <4>1. 2 * n + 1 + m <= EncodedBits
        BY <2>1, <2>3, <2>9, <2>10
      <4> QED BY <2>5, <2>6, <2>8, <2>9, <2>10, <4>1
    <3>2. Fit(phi) = {phi}
      BY <2>7, <2>10 DEF Fit
    <3> QED BY <2>2, <2>10, <3>1, <3>2
  <2>11. CASE ~(j < Pow2[JBits] /\ phi < Pow2[EncodedBits])
    <3>1. ElasticPhiBounded(i, j) = {}
      BY <2>5, <2>8, <2>9, <2>11
    <3>2. {e \in Fit(phi) : j < Pow2[JBits] /\ e < Pow2[EncodedBits]} = {}
      BY <2>11 DEF Fit
    <3> QED BY <2>2, <3>1, <3>2
  <2> QED BY <2>10, <2>11
<1> QED BY <1>1, <1>2

------------------------------------------------------------------------------
(* The decoder.                                                            *)

LEMMA PhiPlaces ==
  ASSUME NEW i \in Nat, NEW j \in Nat
  PROVE  /\ ElasticPhi(i, j) % Pow2[BitLength(i)] = i
         /\ Bit(ElasticPhi(i, j), BitLength(i)) = 0
         /\ \A b \in Nat : b < BitLength(j) =>
              /\ Bit(ElasticPhi(i, j), BitLength(i) + 1 + 2 * b) = Bit(j, b)
              /\ Bit(ElasticPhi(i, j), BitLength(i) + 2 + 2 * b) = 1
<1> DEFINE m == BitLength(i)
           n == BitLength(j)
           p == Pairs[j]
           e == ElasticPhi(i, j)
           w == Pow2[m]
<1>1. m \in Nat /\ n \in Nat /\ i < w /\ w \in Nat /\ Pow2[m + 1] = 2 * w
  <2>1. m \in Nat /\ n \in Nat /\ i < Pow2[m]
    BY LengthFits
  <2> HIDE DEF m, n
  <2> QED BY <2>1, Pow2Positive, Pow2Def
<1>2. p \in Nat /\ e \in Nat
  BY PairsIs, PhiWidth
<1>3. e = 2 * p * w + i
  BY DEF ElasticPhi
<1>4. \A b \in Nat : Bit(p, 2 * b) = Bit(j, b) /\ Bit(p, 2 * b + 1) = IF b < n THEN 1 ELSE 0
  BY PairsPlaces
<1>5. Bit(i, m) = 0
  BY <1>1, NoPlacePast
<1> HIDE DEF m, n, p, e
<1>6. e = p * Pow2[m + 1] + i /\ i < Pow2[m + 1] /\ m + 1 \in Nat
  <2> HIDE DEF w
  <2>1. 2 * p * w = p * (2 * w)
    BY <1>1, <1>2
  <2> QED BY <1>1, <1>2, <1>3, <2>1
<1>7. ASSUME NEW b \in Nat
      PROVE  /\ b >= m + 1 => Bit(e, b) = Bit(p, b - (m + 1))
             /\ b < m + 1 => Bit(e, b) = Bit(i, b)
  BY <1>2, <1>6, Stacked
<1>8. e % w = i
  <2> DEFINE u == 2 * p
  <2>1. u \in Nat /\ e = u * w + i
    BY <1>2, <1>3
  <2> HIDE DEF u
  <2>2. e \div w = u
    BY <1>1, <2>1, Stacked
  <2> HIDE DEF w
  <2>3. w > 0
    BY <1>1
  <2>4. e = (e \div w) * w + (e % w) /\ e % w \in 0..(w - 1)
    BY <1>1, <1>2, <2>3, Remainder
  <2> QED BY <1>1, <2>1, <2>2, <2>4
<1>9. Bit(e, m) = 0
  BY <1>1, <1>5, <1>7
<1>10. ASSUME NEW b \in Nat, b < n
       PROVE  Bit(e, m + 1 + 2 * b) = Bit(j, b) /\ Bit(e, m + 2 + 2 * b) = 1
  <2>1. /\ m + 1 + 2 * b \in Nat /\ m + 1 + 2 * b >= m + 1
        /\ (m + 1 + 2 * b) - (m + 1) = 2 * b
        /\ m + 2 + 2 * b \in Nat /\ m + 2 + 2 * b >= m + 1
        /\ (m + 2 + 2 * b) - (m + 1) = 2 * b + 1
    BY <1>1
  <2>2. Bit(e, m + 1 + 2 * b) = Bit(p, 2 * b)
    <3> DEFINE c == m + 1 + 2 * b
    <3>1. c \in Nat /\ c >= m + 1 /\ c - (m + 1) = 2 * b
      BY <2>1
    <3> HIDE DEF c
    <3>2. Bit(e, c) = Bit(p, 2 * b)
      BY <1>7, <3>1
    <3> QED BY <3>2 DEF c
  <2>3. Bit(e, m + 2 + 2 * b) = Bit(p, 2 * b + 1)
    <3> DEFINE c == m + 2 + 2 * b
    <3>1. c \in Nat /\ c >= m + 1 /\ c - (m + 1) = 2 * b + 1
      BY <2>1
    <3> HIDE DEF c
    <3>2. Bit(e, c) = Bit(p, 2 * b + 1)
      BY <1>7, <3>1
    <3> QED BY <3>2 DEF c
  <2> QED BY <1>4, <1>10, <2>2, <2>3
<1> QED BY <1>8, <1>9, <1>10 DEF m, n, e

LEMMA DataRead ==
  ASSUME NEW code \in Nat
  PROVE  /\ DataBits(code)[0] = 0
         /\ \A b \in 1..(BitLength(code) \div 2) :
              DataBits(code)[b] = 2 * DataBits(code)[b - 1] + Bit(code, BitLength(code) - 2 * b)
<1> DEFINE l == BitLength(code)
           k == l \div 2
           bit(b) == Bit(code, l - 2 * b)
           Is(f) == f = [b \in 0..k |-> IF b = 0 THEN 0 ELSE 2 * f[b - 1] + bit(b)]
           data == CHOOSE f : Is(f)
           A == Nat
           z == 0
           step == [b \in 1..k |-> [v \in Nat |-> 2 * v + bit(b)]]
<1>1. DataBits(code) = data
  BY Zenon DEF DataBits
<1>2. l \in Nat /\ k \in Nat
  <2>1. l \in Nat
    BY LengthFits
  <2> HIDE DEF l
  <2> QED BY <2>1
<1>3. ASSUME NEW b \in 1..k PROVE bit(b) \in Nat
  <2>1. l - 2 * b \in Nat
    <3> HIDE DEF l
    <3> QED BY <1>2
  <2> DEFINE c == l - 2 * b
  <2>2. c \in Nat /\ bit(b) = Bit(code, c)
    BY <2>1
  <2> HIDE DEF c, bit
  <2>3. Bit(code, c) \in {0, 1}
    BY <2>2, Shifted
  <2> QED BY <2>2, <2>3
<1> HIDE DEF l, k, bit
<1>4. z \in A /\ step \in [1..k -> [A -> A]]
  <2>1. ASSUME NEW b \in 1..k PROVE [v \in Nat |-> 2 * v + bit(b)] \in [Nat -> Nat]
    BY <1>3
  <2> QED BY <2>1
<1>5. PICK h \in [0..k -> A] : TakesSteps(h, k, z, step)
  <2> HIDE DEF step, A, z
  <2> QED BY <1>2, <1>4, StepsExist, Zenon
<1>6. Is(h)
  <2>1. ASSUME NEW b \in 0..k PROVE h[b] = IF b = 0 THEN 0 ELSE 2 * h[b - 1] + bit(b)
    <3>1. CASE b = 0
      BY <1>5, <3>1 DEF TakesSteps
    <3>2. CASE b # 0
      <4>1. b \in 1..k /\ b - 1 \in 0..k
        BY <1>2, <3>2
      <4>2. h[b] = step[b][h[b - 1]]
        <5> HIDE DEF step
        <5> QED BY <1>5, <4>1 DEF TakesSteps
      <4>3. h[b - 1] \in Nat
        BY <1>5, <4>1
      <4> QED BY <3>2, <4>1, <4>2, <4>3
    <3> QED BY <3>1, <3>2
  <2>2. h \in [0..k -> Nat]
    BY <1>5
  <2> HIDE DEF A, step
  <2> QED BY <2>1, <2>2
<1>7. Is(data)
  BY <1>6, Zenon
<1> HIDE DEF data
<1>8. ASSUME NEW b \in 0..k PROVE data[b] = IF b = 0 THEN 0 ELSE 2 * data[b - 1] + bit(b)
  BY <1>7, Zenon
<1>9. data[0] = 0
  <2>1. 0 \in 0..k
    BY <1>2
  <2> QED BY <1>8, <2>1
<1>10. ASSUME NEW b \in 1..k PROVE data[b] = 2 * data[b - 1] + bit(b)
  <2>1. b \in 0..k /\ b # 0
    BY <1>2
  <2> QED BY <1>8, <2>1
<1> QED BY <1>1, <1>9, <1>10 DEF bit, l, k

LEMMA DataAre ==
  ASSUME NEW i \in Nat, NEW j \in Nat, j # 0
  PROVE  DataBits(ElasticPhi(i, j))[BitLength(j)] = j
<1> DEFINE e == ElasticPhi(i, j)
           n == BitLength(j)
           m == BitLength(i)
           data == DataBits(e)
           S == {b \in 0..n : data[b] = j \div Pow2[n - b]}
<1>1. n \in Nat /\ m \in Nat /\ e \in Nat /\ j < Pow2[n]
  <2>1. n \in Nat /\ m \in Nat /\ j < Pow2[n]
    BY LengthFits
  <2> QED BY <2>1, PhiWidth
<1>2. BitLength(e) = 2 * n + 1 + m
  <2>1. Width(e, 2 * n + 1 + m) /\ Width(e, BitLength(e))
    BY <1>1, PhiWidth, BitLengthWidth DEF PhiLength
  <2> HIDE DEF e, n, m
  <2>2. 2 * n + 1 + m \in Nat
    BY <1>1
  <2> QED BY <1>1, <2>1, <2>2, WidthUnique
<1>3. /\ data[0] = 0
      /\ \A b \in 1..(BitLength(e) \div 2) :
           data[b] = 2 * data[b - 1] + Bit(e, BitLength(e) - 2 * b)
  <2> HIDE DEF e
  <2> QED BY <1>1, DataRead
<1>4. \A b \in Nat : b < n => Bit(e, m + 1 + 2 * b) = Bit(j, b)
  BY PhiPlaces
<1> HIDE DEF e, n, m, data
<1>5. 0 \in S
  <2>1. j \div Pow2[n] = 0
    <3> DEFINE w == Pow2[n]
    <3>1. w \in Nat /\ w > 0 /\ j < w
      BY <1>1, Pow2Positive
    <3>2. 0 * w <= j /\ j < (0 + 1) * w
      BY <3>1
    <3>3. j \div w = 0
      <4> HIDE DEF w
      <4> QED BY <3>1, <3>2, Quotient
    <3> QED BY <3>3
  <2>2. n - 0 = n /\ 0 \in 0..n
    BY <1>1
  <2> QED BY <1>3, <2>1, <2>2
<1>6. ASSUME NEW b \in 0..n, b < n, b \in S PROVE b + 1 \in S
  <2> DEFINE c == n - (b + 1)
             x == j \div Pow2[c]
  <2>1. c \in Nat /\ c + 1 = n - b /\ c < n /\ b + 1 \in 0..n /\ (b + 1) - 1 = b
    BY <1>1, <1>6
  <2>2. b + 1 \in 1..(BitLength(e) \div 2) /\ BitLength(e) - 2 * (b + 1) = m + 1 + 2 * c
    <3>1. b + 1 <= (2 * n + 1 + m) \div 2
      BY <1>1, <1>6
    <3> QED BY <1>1, <1>2, <2>1, <3>1
  <2> HIDE DEF c
  <2>3. data[b + 1] = 2 * data[b] + Bit(j, c)
    <3>1. Bit(e, BitLength(e) - 2 * (b + 1)) = Bit(j, c)
      BY <1>4, <2>1, <2>2
    <3> QED BY <1>3, <2>1, <2>2, <3>1
  <2>4. x \in Nat /\ Bit(j, c) = x % 2
    BY <2>1, Shifted DEF Bit
  <2>5. x \div 2 = j \div Pow2[n - b]
    <3>1. Pow2[1] = 2 /\ 1 \in Nat
      <4>1. Pow2[0 + 1] = 2
        BY Pow2Def
      <4> QED BY <4>1
    <3>2. (j \div Pow2[c]) \div Pow2[1] = j \div Pow2[c + 1]
      BY <2>1, <3>1, ShiftedTwice
    <3> QED BY <2>1, <3>1, <3>2, Zenon
  <2>6. data[b] = x \div 2
    BY <1>6, <2>5
  <2> HIDE DEF x
  <2>7. data[b + 1] = x
    <3>1. x = 2 * (x \div 2) + (x % 2)
      BY <2>4
    <3> QED BY <2>3, <2>4, <2>6, <3>1
  <2> QED BY <2>1, <2>7 DEF x, c
<1> HIDE DEF S
<1>7. \A b \in 0..n : b \in S
  BY <1>1, <1>5, <1>6, PositionInduction, Zenon
<1>8. data[n] = j \div Pow2[n - n]
  <2>1. n \in 0..n
    BY <1>1
  <2> QED BY <1>7, <2>1 DEF S
<1>9. j \div Pow2[n - n] = j
  <2>1. n - n = 0 /\ Pow2[0] = 1
    BY <1>1, Pow2Def
  <2> QED BY <2>1
<1> QED BY <1>8, <1>9 DEF data, e, n

LEMMA DelimiterIs ==
  ASSUME NEW i \in Nat, NEW j \in Nat, j # 0
  PROVE  Delimiters(ElasticPhi(i, j)) = {BitLength(j)}
<1> DEFINE e == ElasticPhi(i, j)
           n == BitLength(j)
           m == BitLength(i)
           l == BitLength(e)
           unmarked == {b \in 0..(l \div 2) : 2 * b < l /\ Bit(e, l - 2 * b - 1) = 0}
<1>1. n \in Nat /\ m \in Nat /\ e \in Nat
  <2>1. n \in Nat /\ m \in Nat
    BY LengthFits
  <2> QED BY <2>1, PhiWidth
<1>2. l = 2 * n + 1 + m
  <2>1. Width(e, 2 * n + 1 + m) /\ Width(e, BitLength(e))
    BY <1>1, PhiWidth, BitLengthWidth DEF PhiLength
  <2> HIDE DEF e, n, m
  <2>2. 2 * n + 1 + m \in Nat
    BY <1>1
  <2> QED BY <1>1, <2>1, <2>2, WidthUnique
<1>3. /\ Bit(e, m) = 0
      /\ \A b \in Nat : b < n => Bit(e, m + 2 + 2 * b) = 1
  BY PhiPlaces
<1>4. Delimiters(e) = {b \in unmarked : \A a \in unmarked : b <= a}
  BY Zenon DEF Delimiters
<1> HIDE DEF e, n, m, l
<1>5. n \in unmarked
  <2>1. n \in 0..(l \div 2) /\ 2 * n < l /\ l - 2 * n - 1 = m
    BY <1>1, <1>2
  <2> QED BY <1>3, <2>1
<1>6. ASSUME NEW b \in unmarked PROVE b \in Nat /\ n <= b
  <2>1. b \in Nat /\ Bit(e, l - 2 * b - 1) = 0
    OBVIOUS
  <2>2. ASSUME b < n PROVE FALSE
    <3>1. n - b - 1 \in Nat /\ n - b - 1 < n /\ m + 2 + 2 * (n - b - 1) = l - 2 * b - 1
      BY <1>1, <1>2, <2>1, <2>2
    <3> DEFINE c == n - b - 1
    <3>2. Bit(e, m + 2 + 2 * c) = 1
      <4> HIDE DEF c
      <4>1. c \in Nat /\ c < n
        BY <3>1 DEF c
      <4> QED BY <1>3, <4>1
    <3> QED BY <2>1, <3>1, <3>2
  <2> QED BY <1>1, <2>1, <2>2
<1> HIDE DEF unmarked
<1>7. {b \in unmarked : \A a \in unmarked : b <= a} = {n}
  <2>1. \A a \in unmarked : n <= a
    BY <1>6
  <2>2. ASSUME NEW b \in unmarked, \A a \in unmarked : b <= a PROVE b = n
    BY <1>1, <1>5, <1>6, <2>2
  <2> QED BY <1>5, <2>1, <2>2
<1> QED BY <1>4, <1>7 DEF e, n

LEMMA DecodedAgain ==
  ASSUME NEW i \in Nat, NEW j \in Nat, i # 0, j # 0, NEW e \in ElasticPhiChecked(i, j)
  PROVE  ElasticPhiInverse(e) = {<<i, j>>}
<1> DEFINE n == BitLength(j)
           m == BitLength(i)
           rest(b) == BitLength(e) - 2 * b - 1
           decoded == {<<e % Pow2[rest(b)], DataBits(e)[b]>> : b \in {b \in Delimiters(e) : rest(b) > 0}}
<1>1. e = ElasticPhi(i, j) /\ ElasticPhiChecked(i, j) = {e}
  BY CheckedFits DEF Fit
<1>2. n \in Nat /\ m \in Nat
  BY LengthFits
<1>3. BitLength(e) = 2 * n + 1 + m
  <2>1. e \in Nat /\ Width(e, 2 * n + 1 + m) /\ Width(e, BitLength(e))
    BY <1>1, PhiWidth, BitLengthWidth DEF PhiLength
  <2> HIDE DEF n, m
  <2>2. 2 * n + 1 + m \in Nat
    BY <1>2
  <2> QED BY <2>1, <2>2, WidthUnique
<1>4. m > 0
  <2>1. i < Pow2[m]
    BY LengthFits
  <2>2. Pow2[0] = 1
    BY Pow2Def
  <2>3. m # 0
    <3> HIDE DEF m
    <3> QED BY <2>1, <2>2
  <2> QED BY <1>2, <2>3
<1>5. Delimiters(e) = {n} /\ DataBits(e)[n] = j /\ e % Pow2[m] = i
  BY <1>1, DelimiterIs, DataAre, PhiPlaces
<1>6. rest(n) = m
  <2> HIDE DEF n, m
  <2> QED BY <1>2, <1>3
<1>7. ElasticPhiInverse(e) = {c \in decoded : ElasticPhiChecked(c[1], c[2]) = {e}}
  BY Zenon DEF ElasticPhiInverse
<1>8. {b \in Delimiters(e) : rest(b) > 0} = {n}
  <2> HIDE DEF rest, n
  <2> QED BY <1>4, <1>5, <1>6
<1>9. decoded = {<<i, j>>}
  <2>1. decoded = {<<e % Pow2[rest(n)], DataBits(e)[n]>>}
    <3> HIDE DEF rest, n
    <3> QED BY <1>8
  <2> HIDE DEF rest, n, m, decoded
  <2> QED BY <1>5, <1>6, <2>1
<1> HIDE DEF decoded
<1> QED BY <1>1, <1>7, <1>9

------------------------------------------------------------------------------
(* The routes of a query.                                                  *)

LEMMA PhiGrowsByLevel ==
  ASSUME NEW i \in Nat, NEW l \in Nat, i <= l, NEW j \in Nat
  PROVE  ElasticPhi(i, j) <= ElasticPhi(l, j)
<1> DEFINE m == BitLength(i)
           n == BitLength(l)
           v == Pow2[m]
           w == Pow2[n]
           s == 2 * Pairs[j]
<1>1. m \in Nat /\ n \in Nat /\ m <= n
  <2>1. m \in Nat /\ n \in Nat /\ l < Pow2[n] /\ Pow2[n] \in Nat
    <3>1. m \in Nat /\ n \in Nat /\ l < Pow2[n]
      BY LengthFits
    <3> HIDE DEF n, m
    <3> QED BY <3>1, Pow2Positive
  <2>2. i < Pow2[n]
    <3> HIDE DEF n
    <3> QED BY <2>1
  <2> QED BY <2>1, <2>2, LengthFits
<1>2. v \in Nat /\ w \in Nat /\ v <= w
  <2> HIDE DEF m, n
  <2>1. v \in Nat /\ w \in Nat
    BY <1>1, Pow2Positive
  <2>2. m < n => v < w
    BY <1>1, Pow2Grows
  <2> QED BY <1>1, <2>1, <2>2
<1>3. s \in Nat /\ ElasticPhi(i, j) = s * v + i /\ ElasticPhi(l, j) = s * w + l
  BY PairsIs DEF ElasticPhi
<1> HIDE DEF v, w, s
<1>4. s * v <= s * w /\ s * v \in Nat /\ s * w \in Nat
  BY <1>2, <1>3
<1> QED BY <1>3, <1>4

LEMMA PhiOrder ==
  ASSUME NEW i \in Nat, NEW j \in Nat, NEW l \in Nat
  PROVE  ElasticPhi(i, j) <= ElasticPhi(i, l) <=> j <= l
<1>1. ElasticPhi(i, j) \in Nat /\ ElasticPhi(i, l) \in Nat
  BY PhiWidth
<1>2. j < l => ElasticPhi(i, j) < ElasticPhi(i, l)
  BY PhiGrows
<1>3. l < j => ElasticPhi(i, l) < ElasticPhi(i, j)
  BY PhiGrows
<1> QED BY <1>1, <1>2, <1>3

(* What the search knows when k halvings are done. *)
Narrow(level, position, r, k) ==
  /\ r \in [lower : Nat, upper : Nat]
  /\ 1 <= r.lower /\ r.lower <= r.upper /\ r.upper <= UniformSearchCap + 1
  /\ r.upper - r.lower <= UniformSearchCap \div Pow2[k]
  /\ \A p \in 1..UniformSearchCap : /\ p < r.lower => ~PastPosition(level, p, position)
                                    /\ p >= r.upper => PastPosition(level, p, position)

LEMMA NarrowerRange ==
  ASSUME NEW level \in Nat, NEW position \in Nat, NEW r, NEW k \in Nat,
         Narrow(level, position, r, k)
  PROVE  Narrow(level, position, Narrowed(level, position, r), k + 1)
<1> DEFINE cap == UniformSearchCap
           a == r.lower
           b == r.upper
           past(p) == PastPosition(level, p, position)
           middle == a + (b - a) \div 2
           w == Pow2[k]
           g == cap \div w
<1>1. /\ r \in [lower : Nat, upper : Nat] /\ a \in Nat /\ b \in Nat /\ cap \in Nat
      /\ 1 <= a /\ a <= b /\ b <= cap + 1 /\ b - a <= g
      /\ \A p \in 1..cap : (p < a => ~past(p)) /\ (p >= b => past(p))
  BY EncodingAssumption DEF Narrow
<1>2. g \in Nat /\ cap \div Pow2[k + 1] = g \div 2
  <2>1. Pow2[1] = 2 /\ 1 \in Nat
    <3>1. Pow2[0 + 1] = 2
      BY Pow2Def
    <3> QED BY <3>1
  <2>2. (cap \div Pow2[k]) \div Pow2[1] = cap \div Pow2[k + 1]
    <3>1. cap \in Nat
      BY <1>1
    <3> HIDE DEF cap
    <3> QED BY <2>1, <3>1, ShiftedTwice
  <2>3. g \in Nat
    BY <1>1, Shifted
  <2> QED BY <2>1, <2>2, <2>3
<1>3. ASSUME NEW p \in 1..cap, NEW q \in 1..cap, p <= q, past(p) PROVE past(q)
  <2>1. p \in Nat /\ q \in Nat /\ level + 1 \in Nat
    BY <1>1
  <2>2. ElasticPhi(level + 1, p) <= ElasticPhi(level + 1, q)
    BY <1>3, <2>1, PhiOrder
  <2>3. ElasticPhi(level + 1, p) \in Nat /\ ElasticPhi(level + 1, q) \in Nat
    BY <2>1, PhiWidth
  <2> QED BY <1>3, <2>2, <2>3 DEF PastPosition
<1>4. Narrowed(level, position, r) =
        IF a >= b THEN r
        ELSE IF past(middle) THEN [r EXCEPT !.upper = middle]
        ELSE [r EXCEPT !.lower = middle + 1]
  BY Zenon DEF Narrowed
<1> HIDE DEF past, g, w, cap
<1>5. CASE a >= b
  <2>1. b - a <= g \div 2
    BY <1>1, <1>2, <1>5
  <2> QED BY <1>1, <1>2, <1>4, <1>5, <2>1 DEF Narrow, past, cap
<1>6. CASE ~(a >= b)
  <2>1. /\ middle \in Nat /\ a <= middle /\ middle < b /\ middle \in 1..cap
        /\ middle - a <= g \div 2 /\ b - (middle + 1) <= g \div 2
    BY <1>1, <1>2, <1>6
  <2> HIDE DEF middle
  <2>2. CASE past(middle)
    <3> DEFINE s == [r EXCEPT !.upper = middle]
    <3>1. s \in [lower : Nat, upper : Nat] /\ s.lower = a /\ s.upper = middle
      BY <1>1, <2>1
    <3>2. Narrowed(level, position, r) = s
      BY <1>4, <1>6, <2>2
    <3> HIDE DEF s
    <3>3. ASSUME NEW p \in 1..cap PROVE (p < a => ~past(p)) /\ (p >= middle => past(p))
      BY <1>1, <1>3, <2>1, <2>2
    <3>4. middle <= cap + 1
      BY <1>1, <2>1
    <3> HIDE DEF a, b
    <3>5. Narrow(level, position, s, k + 1)
      BY <1>1, <1>2, <2>1, <3>1, <3>3, <3>4 DEF Narrow, past, cap
    <3> QED BY <3>2, <3>5
  <2>3. CASE ~past(middle)
    <3> DEFINE s == [r EXCEPT !.lower = middle + 1]
    <3>1. s \in [lower : Nat, upper : Nat] /\ s.lower = middle + 1 /\ s.upper = b
      BY <1>1, <2>1
    <3>2. Narrowed(level, position, r) = s
      BY <1>4, <1>6, <2>3
    <3> HIDE DEF s
    <3>3. ASSUME NEW p \in 1..cap PROVE (p < middle + 1 => ~past(p)) /\ (p >= b => past(p))
      <4>1. p < middle + 1 => p <= middle
        BY <2>1
      <4> QED BY <1>1, <1>3, <2>1, <2>3, <4>1
    <3>4. 1 <= middle + 1 /\ middle + 1 <= b
      BY <1>1, <2>1
    <3> HIDE DEF a, b
    <3>5. Narrow(level, position, s, k + 1)
      BY <1>1, <1>2, <2>1, <3>1, <3>3, <3>4 DEF Narrow, past, cap
    <3> QED BY <3>2, <3>5
  <2> QED BY <2>2, <2>3
<1> QED BY <1>5, <1>6

(* The binary search answers the first probe past the position. *)
LEMMA SearchFinds ==
  ASSUME NEW level \in Nat, NEW position \in Nat
  PROVE  /\ FirstProbeAfter(level, position) \in 1..(UniformSearchCap + 1)
         /\ \A p \in 1..UniformSearchCap :
              PastPosition(level, p, position) <=> p >= FirstProbeAfter(level, position)
<1> DEFINE cap == UniformSearchCap
           n == BitLength(cap)
           first == [lower |-> 1, upper |-> UniformSearchCap + 1]
           Is(f) == f = [k \in 0..n |-> IF k = 0 THEN first ELSE Narrowed(level, position, f[k - 1])]
           range == CHOOSE f : Is(f)
           A == [lower : Nat, upper : Nat]
           step == [i \in 1..n |-> [r \in A |-> Narrowed(level, position, r)]]
<1>1. cap \in Nat /\ n \in Nat /\ cap < Pow2[n]
  BY EncodingAssumption, LengthFits
<1>2. FirstProbeAfter(level, position) = range[n].lower
  BY Zenon DEF FirstProbeAfter
<1>3. first \in A /\ step \in [1..n -> [A -> A]]
  <2>1. ASSUME NEW r \in A PROVE Narrowed(level, position, r) \in A
    <3> DEFINE m == r.lower + (r.upper - r.lower) \div 2
    <3>1. ASSUME ~(r.lower >= r.upper) PROVE m \in Nat
      BY <3>1
    <3>2. Narrowed(level, position, r) =
            IF r.lower >= r.upper THEN r
            ELSE IF PastPosition(level, m, position) THEN [r EXCEPT !.upper = m]
            ELSE [r EXCEPT !.lower = m + 1]
      BY Zenon DEF Narrowed
    <3> HIDE DEF m
    <3> QED BY <3>1, <3>2
  <2> HIDE DEF n, A
  <2>2. [r \in A |-> Narrowed(level, position, r)] \in [A -> A]
    BY <2>1
  <2> QED BY <1>1, <2>2 DEF A
<1> HIDE DEF n
<1>4. PICK h \in [0..n -> A] : TakesSteps(h, n, first, step)
  <2> HIDE DEF step, A, first
  <2> QED BY <1>1, <1>3, StepsExist, Zenon
<1>5. Is(h)
  <2>1. ASSUME NEW k \in 0..n
        PROVE  h[k] = IF k = 0 THEN first ELSE Narrowed(level, position, h[k - 1])
    <3>1. CASE k = 0
      BY <1>4, <3>1 DEF TakesSteps
    <3>2. CASE k # 0
      <4>1. k \in 1..n /\ k - 1 \in 0..n
        BY <1>1, <3>2
      <4> HIDE DEF A, first
      <4>2. h[k] = step[k][h[k - 1]]
        <5> HIDE DEF step
        <5> QED BY <1>4, <4>1 DEF TakesSteps
      <4>3. h[k - 1] \in A
        BY <1>4, <4>1
      <4> QED BY <3>2, <4>1, <4>2, <4>3
    <3> QED BY <3>1, <3>2
  <2> HIDE DEF A, step, first
  <2> QED BY <1>4, <2>1
<1>6. Is(range)
  BY <1>5, Zenon
<1> HIDE DEF range, step
<1>7. ASSUME NEW k \in 0..n
      PROVE  range[k] = IF k = 0 THEN first ELSE Narrowed(level, position, range[k - 1])
  BY <1>6, Zenon
<1> DEFINE S == {k \in 0..n : Narrow(level, position, range[k], k)}
<1>8. 0 \in S
  <2>1. 0 \in 0..n
    BY <1>1
  <2>2. range[0] = first
    BY <1>7, <2>1
  <2>3. first \in A /\ first.lower = 1 /\ first.upper = cap + 1
    BY <1>3
  <2>4. (cap + 1) - 1 <= cap \div Pow2[0]
    <3>1. Pow2[0] = 1
      BY Pow2Def
    <3> HIDE DEF cap
    <3> QED BY <1>1, <3>1
  <2>5. \A p \in 1..cap : ~(p < 1) /\ ~(p >= cap + 1)
    BY <1>1
  <2>6. Narrow(level, position, first, 0)
    <3> HIDE DEF first
    <3> QED BY <1>1, <2>3, <2>4, <2>5 DEF Narrow
  <2> QED BY <2>1, <2>2, <2>6
<1>9. ASSUME NEW k \in 0..n, k < n, k \in S PROVE k + 1 \in S
  <2>1. k + 1 \in 0..n /\ k + 1 # 0 /\ (k + 1) - 1 = k /\ k \in Nat
    BY <1>1, <1>9
  <2>2. range[k + 1] = Narrowed(level, position, range[k])
    BY <1>7, <2>1
  <2>3. Narrow(level, position, range[k + 1], k + 1)
    BY <1>9, <2>1, <2>2, NarrowerRange
  <2> QED BY <2>1, <2>3
<1> HIDE DEF S
<1>10. \A k \in 0..n : k \in S
  BY <1>1, <1>8, <1>9, PositionInduction, Zenon
<1>11. Narrow(level, position, range[n], n)
  <2>1. n \in 0..n
    BY <1>1
  <2> QED BY <1>10, <2>1 DEF S
<1>12. cap \div Pow2[n] = 0
  <2> DEFINE w == Pow2[n]
  <2>1. w \in Nat /\ w > 0 /\ cap < w
    BY <1>1, Pow2Positive
  <2>2. 0 * w <= cap /\ cap < (0 + 1) * w
    BY <1>1, <2>1
  <2>3. cap \div w = 0
    <3> HIDE DEF w, cap
    <3> QED BY <1>1, <2>1, <2>2, Quotient
  <2> QED BY <2>3
<1> DEFINE a == range[n].lower
           b == range[n].upper
<1>13. a \in Nat /\ b \in Nat /\ 1 <= a /\ a <= b /\ b <= cap + 1 /\ b - a <= 0
  BY <1>11, <1>12 DEF Narrow
<1>14. \A p \in 1..cap : /\ p < a => ~PastPosition(level, p, position)
                         /\ p >= b => PastPosition(level, p, position)
  BY <1>11 DEF Narrow
<1> HIDE DEF a, b
<1>15. a = b /\ a \in 1..(cap + 1)
  BY <1>1, <1>13
<1>16. \A p \in 1..cap : PastPosition(level, p, position) <=> p >= a
  BY <1>1, <1>13, <1>14, <1>15
<1> QED BY <1>2, <1>15, <1>16 DEF a, cap

LEMMA ProbesAre ==
  ASSUME NEW level \in Nat, NEW first \in Nat \ {0}, NEW position \in Nat
  PROVE  ProbesUpTo(level, first, position)
           = {p \in first..UniformSearchCap : ~PastPosition(level, p, position)}
<1> DEFINE cap == UniformSearchCap
           past == {p \in first..cap : PastPosition(level, p, position)}
<1>1. cap \in Nat
  BY EncodingAssumption
<1>2. ProbesUpTo(level, first, position) = {p \in first..cap : \A q \in past : p < q}
  BY Zenon DEF ProbesUpTo
<1>3. ASSUME NEW p \in first..cap, ~PastPosition(level, p, position), NEW q \in past PROVE p < q
  <2>1. p \in 1..cap /\ q \in 1..cap /\ PastPosition(level, q, position)
    BY <1>1
  <2>2. q >= FirstProbeAfter(level, position) /\ ~(p >= FirstProbeAfter(level, position))
    BY <1>3, <2>1, SearchFinds
  <2>3. FirstProbeAfter(level, position) \in Nat
    BY <1>1, SearchFinds
  <2> QED BY <1>1, <2>1, <2>2, <2>3
<1>4. ASSUME NEW p \in first..cap, PastPosition(level, p, position) PROVE ~(\A q \in past : p < q)
  <2>1. p \in past /\ ~(p < p)
    BY <1>1, <1>4
  <2> QED BY <2>1
<1> HIDE DEF past
<1>5. {p \in first..cap : \A q \in past : p < q} = {p \in first..cap : ~PastPosition(level, p, position)}
  BY <1>3, <1>4
<1> QED BY <1>2, <1>5 DEF cap

LEMMA RoutesBetween ==
  ASSUME NEW levels \in Nat, NEW prior \in Nat, NEW high \in Nat
  PROVE  ScheduleExtension(levels, prior, high)
           = {r \in ((0..(levels - 1)) \X (1..UniformSearchCap)) \ {<<0, 1>>} :
                PastPosition(r[1], r[2], prior) /\ ~PastPosition(r[1], r[2], high)}
<1> DEFINE cap == UniformSearchCap
           after(l) == FirstProbeAfter(l, prior)
           start(l) == IF l = 0 /\ after(l) = 1 THEN 2 ELSE after(l)
           probes(l) == ProbesUpTo(l, start(l), high)
           E == UNION {{l} \X probes(l) : l \in 0..(levels - 1)}
           T == {r \in ((0..(levels - 1)) \X (1..cap)) \ {<<0, 1>>} :
                   PastPosition(r[1], r[2], prior) /\ ~PastPosition(r[1], r[2], high)}
<1>1. cap \in Nat
  BY EncodingAssumption
<1>2. ScheduleExtension(levels, prior, high) = E
  BY Zenon DEF ScheduleExtension
<1>3. ASSUME NEW l \in 0..(levels - 1), NEW p
      PROVE  p \in probes(l) <=> /\ p \in 1..cap /\ <<l, p>> # <<0, 1>>
                                 /\ PastPosition(l, p, prior) /\ ~PastPosition(l, p, high)
  <2>1. l \in Nat
    OBVIOUS
  <2>2. /\ after(l) \in 1..(cap + 1)
        /\ \A q \in 1..cap : PastPosition(l, q, prior) <=> q >= after(l)
    BY <2>1, SearchFinds
  <2> HIDE DEF after
  <2>3. start(l) \in Nat \ {0} /\ start(l) >= after(l)
    BY <1>1, <2>2
  <2>4. probes(l) = {q \in start(l)..cap : ~PastPosition(l, q, high)}
    <3> HIDE DEF start
    <3> QED BY <2>1, <2>3, ProbesAre
  <2>5. p \in start(l)..cap <=> p \in 1..cap /\ p >= after(l) /\ <<l, p>> # <<0, 1>>
    <3>1. CASE l = 0 /\ after(l) = 1
      BY <1>1, <3>1
    <3>2. CASE l # 0
      BY <1>1, <2>2, <3>2
    <3>3. CASE l = 0 /\ after(l) # 1
      BY <1>1, <2>2, <3>3
    <3> QED BY <3>1, <3>2, <3>3
  <2> HIDE DEF start, probes
  <2> QED BY <2>2, <2>4, <2>5
<1> HIDE DEF probes
<1>4. ASSUME NEW r \in E PROVE r \in T
  <2>1. PICK l \in 0..(levels - 1) : r \in {l} \X probes(l)
    OBVIOUS
  <2>2. PICK p \in probes(l) : r = <<l, p>>
    BY <2>1
  <2>3. r[1] = l /\ r[2] = p
    BY <2>2
  <2> QED BY <1>3, <2>2, <2>3
<1>5. ASSUME NEW r \in T PROVE r \in E
  <2>1. PICK l \in 0..(levels - 1), p \in 1..cap : r = <<l, p>>
    OBVIOUS
  <2>2. r[1] = l /\ r[2] = p /\ r # <<0, 1>> /\ PastPosition(r[1], r[2], prior) /\ ~PastPosition(r[1], r[2], high)
    BY <2>1
  <2>3. p \in probes(l)
    BY <1>3, <2>1, <2>2
  <2> QED BY <2>1, <2>3
<1> HIDE DEF E, T
<1>6. E = T
  BY <1>4, <1>5
<1> QED BY <1>2, <1>6 DEF T, cap

LEMMA LevelLimit ==
  ASSUME NEW level \in Nat
  PROVE  LevelProbeLimit(level) = FirstProbeAfter(level, QueryPositionCap) - 1
<1> DEFINE cap == UniformSearchCap
           first == FirstProbeAfter(level, QueryPositionCap)
<1>1. cap \in Nat /\ QueryPositionCap \in Nat
  BY EncodingAssumption
<1>2. /\ first \in 1..(cap + 1)
      /\ \A p \in 1..cap : PastPosition(level, p, QueryPositionCap) <=> p >= first
  BY <1>1, SearchFinds
<1>3. ProbesUpTo(level, 1, QueryPositionCap) = {p \in 1..cap : ~PastPosition(level, p, QueryPositionCap)}
  BY <1>1, ProbesAre
<1> HIDE DEF first, cap
<1>4. {p \in 1..cap : ~PastPosition(level, p, QueryPositionCap)} = 1..(first - 1)
  BY <1>1, <1>2
<1>5. Cardinality(1..(first - 1)) = first - 1
  <2> DEFINE m == first - 1
  <2>1. m \in Nat /\ 1 \in Int
    BY <1>1, <1>2
  <2> HIDE DEF m
  <2>2. Cardinality(1..m) = IF 1 > m THEN 0 ELSE m - 1 + 1
    BY <2>1, FS_Interval
  <2>3. Cardinality(1..m) = m
    BY <2>1, <2>2
  <2> QED BY <2>3 DEF m
<1> QED BY <1>3, <1>4, <1>5 DEF LevelProbeLimit, first

LEMMA LevelFits ==
  ASSUME NEW level \in 0..31
  PROVE  /\ LevelProbeLimit(level) \in 1..QueryProbeLimit
         /\ LevelProbeLimit(level) <= LevelProbeLimit(0)
         /\ PastPosition(level, LevelProbeLimit(level) + 1, QueryPositionCap)
<1> DEFINE cap == UniformSearchCap
           pos == QueryPositionCap
           lim == QueryProbeLimit
           f == FirstProbeAfter(level, pos)
           g == FirstProbeAfter(0, pos)
<1>1. cap \in Nat /\ pos \in Nat /\ lim \in Nat /\ lim < cap /\ 0 \in Nat /\ level \in Nat
  BY EncodingAssumption, QueryAssumption
<1>2. /\ f \in 1..(cap + 1) /\ \A p \in 1..cap : PastPosition(level, p, pos) <=> p >= f
      /\ g \in 1..(cap + 1) /\ \A p \in 1..cap : PastPosition(0, p, pos) <=> p >= g
  BY <1>1, SearchFinds
<1>3. LevelProbeLimit(level) = f - 1 /\ LevelProbeLimit(0) = g - 1
  BY <1>1, LevelLimit
<1>4. PastPosition(0, lim + 1, pos)
  BY QueryAssumption DEF PastPosition
<1>5. ASSUME NEW p \in Nat, PastPosition(0, p, pos) PROVE PastPosition(level, p, pos)
  <2>1. 0 + 1 \in Nat /\ level + 1 \in Nat /\ 0 + 1 <= level + 1
    OBVIOUS
  <2>2. ElasticPhi(0 + 1, p) <= ElasticPhi(level + 1, p)
    BY <2>1, PhiGrowsByLevel
  <2>3. ElasticPhi(0 + 1, p) \in Nat /\ ElasticPhi(level + 1, p) \in Nat
    BY <2>1, PhiWidth
  <2> QED BY <1>1, <1>5, <2>2, <2>3 DEF PastPosition
<1>6. ~PastPosition(level, 1, pos)
  <2>1. level + 1 \in Nat /\ 32 \in Nat /\ level + 1 <= 32 /\ 1 \in Nat
    OBVIOUS
  <2>2. ElasticPhi(level + 1, 1) <= ElasticPhi(32, 1)
    BY <2>1, PhiGrowsByLevel
  <2>3. ElasticPhi(level + 1, 1) \in Nat /\ ElasticPhi(32, 1) \in Nat
    BY <2>1, PhiWidth
  <2> QED BY <1>1, <2>2, <2>3, QueryAssumption DEF PastPosition
<1> HIDE DEF cap, pos, lim, f, g
<1>7. lim + 1 \in 1..cap /\ 1 \in 1..cap /\ lim + 1 \in Nat
  BY <1>1
<1>8. g <= lim + 1 /\ f # 1
  BY <1>1, <1>2, <1>4, <1>6, <1>7
<1>9. g \in 1..cap
  BY <1>1, <1>2, <1>7, <1>8
<1>10. f <= g
  <2>1. PastPosition(level, g, pos)
    BY <1>1, <1>2, <1>5, <1>9
  <2> QED BY <1>1, <1>2, <1>9, <2>1
<1>11. f \in 1..cap /\ PastPosition(level, f, pos)
  BY <1>1, <1>2, <1>9, <1>10
<1>12. f - 1 \in 1..lim /\ f - 1 <= g - 1 /\ (f - 1) + 1 = f
  BY <1>1, <1>2, <1>8, <1>9, <1>10
<1> QED BY <1>3, <1>11, <1>12 DEF pos, lim

------------------------------------------------------------------------------
(* The theorems.                                                           *)

(* A question is one of its kind's inputs. *)
QuestionInv == kind \in DOMAIN Inputs /\ (input = <<>> \/ input \in Inputs[kind])

LEMMA QuestionsAreInputs == Spec => []QuestionInv
<1>1. Init => QuestionInv
  BY DEF Init, QuestionInv
<1>2. QuestionInv /\ [Next]_vars => QuestionInv'
  BY DEF QuestionInv, Next, Ask, Done, vars
<1> QED BY <1>1, <1>2, PTL DEF Spec

LEMMA Questions ==
  ASSUME QuestionInv
  PROVE  /\ Asked("capacity") => input \in Usize \X (Nat \ {0})
         /\ Asked("budget") => input \in Usize \X Usize \X Nat /\ 0 < input[1] /\ input[1] <= input[2]
         /\ Asked("range") => \E u \in RandomWord \ {0} : input = <<u>>
         /\ Asked("elastic") => input \in (Usize \ {0, 1}) \X (Nat \ {0})
BY InputAssumption DEF QuestionInv, Asked

LEMMA CapacityAnswer ==
  QuestionInv => CapacityIsSmallest
<1> SUFFICES ASSUME QuestionInv, Asked("capacity")
             PROVE  CapacityIsSmallest
  BY DEF CapacityIsSmallest
<1> DEFINE needed == input[1]
           d == input[2]
<1>1. needed \in Usize /\ d \in Nat \ {0}
  BY Questions
<1> HIDE DEF needed, d
<1>2. \A n \in Usize :
        InsertionLimit(n, d) >= needed <=> \E c \in ExactCapacityFor(needed, d) : n >= c
  BY <1>1, ExactCovers
<1>3. ASSUME NEW start \in 1..16
      PROVE  CapacityFor(start, needed, d) =
               Least({start * Pow2[k] : k \in 0..UsizeBits}
                       \cap {n \in Usize : \E c \in ExactCapacityFor(needed, d) : n >= c})
  <2>1. start \in Nat /\ start > 0
    OBVIOUS
  <2> QED BY <1>1, <2>1, DoublingIsLeast
<1> QED BY <1>2, <1>3, Zenon DEF CapacityIsSmallest, needed, d

(* exact_capacity_for and capacity_for answer the smallest capacity that
   admits a request, for every width of usize and every reserve. *)
THEOREM CapacityIsSmallestHolds == Spec => []CapacityIsSmallest
BY QuestionsAreInputs, CapacityAnswer, PTL

LEMMA BudgetAnswer ==
  QuestionInv => BudgetIsDyadic
<1> SUFFICES ASSUME QuestionInv, Asked("budget")
             PROVE  BudgetIsDyadic
  BY DEF BudgetIsDyadic
<1> DEFINE f == input[1]
           s == input[2]
           d == input[3]
           k == BitLength((s + f - 1) \div f - 1)
<1>1. s \in Usize /\ f \in Nat /\ 0 < f /\ f <= s
  BY Questions, UsizeFacts
<1> HIDE DEF f, s, d
<1>2. k \in Least({j \in 0..UsizeBits : Pow2[j] * f >= s})
  BY <1>1, BudgetLogarithm
<1>3. ElasticProbeBudget(f, s, d) = ProbeFactor * (IF k * k < d THEN k * k ELSE d)
  BY DEF ElasticProbeBudget
<1> QED BY <1>2, <1>3, Zenon DEF BudgetIsDyadic, f, s, d

(* The probe budget of a batch is the paper's, for every level and reserve. *)
THEOREM BudgetIsDyadicHolds == Spec => []BudgetIsDyadic
BY QuestionsAreInputs, BudgetAnswer, PTL

LEMMA ReductionAnswer ==
  QuestionInv => ReductionIsUnbiased
<1> SUFFICES ASSUME QuestionInv, Asked("range")
             PROVE  ReductionIsUnbiased
  BY DEF ReductionIsUnbiased
<1> DEFINE u == input[1]
<1>1. u \in Nat /\ u > 0 /\ u < Words
  <2>1. Words \in Nat
    BY WordBitsAssumption, Pow2Positive DEF Words
  <2> QED BY <2>1, Questions DEF RandomWord
<1> HIDE DEF u
<1>2. \A x \in 0..(u - 1) :
        Cardinality({w \in RandomWord : Accepts(w, u) /\ High(w, u) = x}) = Words \div u
  BY <1>1, EqualShares
<1>3. \A w, v \in RandomWord : ElasticReduce(<<w, v>>, u) = ReduceWords(<<w, v>>, u)
  BY <1>1, ElasticLoop
<1>4. ASSUME NEW w \in RandomWord, NEW v \in RandomWord
      PROVE  FunnelReduce(<<w, v>>, u) = ReduceWords(<<w, v>>, u)
  <2>1. u # 0
    BY <1>1
  <2> QED BY <2>1, FunnelLoop, Zenon
<1> QED BY <1>2, <1>3, <1>4, Zenon DEF ReductionIsUnbiased, u

(* The reduction of random words is unbiased and the same for both tables, for
   every width of a word and every bound. *)
THEOREM ReductionIsUnbiasedHolds == Spec => []ReductionIsUnbiased
BY QuestionsAreInputs, ReductionAnswer, PTL

LEMMA PlanAnswer ==
  QuestionInv => ElasticPlanIsSound
<1> SUFFICES ASSUME QuestionInv, Asked("elastic")
             PROVE  ElasticPlanIsSound
  BY DEF ElasticPlanIsSound
<1> DEFINE n == input[1]
           d == input[2]
           lengths == LevelLengths(n)
           quotas == BatchQuotas(n, d)
<1>1. n \in Nat /\ n > 1 /\ d \in Nat \ {0}
  BY Questions, UsizeFacts
<1> HIDE DEF n, d
<1>2. Len(lengths) = CeilLog2(n)
  BY <1>1, LengthFacts DEF LevelCount
<1>3. Total(lengths) = n /\ Total(quotas) = InsertionLimit(n, d)
  BY <1>1, QuotasSpendLimit
<1>4. \A i \in 1..Len(quotas) : Total(SubSeq(quotas, 1, i)) <= Total(SubSeq(lengths, 1, i))
  BY <1>1, QuotasSpendLimit
<1>5. ASSUME NEW i \in 1..(Len(lengths) - 1)
      PROVE  /\ lengths[i + 1] > 0
             /\ 2 * lengths[i + 1] - lengths[i] \in -2..2
             /\ lengths[i] - FloorHalfReserved(lengths[i], d) >= CeilThreeQuarters(lengths[i])
  <2>1. i \in 1..(LevelCount(n) - 1)
    BY <1>2 DEF LevelCount
  <2> HIDE DEF lengths
  <2>2. lengths[i] \in Nat /\ lengths[i + 1] > 0 /\ 2 * lengths[i + 1] - lengths[i] \in -2..2
    BY <1>1, <2>1, NeighbouringLevels DEF lengths
  <2>3. lengths[i] - FloorHalfReserved(lengths[i], d) >= CeilThreeQuarters(lengths[i])
    BY <1>1, <2>2, HalfReserve
  <2> QED BY <2>2, <2>3
<1> QED BY <1>2, <1>3, <1>4, <1>5, Zenon DEF ElasticPlanIsSound, n, d

(* The levels and batches of an Elastic table fit together, for every number
   of slots and every reserve. *)
THEOREM ElasticPlanIsSoundHolds == Spec => []ElasticPlanIsSound
BY QuestionsAreInputs, PlanAnswer, PTL

LEMMA WordAnswer ==
  ASSUME NEW e \in Epoch
  PROVE  LET w == Pack(e)
         IN  /\ w = Fields(e.generation, e.recoveries, Code(e.transition), e.hadDelete)
             /\ Unpack(w, e.deletions) = e
             /\ NoteDeleteWord(w) = Pack(NoteDelete(e))
             /\ NoteRecoveryWord(w) = Pack(NotePlacementRecovery(e))
             /\ \A t \in Transition : StartWord(w, t) = Pack(StartOf(e, t))
<1> DEFINE w == Pack(e)
           g == e.generation
           r == e.recoveries
           c == Code(e.transition)
           h == e.hadDelete
<1>1. /\ g \in 0..GenMax /\ r \in 0..RecMax /\ h \in BOOLEAN /\ e.transition \in Transition
      /\ e = [generation |-> g, recoveries |-> r, deletions |-> e.deletions,
              hadDelete |-> h, transition |-> e.transition]
  BY DEF Epoch
<1>2. c \in 0..5 /\ TransitionFromBits(c) = e.transition
  BY <1>1, Codes
<1>3. w = Fields(g, r, c, h)
  BY DEF Pack, Fields
<1> HIDE DEF w, g, r, c, h
<1>4. /\ Generation(w) = g /\ Recoveries(w) = r
      /\ Number(ShiftRight(w \cap TransitionMask, TransitionShift)) = c
      /\ w \cap HadDeleteMask # {} <=> h
      /\ w \cap RecoveryMask = ShiftLeft(Ones(r), RecoveryShift)
      /\ w \ RecoveryMask = Fields(g, 0, c, h)
  <2>1. HasFields(Fields(g, r, c, h), g, r, c, h)
    BY <1>1, <1>2, FieldLanes
  <2>2. HasFields(w, g, r, c, h)
    BY <1>3, <2>1
  <2> QED BY <2>2, Zenon DEF HasFields
<1>5. Unpack(w, e.deletions) = e
  <2>1. (w \cap HadDeleteMask # {}) = h
    BY <1>1, <1>4
  <2> QED BY <1>1, <1>2, <1>4, <2>1, Zenon DEF Unpack
<1>6. NoteDeleteWord(w) = Pack(NoteDelete(e))
  <2>1. Pack(NoteDelete(e)) = Fields(g, r, c, TRUE)
    BY DEF NoteDelete, Pack, Fields, Epoch, g, r, c
  <2>2. Fields(g, r, c, h) \cup HadDeleteMask = Fields(g, r, c, TRUE)
    BY <1>1 DEF Fields
  <2> QED BY <1>3, <2>1, <2>2 DEF NoteDeleteWord
<1>7. NoteRecoveryWord(w) = Pack(NotePlacementRecovery(e))
  <2> DEFINE s == SaturatingSucc(r, RecMax)
  <2>1. Pack(NotePlacementRecovery(e)) = Fields(g, s, c, h)
    BY DEF NotePlacementRecovery, Pack, Fields, Epoch, g, r, c, h
  <2>2. Fields(g, 0, c, h) \cup ShiftLeft(Ones(s), RecoveryShift) = Fields(g, s, c, h)
    <3>1. ShiftLeft(Ones(0), RecoveryShift) = {}
      <4>1. 0 \in Nat /\ 0 < Pow2[0]
        BY Pow2Def
      <4>2. Ones(0) \subseteq 0..(0 - 1)
        BY <4>1, OnesAre
      <4>3. 0..(0 - 1) = {}
        OBVIOUS
      <4> QED BY <4>2, <4>3 DEF ShiftLeft
    <3> QED BY <3>1 DEF Fields
  <2> HIDE DEF s
  <2> QED BY <1>4, <2>1, <2>2 DEF NoteRecoveryWord, s
<1>8. ASSUME NEW t \in Transition PROVE StartWord(w, t) = Pack(StartOf(e, t))
  <2>1. Pack(StartOf(e, t)) = Fields(SaturatingSucc(g, GenMax), r, Code(t), FALSE)
    BY DEF StartOf, Pack, Fields, g, r
  <2>2. StartWord(w, t) = Fields(SaturatingSucc(g, GenMax), r, Code(t), FALSE)
    BY <1>4 DEF StartWord, Fields
  <2> QED BY <2>1, <2>2
<1> QED BY <1>3, <1>5, <1>6, <1>7, <1>8 DEF w, g, r, c, h

LEMMA EpochAnswer ==
  QuestionInv => WordIsEpoch
<1> SUFFICES ASSUME QuestionInv, Asked("epoch")
             PROVE  WordIsEpoch
  BY DEF WordIsEpoch
<1> DEFINE e == input
<1>1. e \in Epoch
  BY InputAssumption DEF QuestionInv, Asked
<1> HIDE DEF e
<1> DEFINE w == Pack(e)
           p == NotePlacementRecovery(e)
<1>2. Unpack(w, e.deletions) = e
  BY <1>1, WordAnswer
<1>3. Unpack(NoteDeleteWord(w), SaturatingSucc(e.deletions, DelMax)) = NoteDelete(e)
  BY <1>1, WordAnswer, EpochsStayEpochs
<1>4. p \in Epoch /\ p.deletions = e.deletions /\ NoteRecoveryWord(w) = Pack(p)
  BY <1>1, WordAnswer, EpochsStayEpochs
<1>5. Unpack(NoteRecoveryWord(w), e.deletions) = NotePlacementRecovery(e)
  <2>1. Unpack(Pack(p), p.deletions) = p
    BY <1>4, WordAnswer
  <2> QED BY <1>4, <2>1
<1>6. ASSUME NEW f \in Epoch, NEW t \in Transition PROVE Unpack(StartWord(Pack(f), t), 0) = StartOf(f, t)
  <2>1. StartWord(Pack(f), t) = Pack(StartOf(f, t))
    BY WordAnswer
  <2>2. StartOf(f, t) \in Epoch /\ StartOf(f, t).deletions = 0
    BY EpochsStayEpochs
  <2>3. Unpack(Pack(StartOf(f, t)), StartOf(f, t).deletions) = StartOf(f, t)
    BY <2>2, WordAnswer
  <2> QED BY <2>1, <2>2, <2>3
<1>7. ASSUME NEW t \in Transition
      PROVE  /\ Unpack(StartWord(w, t), 0) = StartOf(e, t)
             /\ Unpack(StartWord(NoteRecoveryWord(w), t), 0) = StartWithPlacementRecovery(e, t)
  BY <1>1, <1>4, <1>6 DEF StartWithPlacementRecovery
<1> HIDE DEF p
<1> QED BY <1>2, <1>3, <1>5, <1>7, Zenon DEF WordIsEpoch, e

(* The lifecycle word is the epoch, for every width of its lanes. *)
THEOREM WordIsEpochHolds == Spec => []WordIsEpoch
BY QuestionsAreInputs, EpochAnswer, PTL

LEMMA CounterAnswer ==
  QuestionInv => CountersAreDistinct
<1> SUFFICES ASSUME QuestionInv, Asked("counter")
             PROVE  CountersAreDistinct
  BY DEF CountersAreDistinct
<1> DEFINE level == input[1]
           logical == input[2]
           retry == input[3]
<1>1. level \in Nat /\ logical \in Nat /\ retry \in Nat
  <2>1. input \in Nat \X Nat \X Nat
    BY InputAssumption DEF QuestionInv, Asked
  <2> QED BY <2>1
<1> HIDE DEF level, logical, retry
<1>2. ElasticCounter(level, logical, retry) # {} <=> level < 32 /\ logical < 8192 /\ retry < 8
  <2>1. ElasticCounter(level, logical, retry) # {}
           <=> ~(level >= 32 \/ logical >= 8192 \/ retry >= 8)
    <3> DEFINE W == ShiftLeft(Ones(level), 16) \cup ShiftLeft(Ones(logical), 3) \cup Ones(retry)
    <3>1. ElasticCounter(level, logical, retry) =
            IF level >= Pow2[5] \/ logical >= Pow2[13] \/ retry >= Pow2[3] THEN {} ELSE {W}
      BY Zenon DEF ElasticCounter
    <3> HIDE DEF W
    <3> QED BY <3>1, SmallPowers
  <2> QED BY <1>1, <2>1
<1>3. \A c \in ElasticCounter(level, logical, retry) :
        ElasticCounterLevel(c) = level /\ Lane(c, 3, 13) = logical /\ Lane(c, 0, 3) = retry
  BY <1>1, ElasticCounterLanes
<1>4. ASSUME NEW domain \in FunnelDomain, NEW other \in FunnelDomain,
             NEW c \in FunnelCounter(domain, level, logical, retry)
      PROVE  /\ Lane(c, 8, 8) = logical /\ Lane(c, 0, 8) = retry
             /\ domain = "ordinary" => Lane(c, 16, FunnelLevelBits) = level
             /\ c \in FunnelCounter(other, level, logical, retry) => domain = other
  <2>1. /\ Lane(c, 8, 8) = logical /\ Lane(c, 0, 8) = retry
        /\ domain = "ordinary" => Lane(c, 16, FunnelLevelBits) = level
    BY <1>1, FunnelCounterLanes
  <2>2. ASSUME c \in FunnelCounter(other, level, logical, retry) PROVE domain = other
    <3>1. Tag[domain] = Tag[other]
      <4>1. Lane(c, 16 + FunnelLevelBits, 2) = Tag[domain]
        BY <1>1, FunnelCounterLanes
      <4>2. Lane(c, 16 + FunnelLevelBits, 2) = Tag[other]
        BY <1>1, <2>2, FunnelCounterLanes
      <4> QED BY <4>1, <4>2
    <3> QED BY <3>1 DEF Tag, FunnelDomain
  <2> QED BY <2>1, <2>2
<1>5. \A domain, other \in FunnelDomain :
        \A c \in FunnelCounter(domain, level, logical, retry) :
          /\ Lane(c, 8, 8) = logical /\ Lane(c, 0, 8) = retry
          /\ domain = "ordinary" => Lane(c, 16, FunnelLevelBits) = level
          /\ c \in FunnelCounter(other, level, logical, retry) => domain = other
  BY <1>4, Zenon
<1> QED BY <1>2, <1>3, <1>5, Zenon DEF CountersAreDistinct, level, logical, retry

(* No two requests draw the same word, for every level, probe and retry. *)
THEOREM CountersAreDistinctHolds == Spec => []CountersAreDistinct
BY QuestionsAreInputs, CounterAnswer, PTL

LEMMA PhiAnswer ==
  QuestionInv => PhiIsPairing
<1> SUFFICES ASSUME QuestionInv, Asked("phi") PROVE PhiIsPairing
  BY DEF PhiIsPairing
<1> DEFINE i == input[1]
           j == input[2]
           code == ElasticPhiChecked(i, j)
           phi == ElasticPhi(i, j)
<1>1. i \in Nat /\ j \in Nat
  <2>1. input \in Nat \X Nat
    BY InputAssumption DEF QuestionInv, Asked
  <2> QED BY <2>1
<1> HIDE DEF i, j
<1>2. ElasticPhiBounded(i, j) = {e \in code : j < Pow2[JBits] /\ e < Pow2[EncodedBits]}
  BY <1>1, BoundedAgrees
<1>3. i = 0 \/ j = 0 => code = {}
  BY DEF ElasticPhiChecked
<1>4. ASSUME i # 0, j # 0
      PROVE  /\ code = Fit(phi) /\ phi \in Nat
             /\ \A k \in Nat : phi < Pow2[k] <=> PhiLength(i, j) <= k
             /\ phi < 16 * i * j * j /\ j + 1 \in Nat
             /\ ElasticPhiChecked(i, j + 1) = Fit(ElasticPhi(i, j + 1))
             /\ phi < ElasticPhi(i, j + 1)
  <2>1. j + 1 \in Nat /\ j + 1 # 0 /\ j < j + 1
    BY <1>1
  <2>2. code = Fit(phi) /\ ElasticPhiChecked(i, j + 1) = Fit(ElasticPhi(i, j + 1))
    BY <1>1, <1>4, <2>1, CheckedFits
  <2>3. phi \in Nat /\ Width(phi, PhiLength(i, j))
    BY <1>1, <1>4, PhiWidth
  <2>4. phi < 16 * i * j * j /\ phi < ElasticPhi(i, j + 1)
    BY <1>1, <1>4, <2>1, PhiBounded, PhiGrows
  <2> HIDE DEF phi, code
  <2>5. \A k \in Nat : phi < Pow2[k] <=> PhiLength(i, j) <= k
    BY <2>3, WidthLeast
  <2> QED BY <2>1, <2>2, <2>3, <2>4, <2>5
<1>5. code = {} <=> i = 0 \/ j = 0 \/ 2 * BitLength(j) + 1 + BitLength(i) > PhiBits
  <2>1. CASE i = 0 \/ j = 0
    BY <1>3, <2>1
  <2>2. CASE i # 0 /\ j # 0
    <3> DEFINE l == PhiLength(i, j)
    <3>1. l \in Nat /\ PhiBits \in Nat
      BY <1>1, PhiWidth, EncodingAssumption
    <3>2. phi < Pow2[PhiBits] <=> l <= PhiBits
      BY <1>4, <2>2, <3>1
    <3>3. code = {} <=> ~(phi < Pow2[PhiBits])
      BY <1>4, <2>2 DEF Fit
    <3>4. l = 2 * BitLength(j) + 1 + BitLength(i)
      BY DEF PhiLength
    <3> HIDE DEF l, code, phi
    <3>5. code = {} <=> l > PhiBits
      BY <3>1, <3>2, <3>3
    <3> QED BY <2>2, <3>4, <3>5
  <2> QED BY <2>1, <2>2
<1>6. ASSUME NEW e \in code
      PROVE  /\ e = ElasticPhi(i, j) /\ e < 16 * i * j * j
             /\ ElasticPhiInverse(e) = {<<i, j>>}
             /\ \A f \in ElasticPhiChecked(i, j + 1) : e < f
  <2>1. i # 0 /\ j # 0
    BY <1>3
  <2>2. e = phi
    BY <1>4, <2>1 DEF Fit
  <2>3. ElasticPhiInverse(e) = {<<i, j>>}
    BY <1>1, <2>1, DecodedAgain
  <2>4. \A f \in ElasticPhiChecked(i, j + 1) : f = ElasticPhi(i, j + 1)
    BY <1>4, <2>1 DEF Fit
  <2> QED BY <1>4, <2>1, <2>2, <2>3, <2>4
<1> HIDE DEF phi
<1> QED BY <1>2, <1>5, <1>6, Zenon DEF PhiIsPairing, i, j, code

(* No two probes share a position: each encoder of phi answers the paper's
   code wherever it fits, and the decoder finds the pair again, for codes of
   any width. *)
THEOREM PhiIsPairingHolds == Spec => []PhiIsPairing
BY QuestionsAreInputs, PhiAnswer, PTL

LEMMA RoutesAnswer ==
  QuestionInv => RoutesArePaperPrefix
<1> SUFFICES ASSUME QuestionInv PROVE RoutesArePaperPrefix
  OBVIOUS
<1>1. ASSUME Asked("schedule")
      PROVE  ScheduleExtension(input[1], input[2], input[3]) =
               {r \in ((0..(input[1] - 1)) \X (1..UniformSearchCap)) \ {<<0, 1>>} :
                  ElasticPhi(r[1] + 1, r[2]) > input[2] /\ ElasticPhi(r[1] + 1, r[2]) <= input[3]}
  <2> DEFINE levels == input[1]
             prior == input[2]
             high == input[3]
             R == ((0..(levels - 1)) \X (1..UniformSearchCap)) \ {<<0, 1>>}
  <2>1. levels \in Nat /\ prior \in Nat /\ high \in Nat
    <3>1. input \in Nat \X Nat \X Nat
      BY <1>1, InputAssumption DEF QuestionInv, Asked
    <3> QED BY <3>1
  <2> HIDE DEF levels, prior, high
  <2>2. ScheduleExtension(levels, prior, high) =
          {r \in R : PastPosition(r[1], r[2], prior) /\ ~PastPosition(r[1], r[2], high)}
    BY <2>1, RoutesBetween
  <2>3. ASSUME NEW r \in R
        PROVE  /\ PastPosition(r[1], r[2], prior) <=> ElasticPhi(r[1] + 1, r[2]) > prior
               /\ ~PastPosition(r[1], r[2], high) <=> ElasticPhi(r[1] + 1, r[2]) <= high
    <3>1. r[1] + 1 \in Nat /\ r[2] \in Nat
      BY EncodingAssumption, <2>1
    <3>2. ElasticPhi(r[1] + 1, r[2]) \in Nat
      BY <3>1, PhiWidth
    <3> QED BY <2>1, <3>2 DEF PastPosition
  <2> HIDE DEF R
  <2>4. ScheduleExtension(levels, prior, high) =
          {r \in R : ElasticPhi(r[1] + 1, r[2]) > prior /\ ElasticPhi(r[1] + 1, r[2]) <= high}
    BY <2>2, <2>3
  <2> QED BY <2>4 DEF R, levels, prior, high
<1>2. ASSUME Asked("level")
      PROVE  LET level == input[1]
                 last  == LevelProbeLimit(level)
             IN  /\ last <= QueryProbeLimit /\ last <= LevelProbeLimit(0)
                 /\ last = FirstProbeAfter(level, QueryPositionCap) - 1
                 /\ ElasticPhi(level + 1, last + 1) > QueryPositionCap
                 /\ ElasticCounter(level, last - 1, 7) # {}
  <2> DEFINE level == input[1]
             last  == LevelProbeLimit(level)
  <2>1. level \in 0..31
    <3>1. \E l \in 0..31 : input = <<l>>
      BY <1>2, InputAssumption DEF QuestionInv, Asked
    <3> QED BY <3>1
  <2> HIDE DEF level
  <2>2. /\ last \in 1..QueryProbeLimit /\ last <= LevelProbeLimit(0)
        /\ PastPosition(level, last + 1, QueryPositionCap)
    BY <2>1, LevelFits
  <2>3. last = FirstProbeAfter(level, QueryPositionCap) - 1
    BY <2>1, LevelLimit
  <2> HIDE DEF last
  <2>4. ElasticCounter(level, last - 1, 7) # {}
    <3>1. ~(level >= Pow2[5] \/ last - 1 >= Pow2[13] \/ 7 >= Pow2[3])
      BY <2>1, <2>2, SmallPowers, EncodingAssumption, QueryAssumption
    <3> QED BY <3>1 DEF ElasticCounter
  <2>5. ElasticPhi(level + 1, last + 1) > QueryPositionCap /\ last <= QueryProbeLimit
    BY <2>2, EncodingAssumption DEF PastPosition
  <2> QED BY <2>2, <2>3, <2>4, <2>5 DEF last, level
<1> QED BY <1>1, <1>2, Zenon DEF RoutesArePaperPrefix

(* The probe schedule is the same prefix of the paper's order however it was
   extended, and a query's limits fit its levels and its counters, for every
   cap on probes and positions that fit each other. *)
THEOREM RoutesArePaperPrefixHolds == Spec => []RoutesArePaperPrefix
BY QuestionsAreInputs, RoutesAnswer, PTL
==============================================================================
