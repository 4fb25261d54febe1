-------------------------- MODULE FunnelPlans_proofs --------------------------
(***************************************************************************)
(* Theorems about FunnelPlans: the Funnel plan of every size and reserve,  *)
(* for every width of usize and all bounds on slots, buckets and levels.   *)
(*                                                                         *)
(* The sums that so many levels can have from a first count are an         *)
(* interval: from the smallest path to the largest.  Neighbouring first    *)
(* counts leave no gap between their intervals, so that the searches of    *)
(* the code, which look at the ends only, miss no path.                    *)
(***************************************************************************)
EXTENDS FunnelPlans, Arithmetic_proofs

------------------------------------------------------------------------------
(* Loops.                                                                  *)

(* What a loop holds starts as first and is turned once per turn. *)
LEMMA LoopTurns ==
  ASSUME NEW A, NEW first \in A, NEW turn \in [A -> A]
  PROVE  LET held == LoopAfter(turn, first)
         IN  /\ held \in [Nat -> A]
             /\ held[0] = first
             /\ \A k \in Nat : held[k + 1] = turn[held[k]]
<1> DEFINE Is(f) == f = [k \in Nat |-> IF k = 0 THEN first ELSE turn[f[k - 1]]]
           held == CHOOSE f : Is(f)
<1>1. PICK h \in [Nat -> A] : Iterates(h, first, turn)
  BY IteratesExist, Zenon
<1>2. h[0] = first /\ \A i \in Nat : h[i + 1] = turn[h[i]]
  BY <1>1 DEF Iterates
<1>3. ASSUME NEW k \in Nat PROVE h[k] = IF k = 0 THEN first ELSE turn[h[k - 1]]
  <2>1. CASE k = 0
    BY <1>2, <2>1
  <2>2. CASE k # 0
    <3>1. k - 1 \in Nat /\ (k - 1) + 1 = k
      BY <2>2
    <3>2. h[k] = turn[h[k - 1]]
      BY <1>2, <3>1
    <3> QED BY <2>2, <3>2
  <2> QED BY <2>1, <2>2
<1>4. Is(h)
  BY <1>3
<1>5. Is(held)
  BY <1>4, Zenon
<1>6. LoopAfter(turn, first) = held
  BY Zenon DEF LoopAfter
<1> HIDE DEF held
<1>7. \A k \in Nat : held[k] = IF k = 0 THEN first ELSE turn[held[k - 1]]
  BY <1>5
<1>8. held[0] = first
  BY <1>7
<1>9. \A k \in Nat : held[k + 1] = turn[held[k]]
  <2> TAKE k \in Nat
  <2>1. k + 1 \in Nat /\ k + 1 # 0 /\ (k + 1) - 1 = k
    OBVIOUS
  <2>2. held[k + 1] = IF k + 1 = 0 THEN first ELSE turn[held[(k + 1) - 1]]
    BY <1>7, <2>1
  <2> QED BY <2>1, <2>2
<1>10. \A k \in Nat : held[k] \in A
  <2> DEFINE S == {k \in Nat : held[k] \in A}
  <2>1. 0 \in S
    BY <1>8
  <2>2. \A k \in Nat : k \in S => k + 1 \in S
    BY <1>9
  <2> HIDE DEF S
  <2>3. \A k \in Nat : k \in S
    BY <2>1, <2>2, NaturalInduction, Zenon
  <2> QED BY <2>3 DEF S
<1>11. held = [k \in Nat |-> held[k]]
  BY <1>5
<1>12. held \in [Nat -> A]
  BY <1>10, <1>11
<1> QED BY <1>6, <1>8, <1>9, <1>12

------------------------------------------------------------------------------
(* The ordinary buckets.                                                   *)

(* The levels after one with c have between MinNext(c) and MaxNext(c). *)
LEMMA NextCounts ==
  ASSUME NEW c \in Nat, c > 0
  PROVE  /\ MinNext(c) \in 1..c /\ MaxNext(c) \in 1..c /\ MinNext(c) <= MaxNext(c)
         /\ Adjacent(c) = MinNext(c)..MaxNext(c)
         /\ MinNext(c) <= MinNext(c + 1) /\ MaxNext(c) <= MaxNext(c + 1)
         /\ MinNext(c + 1) <= MaxNext(c)
<1> DEFINE q == c \div 4
           r == c % 4
<1>1. q \in Nat /\ r \in 0..3 /\ c = 4 * q + r
  OBVIOUS
<1>2. MinNext(c) = IF c - q <= 1 THEN 1 ELSE c - q - 1
  BY DEF MinNext, CeilThreeQuarters
<1>3. MaxNext(c) = IF r = 0 THEN c - q + 1 ELSE c - q
  <2>1. (c + 4 - 1) \div 4 = IF r = 0 THEN q ELSE q + 1
    BY <1>1
  <2> QED BY <1>1, <2>1 DEF MaxNext, CeilDiv
<1>4. (c + 1) \div 4 = IF r = 3 THEN q + 1 ELSE q
  BY <1>1
<1>5. MinNext(c + 1) = LET u == c + 1 - (c + 1) \div 4 IN IF u <= 1 THEN 1 ELSE u - 1
  BY DEF MinNext, CeilThreeQuarters
<1>6. MaxNext(c + 1) = c + 1 - q
  <2>1. (c + 1 + 4 - 1) \div 4 = q + 1
    BY <1>1
  <2> QED BY <1>1, <2>1 DEF MaxNext, CeilDiv
<1> HIDE DEF q, r
<1>7. MinNext(c) \in 1..c /\ MaxNext(c) \in 1..c /\ MinNext(c) <= MaxNext(c)
  BY <1>1, <1>2, <1>3
<1>8. MinNext(c) <= MinNext(c + 1) /\ MaxNext(c) <= MaxNext(c + 1) /\ MinNext(c + 1) <= MaxNext(c)
  BY <1>1, <1>2, <1>3, <1>4, <1>5, <1>6
<1>9. ASSUME NEW x \in 1..c PROVE 4 * x - 3 * c \in -4..4 <=> x \in MinNext(c)..MaxNext(c)
  BY <1>1, <1>2, <1>3
<1>10. Adjacent(c) = MinNext(c)..MaxNext(c)
  <2>1. \A x \in MinNext(c)..MaxNext(c) : x \in 1..c
    BY <1>7
  <2> QED BY <1>9, <2>1 DEF Adjacent
<1> QED BY <1>7, <1>8, <1>10

(* The smallest and the largest sum of so many levels from c on. *)
Fewest(l, c) == LoopAfter(MinStep, PathFrom(c))[l].sum
Most(l, c) == LoopAfter(MaxStep, PathFrom(c))[l].sum

(* A path from c is c and then a path from the count after it. *)
LEMMA PathUnfolds ==
  ASSUME NEW c \in Nat, c > 0, NEW l \in Nat
  PROVE  /\ Fewest(0, c) = 0 /\ Most(0, c) = 0
         /\ Fewest(l, c) \in Nat /\ Most(l, c) \in Nat
         /\ Fewest(l + 1, c) = c + Fewest(l, MinNext(c))
         /\ Most(l + 1, c) = c + Most(l, MaxNext(c))
<1>1. ASSUME NEW x \in Nat PROVE MinNext(x) \in Nat /\ MaxNext(x) \in Nat
  <2>1. CASE x = 0
    <3>1. 0 \div 4 = 0
      OBVIOUS
    <3> QED BY <2>1, <3>1 DEF MinNext, MaxNext, CeilThreeQuarters
  <2>2. CASE x # 0
    BY <2>2, NextCounts
  <2> QED BY <2>1, <2>2
<1>2. ASSUME NEW next \in [Nat -> Nat],
             NEW turn, turn = [p \in Path |-> [current |-> next[p.current], sum |-> p.sum + p.current]]
      PROVE  /\ LoopAfter(turn, PathFrom(c))[0].sum = 0
             /\ LoopAfter(turn, PathFrom(c))[l].sum \in Nat
             /\ LoopAfter(turn, PathFrom(c))[l + 1].sum = c + LoopAfter(turn, PathFrom(next[c]))[l].sum
  <2> DEFINE f == LoopAfter(turn, PathFrom(c))
             g == LoopAfter(turn, PathFrom(next[c]))
  <2>1. turn \in [Path -> Path] /\ PathFrom(c) \in Path /\ PathFrom(next[c]) \in Path
    BY <1>2 DEF Path, PathFrom
  <2>2. f \in [Nat -> Path] /\ f[0] = PathFrom(c) /\ \A k \in Nat : f[k + 1] = turn[f[k]]
    BY <2>1, LoopTurns
  <2>3. g \in [Nat -> Path] /\ g[0] = PathFrom(next[c]) /\ \A k \in Nat : g[k + 1] = turn[g[k]]
    BY <2>1, LoopTurns
  <2> HIDE DEF f, g
  <2> DEFINE S == {k \in Nat : f[k + 1].current = g[k].current /\ f[k + 1].sum = c + g[k].sum}
  <2>4. 0 \in S
    <3>1. f[0 + 1] = turn[PathFrom(c)] /\ 0 \in Nat
      BY <2>2
    <3>2. turn[PathFrom(c)] = [current |-> next[c], sum |-> 0 + c]
      BY <1>2, <2>1 DEF PathFrom
    <3>3. g[0].current = next[c] /\ g[0].sum = 0
      BY <2>3 DEF PathFrom
    <3> QED BY <3>1, <3>2, <3>3
  <2>5. ASSUME NEW k \in Nat, k \in S PROVE k + 1 \in S
    <3>1. f[(k + 1) + 1] = turn[f[k + 1]] /\ g[k + 1] = turn[g[k]] /\ k + 1 \in Nat
      BY <2>2, <2>3
    <3>2. f[k + 1] \in Path /\ g[k] \in Path
      BY <2>2, <2>3
    <3>3. /\ turn[f[k + 1]] = [current |-> next[f[k + 1].current], sum |-> f[k + 1].sum + f[k + 1].current]
          /\ turn[g[k]] = [current |-> next[g[k].current], sum |-> g[k].sum + g[k].current]
      BY <1>2, <3>2
    <3>4. /\ f[k + 1].current \in Nat /\ f[k + 1].sum \in Nat /\ g[k].current \in Nat /\ g[k].sum \in Nat
          /\ f[k + 1].current = g[k].current /\ f[k + 1].sum = c + g[k].sum
      BY <2>5, <3>2 DEF Path
    <3> QED BY <3>1, <3>3, <3>4
  <2> HIDE DEF S
  <2>6. \A k \in Nat : k \in S
    BY <2>4, <2>5, NaturalInduction, Zenon
  <2>7. f[l + 1].sum = c + g[l].sum
    BY <2>6 DEF S
  <2>8. f[0].sum = 0 /\ f[l].sum \in Nat
    BY <2>2 DEF Path, PathFrom
  <2> QED BY <2>7, <2>8 DEF f, g
<1>3. /\ Fewest(0, c) = 0 /\ Fewest(l, c) \in Nat
      /\ Fewest(l + 1, c) = c + Fewest(l, MinNext(c))
  <2> DEFINE next == [x \in Nat |-> MinNext(x)]
  <2>1. next \in [Nat -> Nat] /\ next[c] = MinNext(c)
    BY <1>1
  <2>2. MinStep = [p \in Path |-> [current |-> next[p.current], sum |-> p.sum + p.current]]
    BY DEF MinStep, Path
  <2> HIDE DEF next
  <2> QED BY <1>2, <2>1, <2>2 DEF Fewest
<1>4. /\ Most(0, c) = 0 /\ Most(l, c) \in Nat
      /\ Most(l + 1, c) = c + Most(l, MaxNext(c))
  <2> DEFINE next == [x \in Nat |-> MaxNext(x)]
  <2>1. next \in [Nat -> Nat] /\ next[c] = MaxNext(c)
    BY <1>1
  <2>2. MaxStep = [p \in Path |-> [current |-> next[p.current], sum |-> p.sum + p.current]]
    BY DEF MaxStep, Path
  <2> HIDE DEF next
  <2> QED BY <1>2, <2>1, <2>2 DEF Most
<1> QED BY <1>3, <1>4

(* The smallest and the largest sum grow with the first count, and from one
   first count to the next they leave no sum out. *)
Orderly(l) ==
  \A c \in Nat \ {0} :
    /\ Fewest(l, c) <= Most(l, c)
    /\ Fewest(l, c) <= Fewest(l, c + 1) /\ Most(l, c) <= Most(l, c + 1)
    /\ Fewest(l, c + 1) <= Most(l, c) + 1
    /\ l > 0 => Fewest(l, c) >= c + l - 1

(* Paths from a larger count have larger sums. *)
LEMMA FewestGrows ==
  ASSUME NEW l \in Nat, Orderly(l), NEW c \in Nat \ {0}, NEW x \in Nat, c <= x
  PROVE  Fewest(l, c) <= Fewest(l, x) /\ Most(l, c) <= Most(l, x)
<1> DEFINE S == {i \in Nat : Fewest(l, c) <= Fewest(l, c + i) /\ Most(l, c) <= Most(l, c + i)}
<1>1. \A i \in Nat : c + i \in Nat \ {0} /\ Fewest(l, c + i) \in Nat /\ Most(l, c + i) \in Nat
  <2>1. \A i \in Nat : c + i \in Nat /\ c + i > 0
    OBVIOUS
  <2> QED BY <2>1, PathUnfolds
<1>2. 0 \in S
  <2>1. c + 0 = c /\ 0 \in Nat
    OBVIOUS
  <2>2. Fewest(l, c) \in Nat /\ Most(l, c) \in Nat
    BY PathUnfolds
  <2> QED BY <2>1, <2>2
<1>3. ASSUME NEW i \in Nat, i \in S PROVE i + 1 \in S
  <2>1. c + (i + 1) = (c + i) + 1 /\ c + i \in Nat \ {0}
    OBVIOUS
  <2>2. Fewest(l, c + i) <= Fewest(l, (c + i) + 1) /\ Most(l, c + i) <= Most(l, (c + i) + 1)
    BY <2>1 DEF Orderly
  <2>3. /\ Fewest(l, c) \in Nat /\ Most(l, c) \in Nat /\ Fewest(l, c + i) \in Nat
        /\ Most(l, c + i) \in Nat /\ Fewest(l, c + (i + 1)) \in Nat /\ Most(l, c + (i + 1)) \in Nat
    <3>1. i + 1 \in Nat /\ c \in Nat /\ c > 0
      OBVIOUS
    <3>2. Fewest(l, c) \in Nat /\ Most(l, c) \in Nat
      BY <3>1, PathUnfolds
    <3>3. Fewest(l, c + (i + 1)) \in Nat /\ Most(l, c + (i + 1)) \in Nat
      BY <1>1, <3>1
    <3> QED BY <1>1, <3>2, <3>3
  <2>4. Fewest(l, c) <= Fewest(l, c + i) /\ Most(l, c) <= Most(l, c + i)
    BY <1>3
  <2>5. Fewest(l, c) <= Fewest(l, c + (i + 1)) /\ Most(l, c) <= Most(l, c + (i + 1))
    BY <2>1, <2>2, <2>3, <2>4
  <2> QED BY <2>5
<1> HIDE DEF S
<1>4. \A i \in Nat : i \in S
  BY <1>2, <1>3, NaturalInduction, Zenon
<1>5. x - c \in S /\ c + (x - c) = x
  BY <1>4
<1> QED BY <1>5 DEF S

(* The sums of the paths of every length are in order and leave no gap from one
   first count to the next. *)
LEMMA PathsAreOrderly ==
  \A l \in Nat : Orderly(l)
<1> DEFINE S == {l \in Nat : Orderly(l)}
<1>1. 0 \in S
  <2>1. \A c \in Nat \ {0} : Fewest(0, c) = 0 /\ Most(0, c) = 0
    BY PathUnfolds
  <2> QED BY <2>1 DEF Orderly
<1>2. ASSUME NEW l \in Nat, l \in S PROVE l + 1 \in S
  <2>1. Orderly(l)
    BY <1>2
  <2>2. ASSUME NEW c \in Nat \ {0}
        PROVE  /\ Fewest(l + 1, c) <= Most(l + 1, c)
               /\ Fewest(l + 1, c) <= Fewest(l + 1, c + 1) /\ Most(l + 1, c) <= Most(l + 1, c + 1)
               /\ Fewest(l + 1, c + 1) <= Most(l + 1, c) + 1
               /\ Fewest(l + 1, c) >= c + l
    <3> DEFINE a == MinNext(c)
               b == MaxNext(c)
               x == MinNext(c + 1)
               y == MaxNext(c + 1)
    <3>1. /\ a \in Nat \ {0} /\ b \in Nat \ {0} /\ x \in Nat \ {0} /\ y \in Nat \ {0}
          /\ a <= b /\ a <= x /\ b <= y /\ x <= b
      <4>1. c > 0 /\ c + 1 \in Nat /\ c + 1 > 0
        OBVIOUS
      <4>2. a \in 1..c /\ b \in 1..c /\ a <= b /\ a <= x /\ b <= y /\ x <= b
        BY NextCounts
      <4>3. x \in 1..(c + 1) /\ y \in 1..(c + 1)
        BY <4>1, NextCounts
      <4> QED BY <4>2, <4>3
    <3>2. /\ Fewest(l + 1, c) = c + Fewest(l, a) /\ Most(l + 1, c) = c + Most(l, b)
          /\ Fewest(l + 1, c + 1) = (c + 1) + Fewest(l, x) /\ Most(l + 1, c + 1) = (c + 1) + Most(l, y)
      <4>1. c \in Nat /\ c > 0 /\ c + 1 \in Nat /\ c + 1 > 0
        OBVIOUS
      <4>2. Fewest(l + 1, c) = c + Fewest(l, a) /\ Most(l + 1, c) = c + Most(l, b)
        BY <4>1, PathUnfolds
      <4>3. Fewest(l + 1, c + 1) = (c + 1) + Fewest(l, x) /\ Most(l + 1, c + 1) = (c + 1) + Most(l, y)
        <5> DEFINE e == c + 1
        <5>1. e \in Nat /\ e > 0 /\ x = MinNext(e) /\ y = MaxNext(e)
          OBVIOUS
        <5> HIDE DEF e, x, y
        <5>2. Fewest(l + 1, e) = e + Fewest(l, x) /\ Most(l + 1, e) = e + Most(l, y)
          BY <5>1, PathUnfolds
        <5> QED BY <5>2 DEF e
      <4> QED BY <4>2, <4>3
    <3> HIDE DEF a, b, x, y
    <3>3. /\ Fewest(l, a) \in Nat /\ Fewest(l, b) \in Nat /\ Fewest(l, x) \in Nat
          /\ Most(l, b) \in Nat /\ Most(l, y) \in Nat
      <4>1. \A z \in Nat \ {0} : z \in Nat /\ z > 0
        OBVIOUS
      <4>2. \A z \in Nat \ {0} : Fewest(l, z) \in Nat /\ Most(l, z) \in Nat
        BY <4>1, PathUnfolds
      <4> QED BY <3>1, <4>2
    <3>4. Fewest(l, a) <= Fewest(l, b) /\ Fewest(l, a) <= Fewest(l, x) /\ Fewest(l, x) <= Fewest(l, b)
      BY <2>1, <3>1, FewestGrows
    <3>5. Most(l, b) <= Most(l, y) /\ Fewest(l, b) <= Most(l, b)
      <4>1. Most(l, b) <= Most(l, y)
        BY <2>1, <3>1, FewestGrows
      <4>2. Fewest(l, b) <= Most(l, b)
        BY <2>1, <3>1 DEF Orderly
      <4> QED BY <4>1, <4>2
    <3>6. Fewest(l, a) >= l
      <4>1. CASE l > 0
        <5>1. Fewest(l, a) >= a + l - 1
          BY <2>1, <3>1, <4>1 DEF Orderly
        <5> QED BY <3>1, <3>3, <5>1
      <4>2. CASE l = 0
        BY <3>3, <4>2
      <4> QED BY <4>1, <4>2
    <3> QED BY <3>2, <3>3, <3>4, <3>5, <3>6
  <2>3. l + 1 > 0 => \A c \in Nat \ {0} : c + (l + 1) - 1 = c + l
    OBVIOUS
  <2> QED BY <2>2, <2>3 DEF Orderly
<1> HIDE DEF S
<1>3. \A l \in Nat : l \in S
  BY <1>1, <1>2, NaturalInduction, Zenon
<1> QED BY <1>3 DEF S

(* The sum is one of the sums of so many levels from c on. *)
Completes(l, c, sum) == Fewest(l, c) <= sum /\ sum <= Most(l, c)

(* Between two first counts of which one is low enough and the other high
   enough there is one that completes the sum. *)
LEMMA SomeCompletes ==
  ASSUME NEW l \in Nat, NEW a \in Nat \ {0}, NEW b \in Nat, a <= b, NEW sum \in Int,
         Fewest(l, a) <= sum, sum <= Most(l, b)
  PROVE  \E x \in a..b : Completes(l, x, sum)
<1> SUFFICES ASSUME \A x \in a..b : ~Completes(l, x, sum) PROVE FALSE
  OBVIOUS
<1> DEFINE n == b - a
           S == {i \in 0..n : Fewest(l, a + i) <= sum}
<1>1. n \in Nat /\ a + 0 = a /\ a + n = b
  OBVIOUS
<1>2. \A x \in a..b : Fewest(l, x) \in Nat /\ Most(l, x) \in Nat
  <2>1. \A x \in a..b : x \in Nat /\ x > 0
    OBVIOUS
  <2> QED BY <2>1, PathUnfolds
<1>3. 0 \in S
  BY <1>1
<1>4. ASSUME NEW i \in 0..n, i < n, i \in S PROVE i + 1 \in S
  <2>1. a + i \in a..b /\ a + i \in Nat \ {0} /\ (a + i) + 1 \in a..b /\ (a + i) + 1 = a + (i + 1) /\ i + 1 \in 0..n
    BY <1>1, <1>4
  <2>2. Most(l, a + i) < sum
    BY <1>2, <1>4, <2>1 DEF Completes
  <2>3. Fewest(l, (a + i) + 1) <= Most(l, a + i) + 1
    BY <2>1, PathsAreOrderly DEF Orderly
  <2>4. Fewest(l, (a + i) + 1) <= sum
    BY <1>2, <2>1, <2>2, <2>3
  <2> QED BY <2>1, <2>4
<1> HIDE DEF S
<1>5. \A i \in 0..n : i \in S
  BY <1>1, <1>3, <1>4, PositionInduction
<1>6. Fewest(l, b) <= sum
  <2>1. n \in S
    BY <1>1, <1>5
  <2> QED BY <1>1, <2>1 DEF S
<1>7. b \in a..b
  OBVIOUS
<1> QED BY <1>6, <1>7 DEF Completes

(* A sum can be completed from c exactly if what c leaves can be completed
   from a count that may follow c. *)
LEMMA CompletesNext ==
  ASSUME NEW l \in Nat, l > 0, NEW c \in Nat, c > 0, NEW sum \in Int
  PROVE  Completes(l + 1, c, sum) <=> \E x \in Adjacent(c) : Completes(l, x, sum - c)
<1> DEFINE a == MinNext(c)
           b == MaxNext(c)
<1>1. Adjacent(c) = a..b /\ a \in Nat \ {0} /\ b \in Nat \ {0} /\ a <= b
  <2>1. Adjacent(c) = MinNext(c)..MaxNext(c) /\ MinNext(c) \in 1..c /\ MaxNext(c) \in 1..c /\ MinNext(c) <= MaxNext(c)
    BY NextCounts
  <2> HIDE DEF a, b
  <2>2. a \in 1..c /\ b \in 1..c /\ a <= b /\ Adjacent(c) = a..b
    BY <2>1 DEF a, b
  <2> QED BY <2>2
<1>2. Fewest(l + 1, c) = c + Fewest(l, a) /\ Most(l + 1, c) = c + Most(l, b)
  BY PathUnfolds
<1> HIDE DEF a, b
<1>3. \A x \in a..b : x \in Nat /\ x > 0 /\ x \in Nat \ {0} /\ Fewest(l, x) \in Nat /\ Most(l, x) \in Nat
  <2>1. \A x \in a..b : x \in Nat /\ x > 0 /\ x \in Nat \ {0}
    BY <1>1
  <2> QED BY <2>1, PathUnfolds
<1>4. a \in a..b /\ b \in a..b
  BY <1>1
<1>5. ASSUME Completes(l + 1, c, sum) PROVE \E x \in a..b : Completes(l, x, sum - c)
  <2>1. Fewest(l, a) <= sum - c /\ sum - c <= Most(l, b)
    BY <1>2, <1>3, <1>4, <1>5 DEF Completes
  <2>2. sum - c \in Int
    OBVIOUS
  <2> QED BY <1>1, <2>1, <2>2, SomeCompletes
<1>6. ASSUME NEW x \in a..b, Completes(l, x, sum - c) PROVE Completes(l + 1, c, sum)
  <2>1. Orderly(l) /\ a <= x /\ x <= b
    BY <1>1, PathsAreOrderly
  <2>2. Fewest(l, a) <= Fewest(l, x) /\ Most(l, x) <= Most(l, b)
    BY <1>1, <1>3, <2>1, FewestGrows
  <2>3. Fewest(l, x) <= sum - c /\ sum - c <= Most(l, x)
    BY <1>6 DEF Completes
  <2>4. Fewest(l, a) <= sum - c /\ sum - c <= Most(l, b)
    BY <1>3, <1>4, <2>2, <2>3
  <2> QED BY <1>2, <1>3, <1>4, <2>4 DEF Completes
<1> QED BY <1>1, <1>5, <1>6

(* A bounded set that is not empty has a greatest member. *)
LEMMA GreatestExists ==
  ASSUME NEW n \in Nat, NEW S \in SUBSET (0..n), S # {}
  PROVE  \E x \in S : Greatest(S) = {x}
<1> DEFINE T == {n - x : x \in S}
<1>1. PICK t \in T : \A y \in T : t <= y
  <2>1. \A x \in S : n - x \in Nat
    OBVIOUS
  <2>2. T \in SUBSET Nat /\ T # {}
    BY <2>1
  <2> QED BY <2>2, LeastNat, Zenon
<1>2. PICK x \in S : t = n - x
  BY <1>1
<1>3. ASSUME NEW y \in S PROVE y <= x
  <2>1. n - y \in T
    OBVIOUS
  <2>2. n - x <= n - y
    BY <1>1, <1>2, <2>1
  <2> QED BY <2>2
<1>4. \A y \in S : y \in Nat
  OBVIOUS
<1>5. \A y \in S : x <= y => y = x
  BY <1>3, <1>4
<1> QED BY <1>3, <1>5 DEF Greatest

(* What the two path loops answer. *)
LEMMA PathLoops ==
  ASSUME NEW l, NEW c, NEW target
  PROVE  /\ MinimumPathSumAtMost(c, l, target) <=> Fewest(l, c) <= target
         /\ MaximumPathSumAtLeast(c, l, target) <=> l > 0 /\ Most(l, c) >= target
BY Zenon DEF MinimumPathSumAtMost, MaximumPathSumAtLeast, Fewest, Most

(* select_largest_feasible_next: the largest adjacent count that the levels left
   can complete, and there is one whenever the path so far can be completed. *)
LEMMA NextIsGreatest ==
  ASSUME NEW c \in Nat, c > 0, NEW l \in Nat, l > 0, NEW sum \in Nat
  PROVE  /\ SelectLargestNext(c, sum, l) = Greatest({x \in Adjacent(c) : Completes(l, x, sum)})
         /\ Completes(l + 1, c, sum + c) =>
              \E x \in Nat \ {0} : /\ SelectLargestNext(c, sum, l) = {x}
                                   /\ x \in Adjacent(c) /\ Completes(l, x, sum)
<1> DEFINE F == {x \in Adjacent(c) : Completes(l, x, sum)}
           G == {x \in MinNext(c)..MaxNext(c) :
                   /\ MinimumPathSumAtMost(x, l, sum)
                   /\ MaximumPathSumAtLeast(x, l, sum)}
<1>1. Adjacent(c) = MinNext(c)..MaxNext(c) /\ MinNext(c) \in 1..c /\ MaxNext(c) \in 1..c
  BY NextCounts
<1>2. ASSUME NEW x \in Adjacent(c)
      PROVE  Completes(l, x, sum) <=> MinimumPathSumAtMost(x, l, sum) /\ MaximumPathSumAtLeast(x, l, sum)
  <2>1. x \in Nat /\ x > 0
    BY <1>1
  <2>2. Fewest(l, x) \in Nat /\ Most(l, x) \in Nat
    BY <2>1, PathUnfolds
  <2>3. MinimumPathSumAtMost(x, l, sum) <=> Fewest(l, x) <= sum
    BY PathLoops
  <2>4. MaximumPathSumAtLeast(x, l, sum) <=> Most(l, x) >= sum
    BY PathLoops
  <2> QED BY <2>2, <2>3, <2>4 DEF Completes
<1>3. F = G
  BY <1>1, <1>2
<1>4. SelectLargestNext(c, sum, l) = Greatest(F)
  <2>1. SelectLargestNext(c, sum, l) = {x \in G : \A y \in G : y <= x}
    BY DEF SelectLargestNext
  <2> HIDE DEF F, G
  <2> QED BY <1>3, <2>1 DEF Greatest
<1>5. ASSUME Completes(l + 1, c, sum + c)
      PROVE  \E x \in Nat \ {0} : Greatest(F) = {x} /\ x \in Adjacent(c) /\ Completes(l, x, sum)
  <2>1. (sum + c) - c = sum /\ sum + c \in Int
    OBVIOUS
  <2>2. \E x \in Adjacent(c) : Completes(l, x, sum)
    BY <1>5, <2>1, CompletesNext
  <2>3. F \in SUBSET (0..c) /\ F # {} /\ \A x \in F : x \in Nat \ {0}
    BY <1>1, <2>2
  <2>4. PICK x \in F : Greatest(F) = {x}
    <3> HIDE DEF F
    <3> QED BY <2>3, GreatestExists
  <2> QED BY <2>3, <2>4
<1> QED BY <1>4, <1>5

------------------------------------------------------------------------------
(* The iterator of the buckets.                                            *)

(* The iterator stays a state of FunnelBucketCounts. *)
LEMMA IteratorTurns ==
  ASSUME NEW it \in BucketIterator
  PROVE  NextBucket(it) \in BucketIterator
<1> DEFINE c == CHOOSE x \in it.next : TRUE
           less == [counts |-> Append(it.counts, c),
                    next   |-> IF it.levels = 1 THEN {} ELSE SelectLargestNext(c, it.sum - c, it.levels - 1),
                    sum    |-> it.sum - c,
                    levels |-> it.levels - 1]
<1>1. NextBucket(it) = IF it.next = {} \/ c > it.sum \/ it.levels = 0 THEN [it EXCEPT !.next = {}] ELSE less
  BY Zenon DEF NextBucket
<1>2. it.counts \in Seq(Nat) /\ it.next \in SUBSET Nat /\ it.sum \in Nat /\ it.levels \in Nat
  BY DEF BucketIterator
<1>3. [it EXCEPT !.next = {}] \in BucketIterator
  BY DEF BucketIterator
<1>4. ASSUME it.next # {}, ~(c > it.sum), it.levels # 0 PROVE less \in BucketIterator
  <2>1. c \in Nat
    BY <1>2, <1>4
  <2> HIDE DEF c
  <2>2. it.sum - c \in Nat /\ it.levels - 1 \in Nat /\ Append(it.counts, c) \in Seq(Nat)
    BY <1>2, <1>4, <2>1
  <2>3. SelectLargestNext(c, it.sum - c, it.levels - 1) \in SUBSET Nat
    <3>1. MinNext(c) \in Nat
      BY <2>1 DEF MinNext, CeilThreeQuarters
    <3>2. MaxNext(c) \in Int
      BY <2>1 DEF MaxNext, CeilDiv
    <3>3. SelectLargestNext(c, it.sum - c, it.levels - 1) \subseteq MinNext(c)..MaxNext(c)
      BY DEF SelectLargestNext
    <3> QED BY <3>1, <3>2, <3>3
  <2> QED BY <2>2, <2>3 DEF BucketIterator
<1> HIDE DEF less, c
<1> QED BY <1>1, <1>3, <1>4

(* An iterator that still has to complete the sum, k counts in. *)
Running(it, k, levels) ==
  /\ it \in BucketIterator /\ Len(it.counts) = k /\ it.levels = levels - k
  /\ k < levels => \E c \in Nat \ {0} : it.next = {c} /\ Completes(levels - k, c, it.sum)
  /\ k = levels => it.sum = 0

(* One turn of a running iterator. *)
Turned(it, new, k, levels) ==
  \E c \in Nat \ {0} :
    /\ it.next = {c} /\ c <= it.sum
    /\ new.counts = Append(it.counts, c) /\ new.sum = it.sum - c
    /\ k + 1 < levels => \E x \in Nat \ {0} :
         /\ new.next = {x} /\ new.sum > 0
         /\ {x} = Greatest({y \in Adjacent(c) : Completes(levels - (k + 1), y, new.sum)})

(* Every turn of the iterator but the last adds the largest count that can be
   completed. *)
LEMMA RunningTurns ==
  ASSUME NEW levels \in Nat, NEW k \in Nat, k < levels, NEW it, Running(it, k, levels)
  PROVE  Running(NextBucket(it), k + 1, levels) /\ Turned(it, NextBucket(it), k, levels)
<1> DEFINE new == NextBucket(it)
           l == levels - (k + 1)
<1>1. PICK c \in Nat \ {0} : it.next = {c} /\ Completes(levels - k, c, it.sum)
  BY DEF Running
<1>2. c \in Nat /\ c > 0 /\ l \in Nat /\ l + 1 = levels - k /\ l + 1 # 0
  BY <1>1
<1>3. /\ it \in BucketIterator /\ it.counts \in Seq(Nat) /\ it.sum \in Nat /\ it.levels = l + 1
      /\ Len(it.counts) = k
  BY <1>2 DEF Running, BucketIterator
<1> HIDE DEF l
<1>4. c <= it.sum
  <2>1. Fewest(l + 1, c) >= c + (l + 1) - 1 /\ Fewest(l + 1, c) \in Nat
    <3>1. l + 1 \in Nat /\ l + 1 > 0
      BY <1>2
    <3>2. Fewest(l + 1, c) \in Nat
      BY <1>2, <3>1, PathUnfolds
    <3> QED BY <1>1, <3>1, <3>2, PathsAreOrderly DEF Orderly
  <2>2. Fewest(l + 1, c) <= it.sum
    BY <1>1, <1>2 DEF Completes
  <2> QED BY <1>2, <1>3, <2>1, <2>2
<1>5. (CHOOSE x \in it.next : TRUE) = c
  BY <1>1
<1>6. new = [counts |-> Append(it.counts, c),
             next   |-> IF it.levels = 1 THEN {} ELSE SelectLargestNext(c, it.sum - c, it.levels - 1),
             sum    |-> it.sum - c,
             levels |-> it.levels - 1]
  <2>1. it.next # {} /\ ~(c > it.sum) /\ it.levels # 0
    BY <1>1, <1>2, <1>3, <1>4
  <2> QED BY <1>5, <2>1, Zenon DEF NextBucket
<1>7. new \in BucketIterator
  BY <1>3, IteratorTurns
<1>8. it.levels - 1 = l /\ it.sum - c \in Nat
  BY <1>2, <1>3, <1>4
<1>9. /\ new.counts = Append(it.counts, c) /\ new.sum = it.sum - c /\ new.levels = l
      /\ new.next = IF it.levels = 1 THEN {} ELSE SelectLargestNext(c, it.sum - c, l)
  BY <1>6, <1>8
<1> HIDE DEF new
<1>10. Len(new.counts) = k + 1
  BY <1>2, <1>3, <1>9
<1>11. CASE l = 0
  <2>1. Fewest(0 + 1, c) = c + Fewest(0, MinNext(c)) /\ Most(0 + 1, c) = c + Most(0, MaxNext(c)) /\ 0 \in Nat
    BY <1>2, PathUnfolds
  <2>2. MinNext(c) \in Nat /\ MinNext(c) > 0 /\ MaxNext(c) \in Nat /\ MaxNext(c) > 0
    <3>1. MinNext(c) \in 1..c /\ MaxNext(c) \in 1..c
      BY <1>2, NextCounts
    <3> QED BY <1>2, <3>1
  <2>3. Fewest(0, MinNext(c)) = 0 /\ Most(0, MaxNext(c)) = 0
    BY <2>2, <2>1, PathUnfolds
  <2>4. it.sum = c
    BY <1>1, <1>2, <1>3, <1>11, <2>1, <2>3 DEF Completes
  <2>5. new.sum = 0 /\ k + 1 = levels
    BY <1>2, <1>9, <1>11, <2>4 DEF l
  <2>6. Running(new, k + 1, levels)
    BY <1>7, <1>9, <1>10, <2>5 DEF Running, l
  <2> QED BY <1>1, <1>4, <1>9, <2>5, <2>6 DEF Turned, new
<1>12. CASE l > 0
  <2>1. (it.sum - c) + c = it.sum /\ it.levels # 1 /\ k + 1 < levels
    BY <1>2, <1>3, <1>12 DEF l
  <2>2. PICK x \in Nat \ {0} : /\ SelectLargestNext(c, it.sum - c, l) = {x}
                               /\ x \in Adjacent(c) /\ Completes(l, x, it.sum - c)
    <3> DEFINE v == it.sum - c
    <3>1. v \in Nat /\ Completes(l + 1, c, v + c)
      BY <1>1, <1>2, <1>8, <2>1
    <3> HIDE DEF v
    <3>2. \E x \in Nat \ {0} : SelectLargestNext(c, v, l) = {x} /\ x \in Adjacent(c) /\ Completes(l, x, v)
      BY <1>2, <1>12, <3>1, NextIsGreatest
    <3> QED BY <3>2 DEF v
  <2>3. {x} = Greatest({y \in Adjacent(c) : Completes(l, y, it.sum - c)})
    <3> DEFINE v == it.sum - c
    <3>1. v \in Nat
      BY <1>8
    <3> HIDE DEF v
    <3>2. SelectLargestNext(c, v, l) = Greatest({y \in Adjacent(c) : Completes(l, y, v)})
      BY <1>2, <1>12, <3>1, NextIsGreatest
    <3> QED BY <2>2, <3>2 DEF v
  <2>4. new.next = {x} /\ Completes(l, x, new.sum)
    BY <1>9, <2>1, <2>2
  <2>5. new.sum > 0
    <3>1. x \in Nat /\ x > 0
      OBVIOUS
    <3>2. Fewest(l, x) >= x + l - 1 /\ Fewest(l, x) \in Nat /\ Fewest(l, x) <= new.sum
      BY <1>2, <1>12, <2>4, <3>1, PathUnfolds, PathsAreOrderly DEF Orderly, Completes
    <3> QED BY <1>2, <1>8, <1>9, <1>12, <3>1, <3>2
  <2>6. Running(new, k + 1, levels)
    BY <1>7, <1>9, <1>10, <2>1, <2>4 DEF Running, l
  <2>7. {x} = Greatest({y \in Adjacent(c) : Completes(levels - (k + 1), y, new.sum)})
    BY <1>9, <2>3 DEF l
  <2> QED BY <1>1, <1>4, <1>9, <2>4, <2>5, <2>6, <2>7 DEF Turned, new
<1> QED BY <1>2, <1>11, <1>12

(* The counts split the total: rest is what they leave of it, level by level,
   and each is the largest that the levels after it can complete. *)
Partition(counts, rest, total, levels) ==
  /\ counts \in Seq(Nat) /\ Len(counts) = levels
  /\ rest \in [0..levels -> Nat] /\ rest[0] = total /\ rest[levels] = 0
  /\ \A i \in 1..levels : counts[i] > 0 /\ rest[i] = rest[i - 1] - counts[i]
  /\ \A i \in 1..(levels - 1) :
       /\ rest[i] > 0
       /\ {counts[i + 1]} = Greatest({y \in Adjacent(counts[i]) : Completes(levels - i, y, rest[i])})

(* FunnelBucketCounts splits a total that its first count can complete. *)
LEMMA BucketsRun ==
  ASSUME NEW total \in Nat, NEW levels \in Nat, levels > 0, NEW first \in Nat, first > 0,
         Completes(levels, first, total)
  PROVE  /\ \E rest : Partition(BucketCounts(first, total, levels), rest, total, levels)
         /\ BucketCounts(first, total, levels)[1] = first
<1> DEFINE turn == [it \in BucketIterator |-> NextBucket(it)]
           start == [counts |-> <<>>, next |-> {first}, sum |-> total, levels |-> levels]
           at == LoopAfter(turn, start)
           h(k) == CHOOSE c : at[k].next = {c}
<1>1. turn \in [BucketIterator -> BucketIterator] /\ start \in BucketIterator
  <2>1. turn \in [BucketIterator -> BucketIterator]
    BY IteratorTurns
  <2>2. <<>> \in Seq(Nat) /\ {first} \in SUBSET Nat
    OBVIOUS
  <2> QED BY <2>1, <2>2 DEF BucketIterator
<1>2. at \in [Nat -> BucketIterator] /\ at[0] = start /\ \A k \in Nat : at[k + 1] = turn[at[k]]
  <2> HIDE DEF turn, start
  <2> QED BY <1>1, LoopTurns
<1>3. BucketCounts(first, total, levels) = at[levels].counts
  BY DEF BucketCounts
<1> HIDE DEF at
<1>4. \A k \in Nat : at[k + 1] = NextBucket(at[k])
  BY <1>2
<1>5. ASSUME NEW k \in 0..levels PROVE Running(at[k], k, levels)
  <2> DEFINE S == {j \in 0..levels : Running(at[j], j, levels)}
  <2>1. 0 \in S
    <3>1. start.counts = <<>> /\ start.next = {first} /\ start.sum = total /\ start.levels = levels
      OBVIOUS
    <3>2. Len(<<>>) = 0 /\ levels - 0 = levels /\ 0 # levels /\ first \in Nat \ {0}
      OBVIOUS
    <3> HIDE DEF start
    <3>3. Running(start, 0, levels)
      BY <1>1, <3>1, <3>2 DEF Running
    <3> QED BY <1>2, <3>3
  <2>2. ASSUME NEW j \in 0..levels, j < levels, j \in S PROVE j + 1 \in S
    <3>1. j \in Nat /\ j + 1 \in 0..levels
      BY <2>2
    <3>2. Running(NextBucket(at[j]), j + 1, levels)
      BY <2>2, <3>1, RunningTurns
    <3> QED BY <1>4, <3>1, <3>2
  <2> HIDE DEF S
  <2>3. \A j \in 0..levels : j \in S
    BY <2>1, <2>2, PositionInduction
  <2> QED BY <2>3 DEF S
<1>6. ASSUME NEW k \in 0..levels, k < levels
      PROVE  /\ at[k].next = {h(k)} /\ h(k) \in Nat /\ h(k) > 0 /\ h(k) <= at[k].sum
             /\ at[k + 1].counts = Append(at[k].counts, h(k)) /\ at[k + 1].sum = at[k].sum - h(k)
             /\ k + 1 < levels =>
                  /\ at[k + 1].sum > 0
                  /\ {h(k + 1)} = Greatest({y \in Adjacent(h(k)) : Completes(levels - (k + 1), y, at[k + 1].sum)})
  <2>1. k \in Nat /\ Running(at[k], k, levels)
    BY <1>5
  <2>2. Turned(at[k], at[k + 1], k, levels)
    BY <1>4, <1>6, <2>1, RunningTurns
  <2>3. PICK c \in Nat \ {0} :
          /\ at[k].next = {c} /\ c <= at[k].sum
          /\ at[k + 1].counts = Append(at[k].counts, c) /\ at[k + 1].sum = at[k].sum - c
          /\ k + 1 < levels => \E x \in Nat \ {0} :
               /\ at[k + 1].next = {x} /\ at[k + 1].sum > 0
               /\ {x} = Greatest({y \in Adjacent(c) : Completes(levels - (k + 1), y, at[k + 1].sum)})
    BY <2>2 DEF Turned
  <2>4. h(k) = c
    BY <2>3
  <2>5. ASSUME NEW x, at[k + 1].next = {x} PROVE h(k + 1) = x
    BY <2>5
  <2> HIDE DEF h
  <2>6. /\ at[k].next = {h(k)} /\ h(k) \in Nat /\ h(k) > 0 /\ h(k) <= at[k].sum
        /\ at[k + 1].counts = Append(at[k].counts, h(k)) /\ at[k + 1].sum = at[k].sum - h(k)
    <3>1. c \in Nat /\ c > 0
      OBVIOUS
    <3> QED BY <2>3, <2>4, <3>1
  <2>7. ASSUME k + 1 < levels
        PROVE  /\ at[k + 1].sum > 0
               /\ {h(k + 1)} = Greatest({y \in Adjacent(h(k)) : Completes(levels - (k + 1), y, at[k + 1].sum)})
    <3>1. PICK x \in Nat \ {0} :
            /\ at[k + 1].next = {x} /\ at[k + 1].sum > 0
            /\ {x} = Greatest({y \in Adjacent(c) : Completes(levels - (k + 1), y, at[k + 1].sum)})
      BY <2>3, <2>7, Zenon
    <3>2. h(k + 1) = x
      BY <2>5, <3>1, Zenon
    <3> QED BY <2>4, <3>1, <3>2, Zenon
  <2> QED BY <2>6, <2>7
<1>7. at[0].next = {first} /\ at[0].sum = total /\ at[levels].sum = 0 /\ h(0) = first
  <2>1. at[0].next = {first} /\ at[0].sum = total
    BY <1>2
  <2>2. levels \in 0..levels
    OBVIOUS
  <2>3. at[levels].sum = 0
    BY <1>5, <2>2 DEF Running
  <2> QED BY <2>1, <2>3
<1> HIDE DEF h, start, turn
<1>8. \A k \in 0..levels : at[k].counts \in Seq(Nat) /\ Len(at[k].counts) = k /\ at[k].sum \in Nat
  BY <1>5 DEF Running, BucketIterator
<1>9. ASSUME NEW k \in 0..levels PROVE \A i \in 1..k : at[k].counts[i] = h(i - 1)
  <2> DEFINE S == {j \in 0..levels : \A i \in 1..j : at[j].counts[i] = h(i - 1)}
  <2>1. 0 \in S
    OBVIOUS
  <2>2. ASSUME NEW j \in 0..levels, j < levels, j \in S PROVE j + 1 \in S
    <3> DEFINE s == at[j].counts
               c == h(j)
    <3>1. s \in Seq(Nat) /\ Len(s) = j /\ c \in Nat /\ at[j + 1].counts = Append(s, c)
      BY <1>6, <1>8, <2>2
    <3>2. \A i \in 1..j : s[i] = h(i - 1)
      BY <2>2
    <3> HIDE DEF s
    <3>3. ASSUME NEW i \in 1..(j + 1) PROVE Append(s, c)[i] = h(i - 1)
      <4>1. CASE i = j + 1
        <5>1. Append(s, c)[j + 1] = c /\ i - 1 = j
          BY <3>1, <4>1
        <5> QED BY <4>1, <5>1
      <4>2. CASE i # j + 1
        <5>1. i \in 1..j
          BY <4>2
        <5>2. Append(s, c)[i] = s[i]
          BY <3>1, <5>1
        <5> QED BY <3>2, <5>1, <5>2
      <4> QED BY <4>1, <4>2
    <3>4. j + 1 \in 0..levels
      BY <2>2
    <3> QED BY <3>1, <3>3, <3>4
  <2> HIDE DEF S
  <2>3. \A j \in 0..levels : j \in S
    BY <2>1, <2>2, PositionInduction
  <2> QED BY <2>3 DEF S
<1> DEFINE counts == at[levels].counts
           rest == [i \in 0..levels |-> at[i].sum]
<1>10. counts \in Seq(Nat) /\ Len(counts) = levels /\ \A i \in 1..levels : counts[i] = h(i - 1)
  <2>1. levels \in 0..levels
    OBVIOUS
  <2> QED BY <1>8, <1>9, <2>1
<1>11. rest \in [0..levels -> Nat] /\ rest[0] = total /\ rest[levels] = 0
  <2>1. 0 \in 0..levels /\ levels \in 0..levels
    OBVIOUS
  <2> QED BY <1>7, <1>8, <2>1
<1> HIDE DEF counts
<1>12. ASSUME NEW i \in 1..levels PROVE counts[i] > 0 /\ rest[i] = rest[i - 1] - counts[i]
  <2>1. i - 1 \in 0..levels /\ i - 1 < levels /\ (i - 1) + 1 = i /\ i \in 0..levels
    OBVIOUS
  <2>2. h(i - 1) > 0 /\ at[(i - 1) + 1].sum = at[i - 1].sum - h(i - 1)
    BY <1>6, <2>1
  <2>3. counts[i] = h(i - 1)
    BY <1>10
  <2> QED BY <2>1, <2>2, <2>3
<1>13. ASSUME NEW i \in 1..(levels - 1)
       PROVE  /\ rest[i] > 0
              /\ {counts[i + 1]} = Greatest({y \in Adjacent(counts[i]) : Completes(levels - i, y, rest[i])})
  <2>1. /\ i - 1 \in 0..levels /\ i - 1 < levels /\ (i - 1) + 1 = i /\ i \in 1..levels /\ i < levels
        /\ i + 1 \in 1..levels /\ (i + 1) - 1 = i /\ i \in 0..levels
    OBVIOUS
  <2>2. /\ at[i].sum > 0
        /\ {h(i)} = Greatest({y \in Adjacent(h(i - 1)) : Completes(levels - i, y, at[i].sum)})
    <3>1. (i - 1) + 1 < levels =>
            /\ at[(i - 1) + 1].sum > 0
            /\ {h((i - 1) + 1)} = Greatest({y \in Adjacent(h(i - 1)) :
                                            Completes(levels - ((i - 1) + 1), y, at[(i - 1) + 1].sum)})
      BY <1>6, <2>1
    <3> QED BY <2>1, <3>1
  <2>3. counts[i + 1] = h(i) /\ counts[i] = h(i - 1)
    BY <1>10, <2>1
  <2>4. rest[i] = at[i].sum
    BY <2>1
  <2> HIDE DEF rest
  <2> QED BY <2>2, <2>3, <2>4
<1> HIDE DEF rest
<1>14. Partition(counts, rest, total, levels)
  BY <1>10, <1>11, <1>12, <1>13 DEF Partition
<1>15. counts[1] = first
  <2>1. 1 \in 1..levels /\ 1 - 1 = 0
    OBVIOUS
  <2> QED BY <1>7, <1>10, <2>1
<1> QED BY <1>3, <1>14, <1>15 DEF counts

(* ... so that they sum to it. *)
LEMMA PartitionSums ==
  ASSUME NEW total \in Nat, NEW levels \in Nat, NEW counts, NEW rest,
         Partition(counts, rest, total, levels)
  PROVE  /\ Len(counts) = levels /\ Total(counts) = total
         /\ \A i \in 1..(levels - 1) : total - Total(SubSeq(counts, 1, i)) = rest[i]
<1> DEFINE sum == [i \in 0..levels |-> total - rest[i]]
<1>1. counts \in Seq(Int) /\ Len(counts) = levels
  BY DEF Partition
<1>2. sum \in [0..Len(counts) -> Int] /\ sum[0] = 0 /\ sum[Len(counts)] = total
  BY <1>1 DEF Partition
<1>3. ASSUME NEW i \in 1..Len(counts) PROVE sum[i] = sum[i - 1] + counts[i]
  <2>1. i \in 1..levels /\ i \in 0..levels /\ i - 1 \in 0..levels
    BY <1>1
  <2>2. rest[i] = rest[i - 1] - counts[i] /\ rest[i] \in Nat /\ rest[i - 1] \in Nat /\ counts[i] \in Int
    BY <1>1, <2>1 DEF Partition
  <2> QED BY <2>1, <2>2
<1>4. \A i \in 1..(levels - 1) : i \in 0..Len(counts) /\ sum[i] = total - rest[i] /\ rest[i] \in Nat
  <2>1. \A i \in 1..(levels - 1) : i \in 0..levels
    OBVIOUS
  <2>2. \A i \in 0..levels : rest[i] \in Nat
    BY DEF Partition
  <2> QED BY <1>1, <2>1, <2>2
<1> HIDE DEF sum
<1>5. Total(counts) = sum[Len(counts)]
  BY <1>1, <1>2, <1>3, TotalIs
<1>6. ASSUME NEW i \in 1..(levels - 1) PROVE total - Total(SubSeq(counts, 1, i)) = rest[i]
  <2>1. i \in 0..Len(counts)
    BY <1>4
  <2>2. Total(SubSeq(counts, 1, i)) = sum[i]
    BY <1>1, <1>2, <1>3, <2>1, TotalOfPrefix
  <2> QED BY <1>4, <2>2
<1> QED BY <1>1, <1>2, <1>5, <1>6

------------------------------------------------------------------------------
(* The binary searches.                                                    *)

(* The lowest count of high enough paths is between the ends, which are k
   turns closer than they were. *)
AroundLowest(e, k, top, levels, total) ==
  /\ e \in Ends /\ 1 <= e.left /\ e.left <= e.right /\ e.right <= top
  /\ e.left < e.right => e.right - e.left + k < top
  /\ \A p \in 1..top : /\ p < e.left => Most(levels, p) < total
                       /\ p >= e.right => Most(levels, p) >= total

(* Paths from a larger count have larger sums, for every length. *)
LEMMA SumsGrow ==
  ASSUME NEW l \in Nat, NEW p \in Nat, p > 0, NEW q \in Nat, p <= q
  PROVE  /\ Fewest(l, p) \in Nat /\ Most(l, p) \in Nat /\ Fewest(l, q) \in Nat /\ Most(l, q) \in Nat
         /\ Fewest(l, p) <= Fewest(l, q) /\ Most(l, p) <= Most(l, q)
<1>1. p \in Nat \ {0} /\ q > 0
  OBVIOUS
<1>2. Fewest(l, p) \in Nat /\ Most(l, p) \in Nat
  BY PathUnfolds
<1>3. Fewest(l, q) \in Nat /\ Most(l, q) \in Nat
  BY <1>1, PathUnfolds
<1>4. Orderly(l)
  BY PathsAreOrderly
<1>5. Fewest(l, p) <= Fewest(l, q) /\ Most(l, p) <= Most(l, q)
  BY <1>1, <1>4, FewestGrows
<1> QED BY <1>2, <1>3, <1>5

(* Each turn of the first search keeps what is known about its ends. *)
LEMMA LowestNarrows ==
  ASSUME NEW top \in Nat, NEW levels \in Nat, levels > 0, NEW total \in Nat, NEW k \in Nat,
         NEW e, AroundLowest(e, k, top, levels, total)
  PROVE  AroundLowest(NarrowLowest(e, levels, total), k + 1, top, levels, total)
<1> DEFINE a == e.left
           b == e.right
           middle == a + (b - a) \div 2
           high(p) == Most(levels, p) >= total
<1>1. /\ e \in Ends /\ a \in Nat /\ b \in Nat /\ 1 <= a /\ a <= b /\ b <= top
      /\ a < b => b - a + k < top
      /\ \A p \in 1..top : (p < a => ~high(p)) /\ (p >= b => high(p))
  <2>1. \A p \in 1..top : Most(levels, p) \in Nat
    <3>1. \A p \in 1..top : p \in Nat /\ p > 0
      OBVIOUS
    <3> QED BY <3>1, PathUnfolds
  <2> QED BY <2>1 DEF AroundLowest, Ends
<1>2. ASSUME NEW p \in 1..top, NEW q \in 1..top, p <= q, high(p) PROVE high(q)
  <2>1. p \in Nat /\ p > 0 /\ q \in Nat
    OBVIOUS
  <2>2. Most(levels, p) \in Nat /\ Most(levels, q) \in Nat /\ Most(levels, p) <= Most(levels, q)
    BY <1>2, <2>1, SumsGrow
  <2> QED BY <1>2, <2>2
<1>3. NarrowLowest(e, levels, total) =
        IF a >= b THEN e
        ELSE IF high(middle) THEN [e EXCEPT !.right = middle]
        ELSE [e EXCEPT !.left = middle + 1]
  <2>1. MaximumPathSumAtLeast(middle, levels, total) <=> high(middle)
    BY PathLoops
  <2> QED BY <2>1, Zenon DEF NarrowLowest
<1>4. \A p \in 1..top : Most(levels, p) \in Nat
  <2>1. \A p \in 1..top : p \in Nat /\ p > 0
    OBVIOUS
  <2> QED BY <2>1, PathUnfolds
<1>5. ASSUME NEW s \in Ends, 1 <= s.left, s.left <= s.right, s.right <= top,
             s.left < s.right => s.right - s.left + (k + 1) < top,
             \A p \in 1..top : (p < s.left => ~high(p)) /\ (p >= s.right => high(p))
      PROVE  AroundLowest(s, k + 1, top, levels, total)
  BY <1>4, <1>5 DEF AroundLowest
<1> HIDE DEF high
<1>6. CASE a >= b
  <2>1. a = b
    BY <1>1, <1>6
  <2> QED BY <1>1, <1>3, <1>5, <1>6, <2>1
<1>7. CASE ~(a >= b)
  <2>1. middle \in Nat /\ a <= middle /\ middle < b /\ middle \in 1..top
    BY <1>1, <1>7
  <2> HIDE DEF middle
  <2>2. CASE high(middle)
    <3> DEFINE s == [e EXCEPT !.right = middle]
    <3>1. s \in Ends /\ s.left = a /\ s.right = middle
      BY <1>1, <2>1 DEF Ends
    <3>2. NarrowLowest(e, levels, total) = s
      BY <1>3, <1>7, <2>2
    <3> HIDE DEF s
    <3>3. \A p \in 1..top : (p < a => ~high(p)) /\ (p >= middle => high(p))
      BY <1>1, <1>2, <2>1, <2>2
    <3>4. middle <= top /\ (a < middle => middle - a + (k + 1) < top)
      BY <1>1, <1>7, <2>1
    <3> HIDE DEF a, b
    <3> QED BY <1>1, <1>5, <2>1, <3>1, <3>2, <3>3, <3>4
  <2>3. CASE ~high(middle)
    <3> DEFINE s == [e EXCEPT !.left = middle + 1]
    <3>1. s \in Ends /\ s.left = middle + 1 /\ s.right = b
      BY <1>1, <2>1 DEF Ends
    <3>2. NarrowLowest(e, levels, total) = s
      BY <1>3, <1>7, <2>3
    <3> HIDE DEF s
    <3>3. ASSUME NEW p \in 1..top PROVE (p < middle + 1 => ~high(p)) /\ (p >= b => high(p))
      <4>1. p < middle + 1 => p <= middle
        BY <2>1
      <4> QED BY <1>1, <1>2, <2>1, <2>3, <4>1
    <3>4. /\ 1 <= middle + 1 /\ middle + 1 <= b
          /\ middle + 1 < b => b - (middle + 1) + (k + 1) < top
      BY <1>1, <1>7, <2>1
    <3> HIDE DEF a, b
    <3> QED BY <1>1, <1>5, <2>1, <3>1, <3>2, <3>3, <3>4
  <2> QED BY <2>2, <2>3
<1> QED BY <1>6, <1>7

(* The first search finds the lowest first count whose largest path reaches the
   total. *)
LEMMA LowestIs ==
  ASSUME NEW top \in Nat, top > 0, NEW levels \in Nat, levels > 0, NEW total \in Nat,
         Most(levels, top) >= total
  PROVE  /\ LowestFirst(top, levels, total) \in 1..top
         /\ \A p \in 1..top : Most(levels, p) >= total <=> p >= LowestFirst(top, levels, total)
<1> DEFINE turn == [e \in Ends |-> NarrowLowest(e, levels, total)]
           start == [left |-> 1, right |-> top]
           at == LoopAfter(turn, start)
<1>1. turn \in [Ends -> Ends] /\ start \in Ends
  <2>1. ASSUME NEW e \in Ends PROVE NarrowLowest(e, levels, total) \in Ends
    <3> DEFINE middle == e.left + (e.right - e.left) \div 2
    <3>1. NarrowLowest(e, levels, total) =
            IF e.left >= e.right THEN e
            ELSE IF MaximumPathSumAtLeast(middle, levels, total) THEN [e EXCEPT !.right = middle]
            ELSE [e EXCEPT !.left = middle + 1]
      BY Zenon DEF NarrowLowest
    <3>2. ~(e.left >= e.right) => middle \in Nat
      BY DEF Ends
    <3> HIDE DEF middle
    <3> QED BY <3>1, <3>2 DEF Ends
  <2> QED BY <2>1 DEF Ends
<1>2. at \in [Nat -> Ends] /\ at[0] = start /\ \A k \in Nat : at[k + 1] = turn[at[k]]
  <2> HIDE DEF turn, start
  <2> QED BY <1>1, LoopTurns
<1>3. LowestFirst(top, levels, total) = at[top].left
  BY DEF LowestFirst
<1> HIDE DEF at
<1>4. \A k \in Nat : at[k + 1] = NarrowLowest(at[k], levels, total)
  BY <1>2
<1>5. \A p \in 1..top : p \in Nat /\ p > 0 /\ Most(levels, p) \in Nat
  <2>1. \A p \in 1..top : p \in Nat /\ p > 0
    OBVIOUS
  <2> QED BY <2>1, PathUnfolds
<1> DEFINE S == {k \in Nat : AroundLowest(at[k], k, top, levels, total)}
<1>6. 0 \in S
  <2>1. \A p \in 1..top : ~(p < 1) /\ (p >= top => p = top)
    OBVIOUS
  <2>2. start.left = 1 /\ start.right = top /\ start \in Ends
    BY <1>1
  <2> HIDE DEF start
  <2>3. AroundLowest(start, 0, top, levels, total)
    BY <2>1, <2>2 DEF AroundLowest
  <2> QED BY <1>2, <2>3
<1>7. ASSUME NEW k \in Nat, k \in S PROVE k + 1 \in S
  <2>1. AroundLowest(NarrowLowest(at[k], levels, total), k + 1, top, levels, total)
    BY <1>7, LowestNarrows
  <2> QED BY <1>4, <2>1
<1> HIDE DEF S
<1>8. \A k \in Nat : k \in S
  BY <1>6, <1>7, NaturalInduction, Zenon
<1>9. AroundLowest(at[top], top, top, levels, total)
  BY <1>8 DEF S
<1> DEFINE a == at[top].left
           b == at[top].right
<1>10. a \in Nat /\ b \in Nat /\ 1 <= a /\ a <= b /\ b <= top /\ (a < b => b - a + top < top)
  BY <1>9 DEF AroundLowest, Ends
<1>11. \A p \in 1..top : /\ p < a => Most(levels, p) < total
                         /\ p >= b => Most(levels, p) >= total
  BY <1>9 DEF AroundLowest
<1> HIDE DEF a, b
<1>12. a = b /\ a \in 1..top
  BY <1>10
<1>13. \A p \in 1..top : Most(levels, p) >= total <=> p >= a
  BY <1>5, <1>10, <1>11, <1>12
<1> QED BY <1>3, <1>12, <1>13 DEF a

(* The highest count of low enough paths likewise. *)
AroundHighest(e, k, top, levels, total) ==
  /\ e \in Ends /\ 1 <= e.left /\ e.left <= e.right /\ e.right <= top
  /\ e.left < e.right => e.right - e.left + k < top
  /\ \A p \in 1..top : /\ p <= e.left => Fewest(levels, p) <= total
                       /\ p > e.right => total < Fewest(levels, p)

(* Each turn of the second search keeps what is known about its ends. *)
LEMMA HighestNarrows ==
  ASSUME NEW top \in Nat, NEW levels \in Nat, levels > 0, NEW total \in Nat, NEW k \in Nat,
         NEW e, AroundHighest(e, k, top, levels, total)
  PROVE  AroundHighest(NarrowHighest(e, levels, total), k + 1, top, levels, total)
<1> DEFINE a == e.left
           b == e.right
           middle == a + (b - a) \div 2 + 1
           low(p) == Fewest(levels, p) <= total
<1>1. /\ e \in Ends /\ a \in Nat /\ b \in Nat /\ 1 <= a /\ a <= b /\ b <= top
      /\ a < b => b - a + k < top
      /\ \A p \in 1..top : (p <= a => low(p)) /\ (p > b => ~low(p))
  <2>1. \A p \in 1..top : Fewest(levels, p) \in Nat
    <3>1. \A p \in 1..top : p \in Nat /\ p > 0
      OBVIOUS
    <3> QED BY <3>1, PathUnfolds
  <2> QED BY <2>1 DEF AroundHighest, Ends
<1>2. ASSUME NEW p \in 1..top, NEW q \in 1..top, p <= q, low(q) PROVE low(p)
  <2>1. p \in Nat /\ p > 0 /\ q \in Nat
    OBVIOUS
  <2>2. Fewest(levels, p) \in Nat /\ Fewest(levels, q) \in Nat /\ Fewest(levels, p) <= Fewest(levels, q)
    BY <1>2, <2>1, SumsGrow
  <2> QED BY <1>2, <2>2
<1>3. NarrowHighest(e, levels, total) =
        IF a >= b THEN e
        ELSE IF low(middle) THEN [e EXCEPT !.left = middle]
        ELSE [e EXCEPT !.right = middle - 1]
  <2>1. MinimumPathSumAtMost(middle, levels, total) <=> low(middle)
    BY PathLoops
  <2> QED BY <2>1, Zenon DEF NarrowHighest
<1>4. \A p \in 1..top : Fewest(levels, p) \in Nat
  <2>1. \A p \in 1..top : p \in Nat /\ p > 0
    OBVIOUS
  <2> QED BY <2>1, PathUnfolds
<1>5. ASSUME NEW s \in Ends, 1 <= s.left, s.left <= s.right, s.right <= top,
             s.left < s.right => s.right - s.left + (k + 1) < top,
             \A p \in 1..top : (p <= s.left => low(p)) /\ (p > s.right => ~low(p))
      PROVE  AroundHighest(s, k + 1, top, levels, total)
  BY <1>4, <1>5 DEF AroundHighest
<1> HIDE DEF low
<1>6. CASE a >= b
  <2>1. a = b
    BY <1>1, <1>6
  <2> QED BY <1>1, <1>3, <1>5, <1>6, <2>1
<1>7. CASE ~(a >= b)
  <2>1. middle \in Nat /\ a < middle /\ middle <= b /\ middle \in 1..top /\ middle - 1 \in Nat
    <3> DEFINE h == (b - a) \div 2
    <3>1. h \in Nat /\ h < b - a
      BY <1>1, <1>7
    <3>2. middle = a + h + 1
      OBVIOUS
    <3> HIDE DEF h, middle
    <3> QED BY <1>1, <1>7, <3>1, <3>2
  <2> HIDE DEF middle
  <2>2. CASE low(middle)
    <3> DEFINE s == [e EXCEPT !.left = middle]
    <3>1. s \in Ends /\ s.left = middle /\ s.right = b
      BY <1>1, <2>1 DEF Ends
    <3>2. NarrowHighest(e, levels, total) = s
      BY <1>3, <1>7, <2>2
    <3> HIDE DEF s
    <3>3. \A p \in 1..top : (p <= middle => low(p)) /\ (p > b => ~low(p))
      BY <1>1, <1>2, <2>1, <2>2
    <3>4. 1 <= middle /\ (middle < b => b - middle + (k + 1) < top)
      BY <1>1, <1>7, <2>1
    <3> HIDE DEF a, b
    <3> QED BY <1>1, <1>5, <2>1, <3>1, <3>2, <3>3, <3>4
  <2>3. CASE ~low(middle)
    <3> DEFINE s == [e EXCEPT !.right = middle - 1]
    <3>1. s \in Ends /\ s.left = a /\ s.right = middle - 1
      BY <1>1, <2>1 DEF Ends
    <3>2. NarrowHighest(e, levels, total) = s
      BY <1>3, <1>7, <2>3
    <3> HIDE DEF s
    <3>3. ASSUME NEW p \in 1..top PROVE (p <= a => low(p)) /\ (p > middle - 1 => ~low(p))
      <4>1. p > middle - 1 => middle <= p
        BY <2>1
      <4> QED BY <1>1, <1>2, <2>1, <2>3, <4>1
    <3>4. /\ a <= middle - 1 /\ middle - 1 <= top
          /\ a < middle - 1 => (middle - 1) - a + (k + 1) < top
      BY <1>1, <1>7, <2>1
    <3> HIDE DEF a, b
    <3> QED BY <1>1, <1>5, <2>1, <3>1, <3>2, <3>3, <3>4
  <2> QED BY <2>2, <2>3
<1> QED BY <1>6, <1>7

(* The second search finds the highest first count whose smallest path stays
   within the total. *)
LEMMA HighestIs ==
  ASSUME NEW top \in Nat, top > 0, NEW levels \in Nat, levels > 0, NEW total \in Nat,
         Fewest(levels, 1) <= total
  PROVE  /\ HighestFirst(top, levels, total) \in 1..top
         /\ \A p \in 1..top : Fewest(levels, p) <= total <=> p <= HighestFirst(top, levels, total)
<1> DEFINE turn == [e \in Ends |-> NarrowHighest(e, levels, total)]
           start == [left |-> 1, right |-> top]
           at == LoopAfter(turn, start)
<1>1. turn \in [Ends -> Ends] /\ start \in Ends
  <2>1. ASSUME NEW e \in Ends PROVE NarrowHighest(e, levels, total) \in Ends
    <3> DEFINE middle == e.left + (e.right - e.left) \div 2 + 1
    <3>1. NarrowHighest(e, levels, total) =
            IF e.left >= e.right THEN e
            ELSE IF MinimumPathSumAtMost(middle, levels, total) THEN [e EXCEPT !.left = middle]
            ELSE [e EXCEPT !.right = middle - 1]
      BY Zenon DEF NarrowHighest
    <3>2. ~(e.left >= e.right) => middle \in Nat /\ middle - 1 \in Nat
      BY DEF Ends
    <3> HIDE DEF middle
    <3> QED BY <3>1, <3>2 DEF Ends
  <2> QED BY <2>1 DEF Ends
<1>2. at \in [Nat -> Ends] /\ at[0] = start /\ \A k \in Nat : at[k + 1] = turn[at[k]]
  <2> HIDE DEF turn, start
  <2> QED BY <1>1, LoopTurns
<1>3. HighestFirst(top, levels, total) = at[top].left
  BY DEF HighestFirst
<1> HIDE DEF at
<1>4. \A k \in Nat : at[k + 1] = NarrowHighest(at[k], levels, total)
  BY <1>2
<1>5. \A p \in 1..top : p \in Nat /\ p > 0 /\ Fewest(levels, p) \in Nat
  <2>1. \A p \in 1..top : p \in Nat /\ p > 0
    OBVIOUS
  <2> QED BY <2>1, PathUnfolds
<1> DEFINE S == {k \in Nat : AroundHighest(at[k], k, top, levels, total)}
<1>6. 0 \in S
  <2>1. \A p \in 1..top : ~(p > top) /\ (p <= 1 => p = 1)
    OBVIOUS
  <2>2. start.left = 1 /\ start.right = top /\ start \in Ends
    BY <1>1
  <2> HIDE DEF start
  <2>3. AroundHighest(start, 0, top, levels, total)
    BY <2>1, <2>2 DEF AroundHighest
  <2> QED BY <1>2, <2>3
<1>7. ASSUME NEW k \in Nat, k \in S PROVE k + 1 \in S
  <2>1. AroundHighest(NarrowHighest(at[k], levels, total), k + 1, top, levels, total)
    BY <1>7, HighestNarrows
  <2> QED BY <1>4, <2>1
<1> HIDE DEF S
<1>8. \A k \in Nat : k \in S
  BY <1>6, <1>7, NaturalInduction, Zenon
<1>9. AroundHighest(at[top], top, top, levels, total)
  BY <1>8 DEF S
<1> DEFINE a == at[top].left
           b == at[top].right
<1>10. a \in Nat /\ b \in Nat /\ 1 <= a /\ a <= b /\ b <= top /\ (a < b => b - a + top < top)
  BY <1>9 DEF AroundHighest, Ends
<1>11. \A p \in 1..top : /\ p <= a => Fewest(levels, p) <= total
                         /\ p > b => total < Fewest(levels, p)
  BY <1>9 DEF AroundHighest
<1> HIDE DEF a, b
<1>12. a = b /\ a \in 1..top
  BY <1>10
<1>13. \A p \in 1..top : Fewest(levels, p) <= total <=> p <= a
  BY <1>5, <1>10, <1>11, <1>12
<1> QED BY <1>3, <1>12, <1>13 DEF a

------------------------------------------------------------------------------
(* The first count.                                                        *)

(* Paths of ones are the smallest, and no path is shorter than its first count
   and a one for each level after it. *)
LEMMA ShortestPaths ==
  ASSUME NEW l \in Nat, NEW c \in Nat, c > 0
  PROVE  Fewest(l, 1) = l /\ (l > 0 => Fewest(l, c) >= c + l - 1 /\ Most(l, c) >= c + l - 1)
<1>1. l > 0 => Fewest(l, c) >= c + l - 1 /\ Fewest(l, c) <= Most(l, c)
  BY PathsAreOrderly DEF Orderly
<1>2. Fewest(l, c) \in Nat /\ Most(l, c) \in Nat
  BY PathUnfolds
<1> DEFINE S == {k \in Nat : Fewest(k, 1) = k}
<1>3. 0 \in S
  BY PathUnfolds
<1>4. ASSUME NEW k \in Nat, k \in S PROVE k + 1 \in S
  <2>1. MinNext(1) = 1
    BY DEF MinNext, CeilThreeQuarters
  <2>2. Fewest(k + 1, 1) = 1 + Fewest(k, MinNext(1))
    BY PathUnfolds
  <2> QED BY <1>4, <2>1, <2>2
<1> HIDE DEF S
<1>5. \A k \in Nat : k \in S
  BY <1>3, <1>4, NaturalInduction, Zenon
<1>6. Fewest(l, 1) = l
  BY <1>5 DEF S
<1> QED BY <1>1, <1>2, <1>6

(* How far four times a count is from the total. *)
Off(c, total) == IF 4 * c < total THEN total - 4 * c ELSE 4 * c - total

(* Moving the estimate between two bounds gives the nearest between them. *)
LEMMA ClampIsNearest ==
  ASSUME NEW total \in Nat, NEW lo \in Nat, NEW hi \in Nat, lo <= hi,
         NEW first, first = IF NearestEstimate(total) < lo THEN lo
                            ELSE IF NearestEstimate(total) > hi THEN hi ELSE NearestEstimate(total)
  PROVE  /\ first \in lo..hi
         /\ \A x \in lo..hi : /\ Off(first, total) <= Off(x, total)
                              /\ Off(x, total) = Off(first, total) => first <= x
<1> DEFINE q == total \div 4
           r == total % 4
           e == NearestEstimate(total)
<1>1. q \in Nat /\ r \in 0..3 /\ total = 4 * q + r
  OBVIOUS
<1>2. e = IF r <= 2 THEN q ELSE q + 1
  BY DEF NearestEstimate
<1>3. first = IF e < lo THEN lo ELSE IF e > hi THEN hi ELSE e
  OBVIOUS
<1> HIDE DEF q, r, e
<1>4. first \in lo..hi /\ first \in Nat
  BY <1>1, <1>2, <1>3
<1>5. ASSUME NEW x \in lo..hi
      PROVE  Off(first, total) <= Off(x, total) /\ (Off(x, total) = Off(first, total) => first <= x)
  <2>1. CASE r <= 2
    BY <1>1, <1>2, <1>3, <1>4, <2>1 DEF Off
  <2>2. CASE r = 3
    BY <1>1, <1>2, <1>3, <1>4, <2>2 DEF Off
  <2> QED BY <1>1, <2>1, <2>2
<1> QED BY <1>4, <1>5

(* nearest_feasible_first_count: a first count that the levels can complete, none
   of them nearer to a quarter of the total, the smaller of two as near. *)
LEMMA NearestFirstIs ==
  ASSUME NEW total \in Nat, NEW levels \in Nat, levels > 0, levels <= total
  PROVE  \E first \in 1..total :
           /\ NearestFirst(total, levels) = {first} /\ Completes(levels, first, total)
           /\ \A x \in 1..total : Completes(levels, x, total) =>
                /\ Off(first, total) <= Off(x, total)
                /\ Off(x, total) = Off(first, total) => first <= x
<1> DEFINE top == total - (levels - 1)
           lowest == LowestFirst(top, levels, total)
           highest == HighestFirst(top, levels, total)
           estimate == NearestEstimate(total)
           first == IF estimate < lowest THEN lowest
                    ELSE IF estimate > highest THEN highest ELSE estimate
           counts == BucketCounts(first, total, levels)
<1>1. top \in Nat /\ top > 0 /\ top <= total /\ top + levels - 1 = total
  OBVIOUS
<1>2. NearestFirst(total, levels) =
        IF \/ levels = 0 \/ total < levels - 1
           \/ ~MaximumPathSumAtLeast(top, levels, total)
           \/ ~MinimumPathSumAtMost(1, levels, total)
           \/ lowest > highest
           \/ Len(counts) # levels \/ Total(counts) # total
        THEN {} ELSE {first}
  BY Zenon DEF NearestFirst
<1> HIDE DEF top
<1>3. Most(levels, top) >= total /\ Fewest(levels, 1) <= total /\ Fewest(levels, 1) \in Nat
  <2>1. Most(levels, top) >= top + levels - 1
    BY <1>1, ShortestPaths
  <2>2. Fewest(levels, 1) = levels
    BY <1>1, ShortestPaths
  <2> QED BY <1>1, <2>1, <2>2
<1>4. lowest \in 1..top /\ \A p \in 1..top : Most(levels, p) >= total <=> p >= lowest
  BY <1>1, <1>3, LowestIs
<1>5. highest \in 1..top /\ \A p \in 1..top : Fewest(levels, p) <= total <=> p <= highest
  BY <1>1, <1>3, HighestIs
<1> HIDE DEF lowest, highest
<1>6. \A p \in 1..top : p \in Nat /\ p > 0 /\ Fewest(levels, p) \in Nat /\ Most(levels, p) \in Nat
  <2>1. \A p \in 1..top : p \in Nat /\ p > 0
    BY <1>1
  <2> QED BY <2>1, PathUnfolds
<1>7. ASSUME NEW p \in 1..total PROVE Completes(levels, p, total) <=> p \in lowest..highest
  <2>1. CASE p \in 1..top
    <3>1. Most(levels, p) >= total <=> p >= lowest
      BY <1>4, <2>1
    <3>2. Fewest(levels, p) <= total <=> p <= highest
      BY <1>5, <2>1
    <3>3. Most(levels, p) \in Nat /\ Fewest(levels, p) \in Nat
      BY <1>6, <2>1
    <3> QED BY <1>4, <1>5, <3>1, <3>2, <3>3 DEF Completes
  <2>2. CASE p \notin 1..top
    <3>1. p \in Nat /\ p > 0 /\ p > top
      BY <1>1, <2>2
    <3>2. Fewest(levels, p) >= p + levels - 1
      BY <3>1, ShortestPaths
    <3>3. Fewest(levels, p) \in Nat
      BY <3>1, PathUnfolds
    <3> QED BY <1>1, <1>4, <1>5, <3>1, <3>2, <3>3 DEF Completes
  <2> QED BY <2>1, <2>2
<1>8. lowest <= highest
  <2>1. PICK p \in 1..top : Completes(levels, p, total)
    <3>1. 1 \in Nat \ {0} /\ 1 <= top /\ total \in Int /\ total <= Most(levels, top)
      <4>1. Most(levels, top) \in Nat
        BY <1>1, <1>6
      <4> QED BY <1>1, <1>3, <4>1
    <3> QED BY <1>1, <1>3, <3>1, SomeCompletes
  <2>2. p \in 1..total
    BY <1>1, <2>1
  <2>3. p \in lowest..highest
    BY <1>7, <2>1, <2>2
  <2> QED BY <1>4, <1>5, <2>3
<1>9. /\ first \in lowest..highest
      /\ \A x \in lowest..highest : /\ Off(first, total) <= Off(x, total)
                                    /\ Off(x, total) = Off(first, total) => first <= x
  <2>1. lowest \in Nat /\ highest \in Nat
    BY <1>4, <1>5
  <2> QED BY <1>8, <2>1, ClampIsNearest
<1> HIDE DEF first, estimate
<1>10. first \in 1..total /\ first \in Nat /\ first > 0 /\ Completes(levels, first, total)
  <2>1. first \in 1..total
    BY <1>1, <1>4, <1>5, <1>9
  <2> QED BY <1>7, <1>9, <2>1
<1>11. Len(counts) = levels /\ Total(counts) = total
  <2>1. PICK rest : Partition(counts, rest, total, levels)
    BY <1>10, BucketsRun
  <2> QED BY <2>1, PartitionSums
<1> HIDE DEF counts
<1>12. NearestFirst(total, levels) = {first}
  <2>1. MaximumPathSumAtLeast(top, levels, total) /\ MinimumPathSumAtMost(1, levels, total)
    BY <1>3, PathLoops
  <2>2. ~(lowest > highest) /\ ~(total < levels - 1) /\ levels # 0
    BY <1>4, <1>5, <1>8
  <2> QED BY <1>2, <1>11, <2>1, <2>2
<1> QED BY <1>7, <1>9, <1>10, <1>12

------------------------------------------------------------------------------
(* The sums of the paths.                                                  *)

(* The pairs of one level more are those of a count and a path after it. *)
LEMMA PrecededIs ==
  ASSUME NEW s \in SUBSET ((1..MaxBuckets) \X (1..MaxBuckets))
  PROVE  /\ Preceded(s) \in SUBSET ((1..MaxBuckets) \X (1..MaxBuckets))
         /\ \A c, t \in 1..MaxBuckets :
              <<c, t>> \in Preceded(s) <=> \E x \in Adjacent(c) : <<x, t - c>> \in s
<1> DEFINE B == 1..MaxBuckets
           firsts(p) == {c \in p[1]..(2 * p[1] + 3) : p[1] \in Adjacent(c) /\ c + p[2] <= MaxBuckets}
           pairs(p) == {<<c, c + p[2]>> : c \in firsts(p)}
<1>1. MaxBuckets \in Nat
  BY BoundAssumption
<1>2. Preceded(s) = UNION {pairs(p) : p \in s}
  BY Zenon DEF Preceded
<1>3. ASSUME NEW p \in s, NEW c \in firsts(p) PROVE c \in B /\ c + p[2] \in B
  <2>1. p[1] \in B /\ p[2] \in B
    OBVIOUS
  <2>2. c \in Int /\ p[1] <= c /\ c + p[2] <= MaxBuckets
    BY <1>1, <2>1
  <2> HIDE DEF firsts
  <2> QED BY <1>1, <2>1, <2>2
<1>4. Preceded(s) \in SUBSET (B \X B)
  <2>1. ASSUME NEW p \in s, NEW z \in pairs(p) PROVE z \in B \X B
    <3>1. PICK c \in firsts(p) : z = <<c, c + p[2]>>
      OBVIOUS
    <3> HIDE DEF firsts
    <3> QED BY <1>3, <3>1
  <2> HIDE DEF pairs
  <2> QED BY <1>2, <2>1
<1>5. ASSUME NEW c \in B, NEW t \in B, <<c, t>> \in Preceded(s)
      PROVE  \E x \in Adjacent(c) : <<x, t - c>> \in s
  <2>1. PICK p \in s : <<c, t>> \in pairs(p)
    <3> HIDE DEF pairs
    <3> QED BY <1>2, <1>5
  <2>2. PICK e \in firsts(p) : <<c, t>> = <<e, e + p[2]>>
    BY <2>1
  <2>3. c = e /\ t = c + p[2] /\ p[1] \in Adjacent(c)
    BY <2>2
  <2>4. p[1] \in B /\ p[2] \in B /\ p = <<p[1], p[2]>>
    OBVIOUS
  <2>5. t - c = p[2]
    BY <1>1, <2>3, <2>4
  <2>6. <<p[1], t - c>> \in s
    BY <2>4, <2>5
  <2> QED BY <2>3, <2>6
<1>6. ASSUME NEW c \in B, NEW t \in B, NEW x \in Adjacent(c), <<x, t - c>> \in s
      PROVE  <<c, t>> \in Preceded(s)
  <2> DEFINE p == <<x, t - c>>
  <2>1. p \in s /\ p[1] = x /\ p[2] = t - c /\ x \in B
    BY <1>6
  <2>2. c \in Nat /\ t \in Nat /\ c + (t - c) = t /\ t <= MaxBuckets
    BY <1>1
  <2>3. x <= c /\ c <= 2 * x + 3
    BY <1>1, <1>6, <2>1, <2>2 DEF Adjacent
  <2>4. c \in firsts(p)
    BY <1>1, <2>1, <2>2, <2>3, <1>6
  <2>5. <<c, t>> \in pairs(p)
    <3> HIDE DEF firsts, p
    <3> QED BY <2>1, <2>2, <2>4
  <2> HIDE DEF pairs, p
  <2> QED BY <1>2, <2>1, <2>5
<1> QED BY <1>4, <1>5, <1>6

(* The pairs built level by level are the sums between the smallest and the
   largest path. *)
LEMMA PathSumsAre ==
  ASSUME NEW l \in 1..MaxLevels, NEW c \in 1..MaxBuckets, NEW t \in 1..MaxBuckets
  PROVE  <<c, t>> \in PathSums[l] <=> Completes(l, c, t)
<1> DEFINE B == 1..MaxBuckets
           Sums == SUBSET (B \X B)
           turn == [s \in Sums |-> Preceded(s)]
           start == {<<e, e>> : e \in B}
           at == LoopAfter(turn, start)
<1>1. MaxBuckets \in Nat /\ MaxLevels \in Nat
  BY BoundAssumption
<1>2. turn \in [Sums -> Sums] /\ start \in Sums
  <2>1. turn \in [Sums -> Sums]
    BY PrecededIs
  <2> QED BY <2>1
<1>3. at \in [Nat -> Sums] /\ at[0] = start /\ \A k \in Nat : at[k + 1] = turn[at[k]]
  <2> HIDE DEF turn, start, Sums
  <2> QED BY <1>2, LoopTurns
<1>4. PathSums[l] = at[l - 1]
  BY DEF PathSums
<1> HIDE DEF at
<1>5. \A k \in Nat : at[k] \in Sums /\ at[k + 1] = Preceded(at[k])
  BY <1>3
<1> DEFINE S == {k \in Nat : \A e, u \in B : <<e, u>> \in at[k] <=> Completes(k + 1, e, u)}
<1>6. 0 \in S
  <2>1. ASSUME NEW e \in B, NEW u \in B PROVE <<e, u>> \in start <=> Completes(0 + 1, e, u)
    <3>1. e \in Nat /\ e > 0 /\ u \in Nat
      OBVIOUS
    <3>2. MinNext(e) \in 1..e /\ MaxNext(e) \in 1..e
      BY <3>1, NextCounts
    <3>3. MinNext(e) \in Nat /\ MinNext(e) > 0 /\ MaxNext(e) \in Nat /\ MaxNext(e) > 0 /\ 0 \in Nat
      BY <3>1, <3>2
    <3>4. Fewest(0, MinNext(e)) = 0 /\ Most(0, MaxNext(e)) = 0
      BY <3>3, PathUnfolds
    <3>5. Fewest(0 + 1, e) = e + Fewest(0, MinNext(e)) /\ Most(0 + 1, e) = e + Most(0, MaxNext(e))
      BY <3>1, <3>3, PathUnfolds
    <3>6. Completes(0 + 1, e, u) <=> u = e
      BY <3>1, <3>4, <3>5 DEF Completes
    <3>7. <<e, u>> \in start <=> u = e
      OBVIOUS
    <3> QED BY <3>6, <3>7
  <2> HIDE DEF start
  <2> QED BY <1>3, <2>1
<1>7. ASSUME NEW k \in Nat, k \in S PROVE k + 1 \in S
  <2>1. ASSUME NEW e \in B, NEW u \in B
        PROVE  <<e, u>> \in at[k + 1] <=> Completes((k + 1) + 1, e, u)
    <3>1. e \in Nat /\ e > 0 /\ u \in Nat /\ u \in Int /\ k + 1 \in Nat /\ k + 1 > 0
      OBVIOUS
    <3>2. <<e, u>> \in at[k + 1] <=> \E x \in Adjacent(e) : <<x, u - e>> \in at[k]
      <4>1. at[k] \in SUBSET (B \X B) /\ at[k + 1] = Preceded(at[k])
        BY <1>5
      <4>2. <<e, u>> \in Preceded(at[k]) <=> \E x \in Adjacent(e) : <<x, u - e>> \in at[k]
        BY <4>1, PrecededIs
      <4> QED BY <4>1, <4>2
    <3>3. Completes((k + 1) + 1, e, u) <=> \E x \in Adjacent(e) : Completes(k + 1, x, u - e)
      BY <3>1, CompletesNext
    <3>4. ASSUME NEW x \in Adjacent(e) PROVE <<x, u - e>> \in at[k] <=> Completes(k + 1, x, u - e)
      <4>1. x \in B /\ x \in Nat /\ x > 0
        BY <1>1 DEF Adjacent
      <4>2. CASE u - e \in B
        BY <1>7, <4>1, <4>2
      <4>3. CASE u - e \notin B
        <5>1. <<x, u - e>> \notin at[k]
          <6>1. at[k] \in SUBSET (B \X B)
            BY <1>5
          <6> HIDE DEF B
          <6> QED BY <4>3, <6>1
        <5>2. Fewest(k + 1, x) >= x + (k + 1) - 1 /\ Fewest(k + 1, x) \in Nat
          BY <3>1, <4>1, ShortestPaths, PathUnfolds
        <5>3. u - e <= 0
          BY <1>1, <3>1, <4>3
        <5>4. ~Completes(k + 1, x, u - e)
          BY <3>1, <4>1, <5>2, <5>3 DEF Completes
        <5> QED BY <5>1, <5>4
      <4> QED BY <4>2, <4>3
    <3> QED BY <3>2, <3>3, <3>4
  <2> QED BY <2>1
<1> HIDE DEF S
<1>8. \A k \in Nat : k \in S
  BY <1>6, <1>7, NaturalInduction, Zenon
<1>9. l - 1 \in S /\ (l - 1) + 1 = l
  BY <1>1, <1>8
<1> QED BY <1>4, <1>9 DEF S

------------------------------------------------------------------------------

(* The inputs of the questions about the plan. *)
LEMMA PlanQuestions ==
  ASSUME QuestionInv
  PROVE  /\ Asked("buckets") => /\ input \in (1..MaxBuckets) \X (1..MaxLevels)
                                /\ input[2] <= input[1]
         /\ Asked("special") => input \in Usize \X Nat
         /\ Asked("minimum") => input \in Usize \X Nat
         /\ Asked("request") => input \in Inputs.request /\ input \in Usize \X Nat
BY PlanInputAssumption DEF QuestionInv, Asked

(* Every question about the buckets is answered as BucketsAreNearest says. *)
LEMMA BucketsAnswer ==
  QuestionInv => BucketsAreNearest
<1> SUFFICES ASSUME QuestionInv, Asked("buckets")
             PROVE  BucketsAreNearest
  BY DEF BucketsAreNearest
<1> DEFINE total == input[1]
           levels == input[2]
           firsts == {c \in 1..total : <<c, total>> \in PathSums[levels]}
           off(c) == IF 4 * c < total THEN total - 4 * c ELSE 4 * c - total
           near == {c \in firsts : \A x \in firsts : off(c) <= off(x)}
           counts(first) == BucketCounts(first, total, levels)
           left(first, i) == total - Total(SubSeq(counts(first), 1, i))
           Best(first) ==
             /\ Len(counts(first)) = levels /\ Total(counts(first)) = total
             /\ {counts(first)[1]} = Least(near)
             /\ \A i \in 1..(levels - 1) :
                  {counts(first)[i + 1]} = Greatest({x \in Adjacent(counts(first)[i]) :
                                                       <<x, left(first, i)>> \in PathSums[levels - i]})
<1>1. /\ total \in 1..MaxBuckets /\ levels \in 1..MaxLevels /\ levels <= total
      /\ MaxBuckets \in Nat /\ MaxLevels \in Nat
  BY PlanQuestions, BoundAssumption
<1>2. BucketsAreNearest <=> \E first \in NearestFirst(total, levels) : Best(first)
  BY Zenon DEF BucketsAreNearest
<1> HIDE DEF total, levels
<1>3. total \in Nat /\ levels \in Nat /\ levels > 0 /\ levels <= total
  BY <1>1
<1>4. PICK first \in 1..total :
        /\ NearestFirst(total, levels) = {first} /\ Completes(levels, first, total)
        /\ \A x \in 1..total : Completes(levels, x, total) =>
             /\ Off(first, total) <= Off(x, total)
             /\ Off(x, total) = Off(first, total) => first <= x
  BY <1>3, NearestFirstIs
<1>5. \A c \in 1..total : <<c, total>> \in PathSums[levels] <=> Completes(levels, c, total)
  <2>1. \A c \in 1..total : c \in 1..MaxBuckets
    BY <1>1
  <2> QED BY <1>1, <2>1, PathSumsAre
<1>6. Least(near) = {first}
  <2>1. \A c : off(c) = Off(c, total)
    BY DEF Off
  <2> HIDE DEF off
  <2>2. \A c \in 1..total : Off(c, total) \in Nat /\ c \in Nat
    BY <1>3 DEF Off
  <2>3. first \in near
    BY <1>4, <1>5, <2>1
  <2>4. ASSUME NEW x \in near PROVE x \in 1..total /\ first <= x
    <3>1. x \in 1..total /\ Completes(levels, x, total) /\ off(x) <= off(first)
      BY <1>4, <1>5, <2>3
    <3> QED BY <1>4, <2>1, <2>2, <3>1
  <2> HIDE DEF near
  <2>5. \A x \in near : x \in Nat /\ first <= x
    BY <2>2, <2>4
  <2>6. first \in Nat
    BY <2>2
  <2>7. \A x \in near : x <= first => x = first
    BY <2>5, <2>6
  <2>8. Least(near) = {x \in near : \A y \in near : x <= y}
    BY DEF Least
  <2> QED BY <2>3, <2>5, <2>7, <2>8
<1>7. first \in Nat /\ first > 0
  OBVIOUS
<1>8. PICK rest : Partition(counts(first), rest, total, levels)
  BY <1>3, <1>4, <1>7, BucketsRun
<1>9. counts(first)[1] = first
  BY <1>3, <1>4, <1>7, BucketsRun
<1>10. /\ Len(counts(first)) = levels /\ Total(counts(first)) = total
       /\ \A i \in 1..(levels - 1) : left(first, i) = rest[i]
  BY <1>3, <1>8, PartitionSums
<1> HIDE DEF counts, left, near
<1>11. ASSUME NEW i \in 1..(levels - 1)
       PROVE  {counts(first)[i + 1]} = Greatest({x \in Adjacent(counts(first)[i]) :
                                                   <<x, left(first, i)>> \in PathSums[levels - i]})
  <2> DEFINE c == counts(first)[i]
             u == rest[i]
  <2>1. u > 0 /\ {counts(first)[i + 1]} = Greatest({y \in Adjacent(c) : Completes(levels - i, y, u)})
    BY <1>8 DEF Partition
  <2>2. u \in 1..MaxBuckets /\ c \in 1..MaxBuckets
    <3>1. /\ \A j \in 1..levels : /\ rest[j] \in Nat /\ rest[j - 1] \in Nat
                                  /\ counts(first)[j] \in Nat /\ counts(first)[j] > 0
                                  /\ rest[j] = rest[j - 1] - counts(first)[j]
          /\ rest[0] = total
      <4>1. /\ counts(first) \in Seq(Nat) /\ Len(counts(first)) = levels
            /\ rest \in [0..levels -> Nat] /\ rest[0] = total
            /\ \A j \in 1..levels : counts(first)[j] > 0 /\ rest[j] = rest[j - 1] - counts(first)[j]
        BY <1>8 DEF Partition
      <4>2. \A j \in 1..levels : j \in 0..levels /\ j - 1 \in 0..levels
        BY <1>3
      <4>3. \A j \in 1..levels : rest[j] \in Nat /\ rest[j - 1] \in Nat
        BY <4>1, <4>2
      <4>4. \A j \in 1..levels : counts(first)[j] \in Nat
        BY <4>1
      <4> QED BY <4>1, <4>3, <4>4
    <3> DEFINE S == {j \in 0..levels : rest[j] <= total}
    <3>2. 0 \in S
      BY <1>3, <3>1
    <3>3. ASSUME NEW j \in 0..levels, j < levels, j \in S PROVE j + 1 \in S
      <4>1. j + 1 \in 1..levels /\ (j + 1) - 1 = j
        BY <1>3, <3>3
      <4> QED BY <1>3, <3>1, <3>3, <4>1
    <3> HIDE DEF S
    <3>4. \A j \in 0..levels : j \in S
      BY <1>3, <3>2, <3>3, PositionInduction
    <3>5. i \in 1..levels /\ i - 1 \in 0..levels /\ i \in 0..levels
      BY <1>3
    <3>6. rest[i] <= total /\ rest[i - 1] <= total
      BY <3>4, <3>5 DEF S
    <3> QED BY <1>1, <2>1, <3>1, <3>5, <3>6
  <2>3. ASSUME NEW x \in Adjacent(c) PROVE <<x, u>> \in PathSums[levels - i] <=> Completes(levels - i, x, u)
    <3>1. x \in 1..MaxBuckets
      BY <1>1, <2>2 DEF Adjacent
    <3>2. levels - i \in 1..MaxLevels
      BY <1>1
    <3> HIDE DEF u, c
    <3> QED BY <2>2, <3>1, <3>2, PathSumsAre
  <2>4. left(first, i) = u
    BY <1>10
  <2> HIDE DEF c, u
  <2>5. {y \in Adjacent(c) : Completes(levels - i, y, u)}
          = {x \in Adjacent(c) : <<x, left(first, i)>> \in PathSums[levels - i]}
    BY <2>3, <2>4
  <2> QED BY <2>1, <2>5 DEF c
<1>12. Best(first)
  BY <1>6, <1>9, <1>10, <1>11
<1> HIDE DEF Best
<1> QED BY <1>2, <1>4, <1>12

(* The ordinary buckets of a Funnel table (nearest_feasible_first_count and
   FunnelBucketCounts) split every total into the levels, from the feasible first
   count nearest to a quarter, and each later count is the largest feasible. *)
THEOREM BucketsAreNearestHolds == Spec => []BucketsAreNearest
BY QuestionsAreInputs, BucketsAnswer, PTL

------------------------------------------------------------------------------
(* Divisors and multiples.                                                 *)

Divides(g, x) == \E a \in Nat : x = a * g

(* A divisor of two numbers divides what is made of them. *)
LEMMA DividesSums ==
  ASSUME NEW g \in Nat, NEW x \in Nat, NEW y \in Nat, NEW q \in Nat, Divides(g, x), Divides(g, y)
  PROVE  Divides(g, q * x + y)
<1>1. PICK a \in Nat : x = a * g
  BY DEF Divides
<1>2. PICK b \in Nat : y = b * g
  BY DEF Divides
<1>3. q * a + b \in Nat /\ q * (a * g) = (q * a) * g
  OBVIOUS
<1>4. q * x + y = (q * a + b) * g
  BY <1>1, <1>2, <1>3
<1> QED BY <1>3, <1>4 DEF Divides

(* Euclid's loop ends within its turns, at a number that divides both. *)
LEMMA GcdDivides ==
  ASSUME NEW l \in Nat, NEW r \in Nat, r > 0
  PROVE  /\ Gcd(l, r) \in Nat /\ Gcd(l, r) > 0
         /\ Divides(Gcd(l, r), l) /\ Divides(Gcd(l, r), r)
<1> DEFINE turn == [p \in Divided |-> IF p.right = 0 THEN p
                                      ELSE [left |-> p.right, right |-> p.left % p.right]]
           start == [left |-> l, right |-> r]
           at == LoopAfter(turn, start)
<1>1. turn \in [Divided -> Divided] /\ start \in Divided
  <2>1. ASSUME NEW p \in Divided, p.right # 0 PROVE p.right \in Nat /\ p.left % p.right \in Nat
    <3>1. p.left \in Nat /\ p.right \in Nat /\ p.right > 0
      BY <2>1 DEF Divided
    <3> QED BY <3>1, Remainder
  <2> QED BY <2>1 DEF Divided
<1>2. at \in [Nat -> Divided] /\ at[0] = start /\ \A k \in Nat : at[k + 1] = turn[at[k]]
  <2> HIDE DEF turn, start
  <2> QED BY <1>1, LoopTurns
<1>3. Gcd(l, r) = at[r].left
  BY Zenon DEF Gcd
<1> HIDE DEF at
<1>4. ASSUME NEW k \in Nat
      PROVE  /\ at[k].left \in Nat /\ at[k].right \in Nat
             /\ at[k].right = 0 => at[k + 1] = at[k]
             /\ at[k].right # 0 => /\ at[k + 1].left = at[k].right
                                   /\ at[k + 1].right = at[k].left % at[k].right
  <2>1. at[k] \in Divided /\ at[k + 1] = turn[at[k]]
    BY <1>2
  <2> QED BY <2>1 DEF Divided
<1>5. at[0].left = l /\ at[0].right = r
  BY <1>2
<1> HIDE DEF turn, start
<1> DEFINE S == {k \in Nat : /\ at[k].left > 0 \/ at[k].right > 0
                             /\ at[k].right > 0 => at[k].right + k <= r}
<1>6. \A k \in Nat : k \in S
  <2>1. 0 \in S
    BY <1>5
  <2>2. ASSUME NEW k \in Nat, k \in S PROVE k + 1 \in S
    <3>1. at[k].left \in Nat /\ at[k].right \in Nat
      BY <1>4
    <3>2. CASE at[k].right = 0
      <4>1. at[k + 1] = at[k]
        BY <1>4, <3>2
      <4> QED BY <2>2, <3>1, <3>2, <4>1
    <3>3. CASE at[k].right # 0
      <4>1. at[k + 1].left = at[k].right /\ at[k + 1].right = at[k].left % at[k].right
        BY <1>4, <3>3
      <4>2. at[k].left % at[k].right \in 0..(at[k].right - 1)
        BY <3>1, <3>3, Remainder
      <4>3. at[k].right > 0 /\ at[k].right + k <= r
        BY <2>2, <3>1, <3>3
      <4> QED BY <3>1, <4>1, <4>2, <4>3
    <3> QED BY <3>2, <3>3
  <2> HIDE DEF S
  <2> QED BY <2>1, <2>2, NaturalInduction, Zenon
<1> DEFINE g == at[r].left
<1>7. at[r].right = 0 /\ g \in Nat /\ g > 0
  BY <1>4, <1>6
<1> HIDE DEF S
<1> DEFINE Both(k) == Divides(g, at[k].left) /\ Divides(g, at[k].right)
           T == {j \in 0..r : Both(r - j)}
<1>8. 0 \in T
  <2>1. g = 1 * g /\ 0 = 0 * g
    BY <1>7
  <2>2. Divides(g, at[r].left) /\ Divides(g, at[r].right)
    <3>1. Divides(g, g) /\ Divides(g, 0)
      BY <2>1 DEF Divides
    <3> HIDE DEF g
    <3> QED BY <1>7, <3>1 DEF g
  <2>3. r - 0 = r /\ 0 \in 0..r
    OBVIOUS
  <2> HIDE DEF g
  <2> QED BY <2>2, <2>3
<1> HIDE DEF g
<1>9. ASSUME NEW j \in 0..r, j < r, j \in T PROVE j + 1 \in T
  <2> DEFINE k == r - (j + 1)
  <2>1. k \in Nat /\ k + 1 = r - j /\ j + 1 \in 0..r
    BY <1>9
  <2>2. Both(k + 1)
    BY <1>9, <2>1
  <2> HIDE DEF k
  <2>3. Both(k)
    <3>1. at[k].left \in Nat /\ at[k].right \in Nat
      BY <1>4, <2>1
    <3>2. CASE at[k].right = 0
      <4>1. at[k + 1] = at[k]
        BY <1>4, <2>1, <3>2
      <4> QED BY <2>2, <4>1
    <3>3. CASE at[k].right # 0
      <4> DEFINE x == at[k].left
                 y == at[k].right
      <4>1. at[k + 1].left = y /\ at[k + 1].right = x % y
        BY <1>4, <2>1, <3>3
      <4>2. y > 0 /\ y \in Nat /\ x \in Nat
        BY <3>1, <3>3
      <4>3. Divides(g, y) /\ Divides(g, x % y)
        BY <2>2, <4>1
      <4> HIDE DEF x, y
      <4>4. x \div y \in Nat /\ x % y \in Nat /\ x = (x \div y) * y + (x % y)
        BY <4>2, Remainder, Division
      <4>5. Divides(g, (x \div y) * y + (x % y))
        <5> DEFINE q == x \div y
                   m == x % y
        <5>1. q \in Nat /\ m \in Nat /\ Divides(g, m)
          BY <4>3, <4>4
        <5> HIDE DEF q, m
        <5>2. Divides(g, q * y + m)
          BY <1>7, <4>2, <4>3, <5>1, DividesSums
        <5> QED BY <5>2 DEF q, m
      <4>6. Divides(g, x)
        BY <4>4, <4>5
      <4> QED BY <4>3, <4>6 DEF x, y
    <3> QED BY <3>2, <3>3
  <2> HIDE DEF Both
  <2> QED BY <2>1, <2>3 DEF k
<1> HIDE DEF T
<1>10. \A j \in 0..r : j \in T
  BY <1>8, <1>9, PositionInduction
<1>11. Both(0)
  <2>1. r \in T /\ r - r = 0
    BY <1>10
  <2> HIDE DEF Both
  <2> QED BY <2>1 DEF T
<1> QED BY <1>3, <1>5, <1>7, <1>11 DEF g

(* After the residue cycle the steps of beta are whole fallback buckets on both
   sides. *)
LEMMA ResidueCycleIs ==
  ASSUME NEW beta \in Nat, NEW width \in Nat, width > 0
  PROVE  /\ ResidueCycle(beta, width) \in Nat /\ ResidueCycle(beta, width) > 0
         /\ \E b \in Nat : ResidueCycle(beta, width) * beta = 2 * (width * b)
<1> DEFINE m == 2 * width
           g == Gcd(beta, m)
<1>1. m \in Nat /\ m > 0
  OBVIOUS
<1>2. ResidueCycle(beta, width) = m \div g
  BY DEF ResidueCycle
<1> HIDE DEF m
<1>3. g \in Nat /\ g > 0 /\ Divides(g, beta) /\ Divides(g, m)
  BY <1>1, GcdDivides
<1> HIDE DEF g
<1>4. PICK a \in Nat, c \in Nat : beta = a * g /\ m = c * g
  BY <1>3 DEF Divides
<1>5. c > 0
  <2>1. c = 0 => c * g = 0
    BY <1>3
  <2> QED BY <1>1, <1>4, <2>1
<1>6. m \div g = c
  <2>1. c * g <= m /\ m < (c + 1) * g
    BY <1>3, <1>4
  <2> QED BY <1>1, <1>3, <2>1, Quotient
<1>7. c * beta = 2 * (width * a)
  <2>1. c * (a * g) = a * (c * g)
    BY <1>3
  <2>2. a * m = 2 * (width * a)
    BY DEF m
  <2> QED BY <1>4, <2>1, <2>2
<1> QED BY <1>2, <1>5, <1>6, <1>7

(* The least factor that reaches a number. *)
LEMMA CeilingIs ==
  ASSUME NEW x \in Nat, NEW y \in Nat, y > 0, NEW q \in Nat
  PROVE  CeilDiv(x, y) \in Nat /\ (q * y >= x <=> q >= CeilDiv(x, y))
<1> DEFINE c == (x + y - 1) \div y
<1>1. x + y - 1 \in Nat
  OBVIOUS
<1>2. c \in Nat /\ c * y <= x + y - 1 /\ x + y - 1 < (c + 1) * y
  <2> DEFINE z == x + y - 1
  <2> HIDE DEF z
  <2>1. z \in Nat
    BY <1>1 DEF z
  <2>2. z \div y \in Nat /\ (z \div y) * y <= z /\ z < (z \div y + 1) * y
    BY <2>1, Division
  <2> QED BY <2>2 DEF z
<1>3. CeilDiv(x, y) = c
  BY DEF CeilDiv
<1> HIDE DEF c
<1>4. (c + 1) * y = c * y + y
  BY <1>2
<1>5. c * y >= x /\ c * y <= x + y - 1
  BY <1>2, <1>4
<1>6. q >= c => q * y >= c * y
  BY <1>2
<1>7. q < c => (q + 1) * y <= c * y
  BY <1>2
<1>8. (q + 1) * y = q * y + y /\ q * y \in Nat /\ c * y \in Nat
  BY <1>2
<1> QED BY <1>2, <1>3, <1>5, <1>6, <1>7, <1>8

(* The greatest factor that stays within a number. *)
LEMMA FloorIs ==
  ASSUME NEW x \in Nat, NEW y \in Nat, y > 0, NEW q \in Nat
  PROVE  x \div y \in Nat /\ (q * y <= x <=> q <= x \div y)
<1> DEFINE c == x \div y
<1>1. c \in Nat /\ c * y <= x /\ x < (c + 1) * y
  BY Division
<1> HIDE DEF c
<1>2. q <= c => q * y <= c * y
  BY <1>1
<1>3. q >= c + 1 => q * y >= (c + 1) * y
  BY <1>1
<1>4. q * y \in Nat /\ c * y \in Nat /\ (c + 1) * y \in Nat
  BY <1>1
<1>5. q * y <= x <=> q <= c
  BY <1>1, <1>2, <1>3, <1>4
<1> QED BY <1>1, <1>5 DEF c

(* No remainder is left exactly of the multiples. *)
LEMMA MultipleIs ==
  ASSUME NEW x \in Nat, NEW y \in Nat, y > 0
  PROVE  x % y = 0 <=> Divides(y, x)
<1>1. x \div y \in Nat /\ x % y \in 0..(y - 1) /\ x = (x \div y) * y + (x % y)
  BY Remainder, Division
<1>2. x % y = 0 => Divides(y, x)
  <2> DEFINE q == x \div y
  <2>1. x % y = 0 => q \in Nat /\ x = q * y
    BY <1>1
  <2> HIDE DEF q
  <2> QED BY <2>1 DEF Divides
<1>3. ASSUME Divides(y, x) PROVE x % y = 0
  <2>1. PICK a \in Nat : x = a * y
    BY <1>3 DEF Divides
  <2>2. x \div y = a
    <3>1. a * y <= x /\ x < (a + 1) * y
      BY <2>1
    <3> QED BY <3>1, Quotient
  <2> DEFINE m == x % y
  <2>3. x = a * y + m /\ m \in Nat
    BY <1>1, <2>2
  <2> HIDE DEF m
  <2>4. m = 0
    <3>1. a * y \in Nat
      OBVIOUS
    <3> QED BY <2>1, <2>3, <3>1
  <2> QED BY <2>4 DEF m
<1> QED BY <1>2, <1>3

------------------------------------------------------------------------------
(* The special array.                                                      *)

(* So many steps of beta leave a special array between the bounds whose
   fallback half is a positive number of whole buckets. *)
Fits(n, shortest, c, beta, width, k) ==
  LET main == (c + k) * beta
      half == (n - main) \div 2
  IN  main <= n - shortest /\ half >= width /\ half % width = 0

(* A length that fits past the residue cycle fits one cycle before too, so that
   the scan may stop at the cycle. *)
LEMMA FitRepeats ==
  ASSUME NEW n \in Nat, NEW shortest \in Nat, NEW c \in Nat, NEW beta \in Nat, beta > 0,
         NEW width \in Nat, width > 0, NEW k \in Nat, shortest <= n,
         k >= ResidueCycle(beta, width), Fits(n, shortest, c, beta, width, k)
  PROVE  /\ k - ResidueCycle(beta, width) \in Nat /\ k - ResidueCycle(beta, width) < k
         /\ Fits(n, shortest, c, beta, width, k - ResidueCycle(beta, width))
<1> DEFINE y == ResidueCycle(beta, width)
           j == k - y
           m == (c + k) * beta
           l == (c + j) * beta
           h == (n - m) \div 2
           i == (n - l) \div 2
<1>1. y \in Nat /\ y > 0 /\ \E b \in Nat : y * beta = 2 * (width * b)
  BY ResidueCycleIs
<1>2. m <= n - shortest /\ h >= width /\ h % width = 0
  BY DEF Fits
<1>3. k >= y
  OBVIOUS
<1> HIDE DEF y
<1>4. PICK b \in Nat : y * beta = 2 * (width * b)
  BY <1>1
<1> DEFINE s == width * b
<1>5. s \in Nat /\ y * beta = 2 * s /\ s = b * width
  BY <1>4
<1>6. j \in Nat /\ j < k /\ c + k = (c + j) + y
  BY <1>1, <1>3
<1> HIDE DEF j
<1>7. m = l + y * beta /\ l \in Nat /\ m \in Nat
  BY <1>1, <1>6
<1> HIDE DEF m, l, s
<1>8. l <= n - shortest /\ n - m \in Nat /\ n - l = (n - m) + 2 * s
  BY <1>2, <1>5, <1>7
<1>9. h \in Nat /\ i = h + s
  BY <1>5, <1>8
<1> HIDE DEF h, i
<1>10. i \in Nat /\ i >= width
  BY <1>2, <1>5, <1>9
<1>11. i % width = 0
  <2>1. Divides(width, h)
    BY <1>2, <1>9, MultipleIs
  <2>2. Divides(width, width)
    <3>1. width = 1 * width
      OBVIOUS
    <3> QED BY <3>1 DEF Divides
  <2>3. Divides(width, b * width + h)
    BY <1>9, <2>1, <2>2, DividesSums
  <2>4. b * width + h = i
    BY <1>5, <1>9
  <2>5. Divides(width, i)
    BY <2>3, <2>4
  <2> QED BY <1>10, <2>5, MultipleIs
<1>12. Fits(n, shortest, c, beta, width, j)
  BY <1>8, <1>10, <1>11 DEF Fits, l, i
<1> QED BY <1>6, <1>12 DEF j, y

(* The lengths the special array may have, without the search. *)
Lengths(n, lower, upper, alpha, beta, width) ==
  {s \in 0..n : /\ lower <= s /\ s <= upper
                /\ (n - s) % beta = 0 /\ n - s >= alpha * beta
                /\ (s \div 2) % width = 0 /\ s \div 2 > 0}

(* The bounds of the scan. *)
Shortest(lower, width) == IF lower < 2 * width THEN 2 * width ELSE lower
Longest(n, upper, alpha, beta) == IF upper < n - alpha * beta THEN upper ELSE n - alpha * beta

(* A length that fits is within the bounds the code starts and stops at. *)
LEMMA LengthBounds ==
  ASSUME NEW n \in Nat, NEW lower \in Nat, NEW upper \in Nat, NEW alpha \in Nat,
         NEW beta \in Nat, NEW width \in Nat, width > 0,
         NEW s \in Lengths(n, lower, upper, alpha, beta, width)
  PROVE  /\ s \in Nat /\ s <= n /\ alpha * beta <= n
         /\ Shortest(lower, width) <= s /\ s <= Longest(n, upper, alpha, beta)
         /\ s \div 2 \in Nat /\ s \div 2 >= width
<1> DEFINE h == s \div 2
           p == alpha * beta
<1>1. s \in Nat /\ s <= n /\ lower <= s /\ s <= upper /\ n - s >= p /\ h % width = 0 /\ h > 0
  BY DEF Lengths
<1>2. p \in Nat /\ h \in Nat /\ 2 * h <= s
  BY <1>1
<1> HIDE DEF h, p
<1>3. h >= width
  <2>1. h < width => h % width = h
    BY <1>2
  <2> QED BY <1>1, <1>2, <2>1
<1>4. Shortest(lower, width) <= s
  BY <1>1, <1>2, <1>3 DEF Shortest
<1>5. s <= Longest(n, upper, alpha, beta) /\ p <= n
  BY <1>1, <1>2 DEF Longest, p
<1> QED BY <1>1, <1>2, <1>3, <1>4, <1>5 DEF h, p

(* The steps from the c-th multiple of beta on reach exactly those lengths. *)
StepsAreLengths(n, lower, upper, alpha, beta, width, c) ==
  /\ c \in Nat /\ c >= alpha /\ Shortest(lower, width) \in Nat /\ Shortest(lower, width) <= n
  /\ \A k \in Nat : Fits(n, Shortest(lower, width), c, beta, width, k) =>
       /\ (c + k) * beta \in Nat /\ (c + k) * beta <= n
       /\ n - (c + k) * beta \in Lengths(n, lower, upper, alpha, beta, width)
  /\ \A s \in Lengths(n, lower, upper, alpha, beta, width) :
       \E k \in Nat : Fits(n, Shortest(lower, width), c, beta, width, k) /\ s = n - (c + k) * beta

(* Between bounds that leave room, the steps of the scan reach exactly the
   lengths that fit. *)
LEMMA LengthsAreFits ==
  ASSUME NEW n \in Nat, NEW lower \in Nat, NEW upper \in Nat, NEW alpha \in Nat,
         NEW beta \in Nat, beta > 0, NEW width \in Nat, width > 0, alpha * beta <= n,
         Shortest(lower, width) <= Longest(n, upper, alpha, beta),
         NEW c, c = CeilDiv(n - Longest(n, upper, alpha, beta), beta)
  PROVE  StepsAreLengths(n, lower, upper, alpha, beta, width, c)
<1> DEFINE lo == Shortest(lower, width)
           hi == Longest(n, upper, alpha, beta)
           p == alpha * beta
<1>1. p \in Nat /\ p <= n
  OBVIOUS
<1>2. lo \in Nat /\ lo >= lower /\ lo >= 2 * width
  BY DEF Shortest
<1>3. hi \in Nat /\ hi <= upper /\ hi <= n - p /\ n - hi \in Nat
  <2> HIDE DEF p
  <2>1. hi = IF upper < n - p THEN upper ELSE n - p
    BY DEF Longest, p
  <2> HIDE DEF hi
  <2> QED BY <1>1, <2>1
<1>4. lo <= hi /\ c = CeilDiv(n - hi, beta)
  OBVIOUS
<1> HIDE DEF lo, hi, p
<1> DEFINE gap == n - hi
<1>5. gap \in Nat /\ gap >= p /\ hi = n - gap /\ c = CeilDiv(gap, beta)
  BY <1>1, <1>3, <1>4
<1> HIDE DEF gap
<1>6. c \in Nat /\ \A q \in Nat : q * beta >= gap <=> q >= c
  <2>1. gap \in Nat /\ c = CeilDiv(gap, beta) /\ 0 \in Nat
    BY <1>5
  <2>2. CeilDiv(gap, beta) \in Nat
    BY <2>1, CeilingIs
  <2>3. ASSUME NEW q \in Nat PROVE q * beta >= gap <=> q >= CeilDiv(gap, beta)
    BY <2>1, CeilingIs
  <2> QED BY <2>1, <2>2, <2>3
<1>7. c >= alpha
  <2>1. c * beta >= gap
    BY <1>6
  <2>2. c < alpha => (c + 1) * beta <= alpha * beta
    BY <1>6
  <2>3. (c + 1) * beta = c * beta + beta /\ c * beta \in Nat
    BY <1>6
  <2> QED BY <1>1, <1>5, <1>6, <2>1, <2>2, <2>3 DEF p
<1>8. ASSUME NEW k \in Nat, Fits(n, lo, c, beta, width, k)
      PROVE  /\ (c + k) * beta \in Nat /\ (c + k) * beta <= n
             /\ n - (c + k) * beta \in Lengths(n, lower, upper, alpha, beta, width)
  <2> DEFINE m == (c + k) * beta
             s == n - m
             h == s \div 2
  <2>1. m \in Nat /\ c + k \in Nat /\ m >= gap
    <3>1. c + k \in Nat /\ c + k >= c
      BY <1>6
    <3>2. m >= gap
      BY <1>6, <3>1
    <3> QED BY <3>1, <3>2
  <2>2. m <= n - lo /\ h >= width /\ h % width = 0
    BY <1>8 DEF Fits
  <2>3. m % beta = 0
    <3>1. Divides(beta, m)
      BY <2>1 DEF Divides
    <3> HIDE DEF m
    <3> QED BY <2>1, <3>1, MultipleIs
  <2> HIDE DEF m
  <2>4. s \in Nat /\ s <= n /\ n - s = m /\ lower <= s /\ s <= upper
    BY <1>1, <1>2, <1>3, <1>5, <2>1, <2>2
  <2>5. n - s >= alpha * beta
    BY <1>1, <1>5, <2>1, <2>4 DEF p
  <2>6. h > 0
    BY <2>2, <2>4
  <2>7. s \in 0..n
    BY <2>4
  <2> HIDE DEF h
  <2>8. s \in Lengths(n, lower, upper, alpha, beta, width)
    <3> HIDE DEF s
    <3> QED BY <2>2, <2>3, <2>4, <2>5, <2>6, <2>7 DEF Lengths, h
  <2> QED BY <1>2, <2>1, <2>2, <2>8 DEF m
<1>9. ASSUME NEW s \in Lengths(n, lower, upper, alpha, beta, width)
      PROVE  \E k \in Nat : Fits(n, lo, c, beta, width, k) /\ s = n - (c + k) * beta
  <2>1. s \in Nat /\ s <= n /\ lo <= s /\ s <= hi /\ s \div 2 >= width
    BY LengthBounds DEF lo, hi
  <2>2. (n - s) % beta = 0 /\ (s \div 2) % width = 0
    BY DEF Lengths
  <2> DEFINE m == n - s
  <2>3. m \in Nat /\ m >= gap /\ m <= n - lo /\ s = n - m
    BY <1>2, <1>5, <1>3, <2>1
  <2>4. Divides(beta, m)
    BY <2>2, <2>3, MultipleIs
  <2> HIDE DEF m
  <2>5. PICK q \in Nat : m = q * beta
    BY <2>4 DEF Divides
  <2>6. q >= c
    BY <1>6, <2>3, <2>5
  <2>7. q - c \in Nat /\ c + (q - c) = q
    BY <1>6, <2>6
  <2>8. Fits(n, lo, c, beta, width, q - c)
    BY <2>1, <2>2, <2>3, <2>5, <2>7 DEF Fits
  <2>9. s = n - (c + (q - c)) * beta
    BY <2>3, <2>5, <2>7
  <2> QED BY <2>7, <2>8, <2>9
<1>10. lo <= n
  BY <1>1, <1>2, <1>3, <1>4
<1> QED BY <1>2, <1>6, <1>7, <1>8, <1>9, <1>10, Zenon DEF lo, StepsAreLengths

(* The buckets of a first count that NearestFirst answers split the total. *)
LEMMA NearestTiles ==
  ASSUME NEW total \in Nat, NEW levels \in Nat, levels > 0, levels <= total
  PROVE  \E first \in Nat : /\ NearestFirst(total, levels) = {first}
                            /\ Total(BucketCounts(first, total, levels)) = total
<1>1. PICK first \in 1..total : /\ NearestFirst(total, levels) = {first}
                                /\ Completes(levels, first, total)
  BY NearestFirstIs
<1>2. first \in Nat /\ first > 0
  OBVIOUS
<1>3. PICK rest : Partition(BucketCounts(first, total, levels), rest, total, levels)
  BY <1>1, <1>2, BucketsRun
<1> DEFINE counts == BucketCounts(first, total, levels)
<1>4. Partition(counts, rest, total, levels)
  BY <1>3
<1> HIDE DEF counts
<1>5. Total(counts) = total
  BY <1>4, PartitionSums
<1> QED BY <1>1, <1>2, <1>5 DEF counts

(* A layout is of the longest length that fits, and the buckets it leaves
   split the rest. *)
Laid(n, lower, upper, alpha, beta, width) ==
  LET layout == SpecialLayout(n, lower, upper, alpha, beta, width)
      F      == Lengths(n, lower, upper, alpha, beta, width)
  IN  /\ {l.special : l \in layout} = Greatest(F)
      /\ F # {} => layout # {}
      /\ \A l \in layout :
           /\ l.special \in F
           /\ Total(BucketCounts(l.first, (n - l.special) \div beta, alpha)) * beta
                = n - l.special

(* largest_compatible_special_layout answers the longest length that fits. *)
LEMMA LayoutIs ==
  ASSUME NEW n \in Nat, NEW lower \in Nat, NEW upper \in Nat, NEW alpha \in Nat, alpha > 0,
         NEW beta \in Nat, beta > 0, NEW width \in Nat, width > 0
  PROVE  Laid(n, lower, upper, alpha, beta, width)
<1> DEFINE layout == SpecialLayout(n, lower, upper, alpha, beta, width)
           F == Lengths(n, lower, upper, alpha, beta, width)
           lo == Shortest(lower, width)
           hi == Longest(n, upper, alpha, beta)
           c == CeilDiv(n - hi, beta)
           main(k) == (c + k) * beta
           half(k) == (n - main(k)) \div 2
           y == ResidueCycle(beta, width)
           fits == {k \in 0..(y - 1) : /\ main(k) <= n - lo
                                       /\ half(k) >= width /\ half(k) % width = 0}
           found == {k \in fits : \A j \in fits : k <= j}
           at(k) == {[special |-> n - main(k), first |-> first] :
                       first \in NearestFirst(main(k) \div beta, alpha)}
           Tiled == /\ {l.special : l \in layout} = Greatest(F)
                    /\ F # {} => layout # {}
                    /\ \A l \in layout :
                         /\ l.special \in F
                         /\ Total(BucketCounts(l.first, (n - l.special) \div beta, alpha)) * beta
                              = n - l.special
<1> SUFFICES Tiled
  BY Zenon DEF Laid
<1>1. layout = IF alpha * beta > n \/ lo > hi THEN {} ELSE UNION {at(k) : k \in found}
  BY Zenon DEF SpecialLayout, Shortest, Longest
<1>2. y \in Nat /\ y > 0
  BY ResidueCycleIs
<1>3. \A s \in F : s \in Nat /\ s <= n /\ alpha * beta <= n /\ lo <= s /\ s <= hi
  BY LengthBounds
<1>4. lo \in Nat
  BY DEF Shortest
<1>5. alpha * beta \in Nat
  OBVIOUS
<1>6. hi \in Int
  BY <1>5 DEF Longest
<1> HIDE DEF layout, F, lo, hi
<1>7. Greatest({}) = {}
  BY DEF Greatest
<1>8. CASE F = {} /\ layout = {}
  BY <1>7, <1>8
<1>9. CASE alpha * beta > n \/ lo > hi
  <2>1. layout = {}
    BY <1>1, <1>9
  <2>2. F = {}
    <3> SUFFICES ASSUME NEW s \in F PROVE FALSE
      OBVIOUS
    <3> DEFINE p == alpha * beta
    <3>1. s \in Nat /\ s <= n /\ p <= n /\ lo <= s /\ s <= hi /\ p \in Nat /\ (p > n \/ lo > hi)
      BY <1>3, <1>5, <1>9
    <3> HIDE DEF p
    <3> QED BY <1>4, <1>6, <3>1
  <2> QED BY <1>8, <2>1, <2>2
<1>10. CASE ~(alpha * beta > n \/ lo > hi)
  <2>1. alpha * beta <= n /\ lo <= hi
    <3> DEFINE p == alpha * beta
    <3>1. p \in Nat /\ ~(p > n \/ lo > hi)
      BY <1>5, <1>10
    <3> HIDE DEF p
    <3>2. p <= n /\ lo <= hi
      BY <1>4, <1>6, <3>1
    <3> QED BY <3>2 DEF p
  <2>2. layout = UNION {at(k) : k \in found}
    BY <1>1, <1>10
  <2>3. /\ c \in Nat /\ c >= alpha /\ lo <= n
        /\ \A k \in Nat : Fits(n, lo, c, beta, width, k) =>
             main(k) \in Nat /\ main(k) <= n /\ n - main(k) \in F
        /\ \A s \in F : \E k \in Nat : Fits(n, lo, c, beta, width, k) /\ s = n - main(k)
    <3>1. c = CeilDiv(n - hi, beta)
      OBVIOUS
    <3> HIDE DEF c
    <3>2. /\ Shortest(lower, width) <= Longest(n, upper, alpha, beta)
          /\ c = CeilDiv(n - Longest(n, upper, alpha, beta), beta)
      BY <2>1, <3>1 DEF lo, hi
    <3>3. StepsAreLengths(n, lower, upper, alpha, beta, width, c)
      BY <2>1, <3>2, LengthsAreFits
    <3>4. /\ c \in Nat /\ c >= alpha /\ lo <= n
          /\ \A k \in Nat : Fits(n, lo, c, beta, width, k) =>
               (c + k) * beta \in Nat /\ (c + k) * beta <= n /\ n - (c + k) * beta \in F
          /\ \A s \in F : \E k \in Nat : Fits(n, lo, c, beta, width, k) /\ s = n - (c + k) * beta
      BY <3>3, Zenon DEF F, lo, StepsAreLengths
    <3> QED BY <3>4
  <2> HIDE DEF c
  <2> DEFINE Suits(k) == Fits(n, lo, c, beta, width, k)
             S == {k \in Nat : Suits(k)}
  <2>4. fits = {k \in 0..(y - 1) : Suits(k)}
    BY Zenon DEF Fits
  <2> HIDE DEF fits
  <2>5. CASE S = {}
    <3>1. F = {}
      BY <2>3, <2>5
    <3>2. found = {}
      <4>1. \A k \in fits : k \in S
        BY <2>4
      <4> QED BY <2>5, <4>1
    <3>3. layout = {}
      <4> HIDE DEF found, at
      <4> QED BY <2>2, <3>2
    <3> QED BY <1>8, <3>1, <3>3
  <2>6. CASE S # {}
    <3>1. PICK k \in S : \A j \in S : k <= j
      <4>1. S \in SUBSET Nat
        OBVIOUS
      <4> HIDE DEF S
      <4> QED BY <2>6, <4>1, LeastNat
    <3>2. k \in Nat /\ Suits(k)
      OBVIOUS
    <3>3. k < y
      <4> SUFFICES ASSUME k >= y PROVE FALSE
        BY <1>2, <3>2
      <4>1. k - y \in Nat /\ k - y < k /\ Suits(k - y)
        BY <1>4, <2>3, <3>2, FitRepeats
      <4>2. k - y \in S /\ ~(k <= k - y)
        BY <1>2, <3>2, <4>1
      <4> HIDE DEF S
      <4> QED BY <3>1, <4>2
    <3>4. found = {k}
      <4>1. k \in fits
        BY <1>2, <2>4, <3>2, <3>3
      <4>2. \A j \in fits : j \in S /\ j \in Nat
        BY <1>2, <2>4
      <4>3. \A j \in fits : k <= j
        BY <3>1, <4>2
      <4>4. \A j \in fits : j <= k => j = k
        BY <3>2, <4>2, <4>3
      <4> QED BY <4>1, <4>3, <4>4
    <3> HIDE DEF found, S, Suits
    <3> DEFINE m == main(k)
               total == m \div beta
               s == n - m
    <3>5. m \in Nat /\ m <= n /\ s \in F /\ n - s = m /\ s \in Nat
      BY <2>3, <3>2 DEF Suits
    <3>6. total = c + k /\ total \in Nat /\ total >= alpha /\ total * beta = m
      <4>1. c + k \in Nat /\ m = (c + k) * beta
        BY <2>3, <3>2
      <4>2. (c + k) * beta <= m /\ m < (c + k + 1) * beta
        BY <4>1
      <4> HIDE DEF m
      <4>3. total = c + k
        BY <3>5, <4>1, <4>2, Quotient
      <4> QED BY <2>3, <3>2, <4>1, <4>3
    <3> HIDE DEF total
    <3>7. PICK first \in Nat : /\ NearestFirst(total, alpha) = {first}
                               /\ Total(BucketCounts(first, total, alpha)) = total
      BY <3>6, NearestTiles
    <3> HIDE DEF m
    <3>8. layout = {[special |-> s, first |-> first]}
      <4>1. at(k) = {[special |-> s, first |-> x] : x \in NearestFirst(total, alpha)}
        BY DEF total, m
      <4> HIDE DEF at, s
      <4>2. layout = at(k)
        BY <2>2, <3>4
      <4> QED BY <3>7, <4>1, <4>2
    <3>9. (n - s) \div beta = total
      BY <3>5 DEF total
    <3>10. \A x \in F : x <= s
      <4> SUFFICES ASSUME NEW x \in F PROVE x <= s
        OBVIOUS
      <4>1. PICK j \in Nat : Fits(n, lo, c, beta, width, j) /\ x = n - main(j)
        BY <2>3
      <4>2. k <= j
        BY <3>1, <4>1 DEF S, Suits
      <4>3. (c + k) * beta <= (c + j) * beta
        BY <2>3, <3>2, <4>2
      <4>4. main(j) \in Nat /\ main(j) <= n /\ m <= main(j)
        BY <2>3, <4>1, <4>3 DEF m
      <4> HIDE DEF main
      <4> QED BY <3>5, <4>1, <4>4
    <3> HIDE DEF s
    <3>11. Greatest(F) = {s}
      <4>1. \A x \in F : s <= x => x = s
        BY <1>3, <3>5, <3>10
      <4> QED BY <3>5, <3>10, <4>1 DEF Greatest
    <3>12. \A l \in layout : l.special = s /\ l.first = first
      BY <3>8
    <3>13. {l.special : l \in layout} = {s}
      BY <3>8
    <3>14. ASSUME NEW l \in layout
           PROVE  /\ l.special \in F
                  /\ Total(BucketCounts(l.first, (n - l.special) \div beta, alpha)) * beta
                       = n - l.special
      <4>1. l.special = s /\ l.first = first
        BY <3>12
      <4>2. Total(BucketCounts(first, total, alpha)) * beta = n - s
        BY <3>5, <3>6, <3>7
      <4> QED BY <3>5, <3>9, <4>1, <4>2
    <3>15. layout # {}
      BY <3>8
    <3> QED BY <3>11, <3>13, <3>14, <3>15
  <2> QED BY <2>5, <2>6
<1> QED BY <1>9, <1>10

(* ceil_log2 at zero and one, and past them. *)
LEMMA CeilLog2Is ==
  ASSUME NEW n \in Nat
  PROVE  /\ CeilLog2(n) \in Nat
         /\ n <= 1 => CeilLog2(n) = 0
         /\ n > 1 => /\ CeilLog2(n) > 0
                     /\ Pow2[CeilLog2(n) - 1] < n /\ n <= Pow2[CeilLog2(n)]
<1>1. CASE n <= 1
  BY <1>1 DEF CeilLog2
<1>2. CASE n > 1
  BY <1>2, CeilLog2Facts
<1> QED BY <1>1, <1>2

(* The fallback buckets are never empty. *)
LEMMA LogLogIs ==
  ASSUME NEW n \in Nat
  PROVE  LogLogCeiling(n) \in Nat /\ LogLogCeiling(n) > 0
<1> DEFINE k == CeilLog2(CeilLog2(n))
<1>1. k \in Nat
  BY CeilLog2Is
<1>2. LogLogCeiling(n) = IF k = 0 THEN 1 ELSE k
  BY DEF LogLogCeiling
<1> HIDE DEF k
<1> QED BY <1>1, <1>2

(* The parts of a plan of a size and an exponent that may have one. *)
PlanParts(n, d) ==
  /\ CeilDivPow2(n, d + 1) \in Nat /\ FloorThreeDivPow2(n, d + 2) \in Nat
  /\ \A s \in Nat : /\ Pow2[d + 1] * s >= n <=> CeilDivPow2(n, d + 1) <= s
                    /\ Pow2[d + 2] * s <= 3 * n <=> s <= FloorThreeDivPow2(n, d + 2)

(* The bounds of the special array are those of the reserve. *)
LEMMA PlanPartsAre ==
  ASSUME NEW n \in Nat, NEW d \in Nat
  PROVE  PlanParts(n, d)
<1> DEFINE a == Pow2[d + 1]
           b == Pow2[d + 2]
           m == 3 * n
<1>1. a \in Nat /\ a > 0 /\ b \in Nat /\ b > 0 /\ m \in Nat
  <2>1. d + 1 \in Nat /\ d + 2 \in Nat
    OBVIOUS
  <2> QED BY <2>1, Pow2Positive
<1>2. CeilDivPow2(n, d + 1) = CeilDiv(n, a) /\ FloorThreeDivPow2(n, d + 2) = m \div b
  BY DEF CeilDivPow2, FloorThreeDivPow2
<1> HIDE DEF a, b, m
<1>3. ASSUME NEW s \in Nat PROVE CeilDiv(n, a) \in Nat /\ (a * s >= n <=> CeilDiv(n, a) <= s)
  <2>1. CeilDiv(n, a) \in Nat /\ (s * a >= n <=> s >= CeilDiv(n, a))
    BY <1>1, CeilingIs
  <2>2. s * a = a * s
    BY <1>1
  <2> QED BY <2>1, <2>2
<1>4. ASSUME NEW s \in Nat PROVE m \div b \in Nat /\ (b * s <= m <=> s <= m \div b)
  <2>1. m \div b \in Nat /\ (s * b <= m <=> s <= m \div b)
    BY <1>1, FloorIs
  <2>2. s * b = b * s
    BY <1>1
  <2> QED BY <2>1, <2>2
<1>5. CeilDiv(n, a) \in Nat /\ m \div b \in Nat
  BY <1>3, <1>4
<1>6. ASSUME NEW s \in Nat
      PROVE  /\ Pow2[d + 1] * s >= n <=> CeilDivPow2(n, d + 1) <= s
             /\ Pow2[d + 2] * s <= 3 * n <=> s <= FloorThreeDivPow2(n, d + 2)
  <2>1. a * s >= n <=> CeilDivPow2(n, d + 1) <= s
    BY <1>2, <1>3
  <2>2. b * s <= m <=> s <= FloorThreeDivPow2(n, d + 2)
    BY <1>2, <1>4
  <2> QED BY <2>1, <2>2, Zenon DEF a, b, m
<1> QED BY <1>2, <1>5, <1>6, Zenon DEF PlanParts

(* A plan: the longest special array, the buckets that the rest splits into. *)
PlanLengths(n, d) ==
  Lengths(n, CeilDivPow2(n, d + 1), FloorThreeDivPow2(n, d + 2),
          4 * d + 10, 2 * d, 2 * LogLogCeiling(n))

(* funnel_plan has a plan exactly if a length fits, and of the longest one. *)
LEMMA PlanIs ==
  ASSUME NEW n \in Nat, NEW d \in Nat
  PROVE  /\ {p.special : p \in FunnelPlan(n, d)}
              = IF d < 3 \/ n < 2 THEN {} ELSE Greatest(PlanLengths(n, d))
         /\ FunnelPlan(n, d) # {} <=> d >= 3 /\ n >= 2 /\ PlanLengths(n, d) # {}
         /\ \A p \in FunnelPlan(n, d) :
              /\ p.special \in PlanLengths(n, d)
              /\ Total(BucketCounts(p.first, (n - p.special) \div (2 * d), 4 * d + 10)) * (2 * d)
                   = n - p.special
<1>1. CASE d < 3 \/ n < 2
  <2>1. FunnelPlan(n, d) = {}
    BY <1>1, Zenon DEF FunnelPlan
  <2> QED BY <1>1, <2>1
<1>2. CASE ~(d < 3 \/ n < 2)
  <2> DEFINE alpha == 4 * d + 10
             beta == 2 * d
             width == 2 * LogLogCeiling(n)
             lower == CeilDivPow2(n, d + 1)
             upper == FloorThreeDivPow2(n, d + 2)
             layout == SpecialLayout(n, lower, upper, alpha, beta, width)
             F == Lengths(n, lower, upper, alpha, beta, width)
  <2>1. FunnelPlan(n, d) =
          {[alpha |-> alpha, beta |-> beta, width |-> width,
            special |-> l.special, first |-> l.first] : l \in layout}
    <3>1. ~(n < 2 \/ d < 3)
      BY <1>2
    <3> QED BY <3>1, Zenon DEF FunnelPlan
  <2>2. alpha \in Nat /\ alpha > 0 /\ beta \in Nat /\ beta > 0
    BY <1>2
  <2>3. width \in Nat /\ width > 0
    BY LogLogIs
  <2>4. lower \in Nat /\ upper \in Nat
    BY PlanPartsAre DEF PlanParts
  <2>5. PlanLengths(n, d) = F
    BY DEF PlanLengths
  <2> HIDE DEF alpha, beta, width, lower, upper
  <2>6. /\ {l.special : l \in layout} = Greatest(F)
        /\ F # {} => layout # {}
        /\ \A l \in layout :
             /\ l.special \in F
             /\ Total(BucketCounts(l.first, (n - l.special) \div beta, alpha)) * beta
                  = n - l.special
    <3>1. Laid(n, lower, upper, alpha, beta, width)
      BY <2>2, <2>3, <2>4, LayoutIs
    <3> QED BY <3>1, Zenon DEF Laid
  <2> HIDE DEF layout, F
  <2> DEFINE plan(l) == [alpha |-> alpha, beta |-> beta, width |-> width,
                         special |-> l.special, first |-> l.first]
  <2>13. FunnelPlan(n, d) = {plan(l) : l \in layout}
    BY <2>1
  <2>14. \A l : plan(l).special = l.special /\ plan(l).first = l.first
    OBVIOUS
  <2> HIDE DEF plan
  <2>7. {p.special : p \in FunnelPlan(n, d)} = {l.special : l \in layout}
    BY <2>13, <2>14
  <2>8. FunnelPlan(n, d) # {} <=> F # {}
    <3>1. F # {} <=> layout # {}
      BY <2>6
    <3> QED BY <2>13, <3>1
  <2>9. ASSUME NEW p \in FunnelPlan(n, d)
        PROVE  /\ p.special \in F
               /\ Total(BucketCounts(p.first, (n - p.special) \div beta, alpha)) * beta
                    = n - p.special
    <3>1. PICK l \in layout : p.special = l.special /\ p.first = l.first
      BY <2>13, <2>14
    <3> QED BY <2>6, <3>1
  <2>10. /\ {p.special : p \in FunnelPlan(n, d)} = Greatest(PlanLengths(n, d))
         /\ FunnelPlan(n, d) # {} <=> PlanLengths(n, d) # {}
    BY <2>5, <2>6, <2>7, <2>8
  <2>11. \A p \in FunnelPlan(n, d) :
           /\ p.special \in PlanLengths(n, d)
           /\ Total(BucketCounts(p.first, (n - p.special) \div (2 * d), 4 * d + 10)) * (2 * d)
                = n - p.special
    BY <2>5, <2>9, Zenon DEF alpha, beta
  <2>12. d >= 3 /\ n >= 2
    BY <1>2
  <2> QED BY <1>2, <2>10, <2>11, <2>12
<1> QED BY <1>1, <1>2

(* Every question about the special array is answered as SpecialIsLongest says. *)
LEMMA SpecialAnswer ==
  QuestionInv => SpecialIsLongest
<1> SUFFICES ASSUME QuestionInv, Asked("special")
             PROVE  SpecialIsLongest
  BY DEF SpecialIsLongest
<1> DEFINE n == input[1]
           d == input[2]
           alpha == 4 * d + 10
           beta == 2 * d
           width == 2 * LogLogCeiling(n)
           fits == {s \in 0..n : /\ Pow2[d + 1] * s >= n /\ Pow2[d + 2] * s <= 3 * n
                                 /\ (n - s) % beta = 0 /\ n - s >= alpha * beta
                                 /\ (s \div 2) % width = 0 /\ s \div 2 > 0}
           Answer ==
             /\ {p.special : p \in FunnelPlan(n, d)} = IF d < 3 \/ n < 2 THEN {} ELSE Greatest(fits)
             /\ \A p \in FunnelPlan(n, d) :
                  Total(BucketCounts(p.first, (n - p.special) \div beta, alpha)) * beta
                    + CeilDiv(p.special, 2) + p.special \div 2 = n
<1>1. SpecialIsLongest <=> Answer
  BY Zenon DEF SpecialIsLongest
<1>2. n \in Nat /\ d \in Nat
  <2>1. input \in Usize \X Nat
    BY PlanQuestions
  <2>2. n \in Usize /\ d \in Nat
    BY <2>1
  <2> QED BY <2>2, UsizeFacts
<1> HIDE DEF n, d
<1>3. fits = PlanLengths(n, d)
  <2>1. \A s \in 0..n : /\ Pow2[d + 1] * s >= n <=> CeilDivPow2(n, d + 1) <= s
                        /\ Pow2[d + 2] * s <= 3 * n <=> s <= FloorThreeDivPow2(n, d + 2)
    <3>1. PlanParts(n, d)
      BY <1>2, PlanPartsAre
    <3>2. \A s \in 0..n : s \in Nat
      BY <1>2
    <3> QED BY <3>1, <3>2, Zenon DEF PlanParts
  <2>2. PlanLengths(n, d) = {s \in 0..n :
          /\ CeilDivPow2(n, d + 1) <= s /\ s <= FloorThreeDivPow2(n, d + 2)
          /\ (n - s) % beta = 0 /\ n - s >= alpha * beta
          /\ (s \div 2) % width = 0 /\ s \div 2 > 0}
    BY Zenon DEF PlanLengths, Lengths
  <2> QED BY <2>1, <2>2, Zenon
<1> HIDE DEF fits
<1>4. {p.special : p \in FunnelPlan(n, d)} = IF d < 3 \/ n < 2 THEN {} ELSE Greatest(fits)
  BY <1>2, <1>3, PlanIs
<1>5. ASSUME NEW p \in FunnelPlan(n, d)
      PROVE  Total(BucketCounts(p.first, (n - p.special) \div beta, alpha)) * beta
               + CeilDiv(p.special, 2) + p.special \div 2 = n
  <2> DEFINE s == p.special
             t == Total(BucketCounts(p.first, (n - s) \div beta, alpha)) * beta
  <2>1. s \in PlanLengths(n, d) /\ t = n - s
    BY <1>2, PlanIs
  <2>2. s \in Nat /\ s <= n
    <3>1. s \in 0..n
      BY <2>1 DEF PlanLengths, Lengths
    <3> HIDE DEF s
    <3> QED BY <1>2, <3>1
  <2> HIDE DEF s, t
  <2>3. CeilDiv(s, 2) = (s + 1) \div 2
    BY <2>2 DEF CeilDiv
  <2>4. (s + 1) \div 2 + s \div 2 = s
    BY <2>2
  <2>5. t + CeilDiv(s, 2) + s \div 2 = n
    BY <1>2, <2>1, <2>2, <2>3, <2>4
  <2> QED BY <2>5 DEF s, t
<1>6. Answer
  BY <1>4, <1>5
<1> HIDE DEF Answer
<1> QED BY <1>1, <1>6

(* The special array (largest_compatible_special_layout) is the longest that fits,
   the parts of the plan tile the slots, and there is a plan exactly if some
   length fits, for every size and reserve. *)
THEOREM SpecialIsLongestHolds == Spec => []SpecialIsLongest
BY QuestionsAreInputs, SpecialAnswer, PTL

------------------------------------------------------------------------------
(* The least fixed point.                                                  *)

(* ceil_log2 is monotone. *)
LEMMA CeilLog2Grows ==
  ASSUME NEW m \in Nat, NEW n \in Nat, m <= n
  PROVE  CeilLog2(m) <= CeilLog2(n) /\ CeilLog2(n) <= n
<1> DEFINE a == CeilLog2(m)
           b == CeilLog2(n)
<1>1. a \in Nat /\ b \in Nat /\ (m <= 1 => a = 0) /\ (n <= 1 => b = 0)
  BY CeilLog2Is
<1>2. m > 1 => a > 0 /\ Pow2[a - 1] < m /\ m <= Pow2[a]
  BY CeilLog2Is
<1>3. n > 1 => b > 0 /\ Pow2[b - 1] < n /\ n <= Pow2[b]
  BY CeilLog2Is
<1>4. n > 1 => b <= n
  BY CeilLog2Facts
<1> HIDE DEF a, b
<1>5. ASSUME m > 1, a > b PROVE FALSE
  <2>1. a - 1 \in Nat /\ (b < a - 1 \/ b = a - 1)
    BY <1>1, <1>5
  <2>2. Pow2[b] \in Nat /\ Pow2[a - 1] \in Nat
    BY <1>1, <2>1, Pow2Positive
  <2>3. b < a - 1 => Pow2[b] < Pow2[a - 1]
    BY <1>1, <2>1, Pow2Grows
  <2>4. Pow2[b] <= Pow2[a - 1]
    BY <2>1, <2>2, <2>3
  <2>5. n > 1
    BY <1>5
  <2> QED BY <1>2, <1>3, <1>5, <2>2, <2>4, <2>5
<1>6. a <= b /\ b <= n
  BY <1>1, <1>4, <1>5
<1> QED BY <1>6 DEF a, b

(* ... and so is the ceiling of the double logarithm. *)
LEMMA LogLogGrows ==
  ASSUME NEW m \in Nat, NEW n \in Nat, m <= n
  PROVE  LogLogCeiling(m) <= LogLogCeiling(n)
<1> DEFINE a == CeilLog2(m)
           b == CeilLog2(n)
           c == CeilLog2(a)
           e == CeilLog2(b)
<1>1. a \in Nat /\ b \in Nat /\ a <= b
  BY CeilLog2Is, CeilLog2Grows
<1>2. LogLogCeiling(m) = (IF c = 0 THEN 1 ELSE c) /\ LogLogCeiling(n) = (IF e = 0 THEN 1 ELSE e)
  BY DEF LogLogCeiling
<1> HIDE DEF a, b
<1>3. c \in Nat /\ e \in Nat /\ c <= e
  BY <1>1, CeilLog2Is, CeilLog2Grows
<1> HIDE DEF c, e
<1> QED BY <1>2, <1>3

(* ... which the bits of usize bound. *)
LEMMA LogLogOfUsize ==
  ASSUME NEW n \in Nat, n < Word
  PROVE  LogLogCeiling(n) <= UsizeBits + 1
<1> DEFINE k == CeilLog2(n)
           e == CeilLog2(k)
<1>1. k \in Nat /\ (n <= 1 => k = 0) /\ (n > 1 => k > 0 /\ Pow2[k - 1] < n)
  BY CeilLog2Is
<1>2. LogLogCeiling(n) = IF e = 0 THEN 1 ELSE e
  BY DEF LogLogCeiling
<1> HIDE DEF k
<1>3. e \in Nat /\ e <= k
  <2>1. k <= k
    BY <1>1
  <2> QED BY <1>1, <2>1, CeilLog2Is, CeilLog2Grows
<1> HIDE DEF e
<1>4. UsizeBits \in Nat /\ Word \in Nat /\ Word = Pow2[UsizeBits]
  BY UsizeFacts
<1>5. ASSUME k > UsizeBits PROVE FALSE
  <2>1. n > 1 /\ k - 1 \in Nat /\ (UsizeBits < k - 1 \/ UsizeBits = k - 1)
    BY <1>1, <1>4, <1>5
  <2>2. UsizeBits < k - 1 => Pow2[UsizeBits] < Pow2[k - 1]
    BY <1>4, <2>1, Pow2Grows
  <2>3. Pow2[k - 1] \in Nat
    BY <2>1, Pow2Positive
  <2> QED BY <1>1, <1>4, <2>1, <2>2, <2>3
<1> QED BY <1>1, <1>2, <1>3, <1>4, <1>5

(* What a size requires, and when it is enough. *)
Enough(d, m) == FloorThreeDivPow2(m, d + 2) >= 4 * LogLogCeiling(m)

(* A size is enough exactly if it is what its own width requires; the requirement
   is monotone and depends on the width only. *)
LEMMA RequiredIs ==
  ASSUME NEW d \in Nat, NEW m \in Nat
  PROVE  /\ MinimumSlotsRequired(m, d) \in Nat
         /\ MinimumSlotsRequired(m, d) <= m <=> Enough(d, m)
         /\ \A n \in Nat : /\ m <= n => MinimumSlotsRequired(m, d) <= MinimumSlotsRequired(n, d)
                           /\ LogLogCeiling(m) = LogLogCeiling(n) =>
                                MinimumSlotsRequired(m, d) = MinimumSlotsRequired(n, d)
<1> DEFINE P == Pow2[d + 2]
           f(x) == 4 * LogLogCeiling(x) * P
           R(x) == MinimumSlotsRequired(x, d)
<1>1. P \in Nat /\ P > 0
  <2>1. d + 2 \in Nat
    OBVIOUS
  <2> QED BY <2>1, Pow2Positive
<1>2. \A x : R(x) = CeilDiv(f(x), 3)
  BY Zenon DEF MinimumSlotsRequired
<1> HIDE DEF P, R
<1>3. \A x \in Nat : f(x) \in Nat
  <2> TAKE x \in Nat
  <2>1. LogLogCeiling(x) \in Nat
    BY LogLogIs
  <2> QED BY <1>1, <2>1
<1>4. ASSUME NEW x \in Nat, NEW y \in Nat, LogLogCeiling(x) <= LogLogCeiling(y) PROVE f(x) <= f(y)
  <2> DEFINE a == LogLogCeiling(x)
             b == LogLogCeiling(y)
  <2>1. a \in Nat /\ b \in Nat /\ a <= b
    BY <1>4, LogLogIs
  <2> HIDE DEF a, b
  <2>2. 4 * a * P <= 4 * b * P
    BY <1>1, <2>1
  <2> QED BY <2>2 DEF a, b
<1>5. \A x, y : LogLogCeiling(x) = LogLogCeiling(y) => f(x) = f(y)
  OBVIOUS
<1>6. Enough(d, m) <=> f(m) <= 3 * m
  <2> DEFINE l == 4 * LogLogCeiling(m)
  <2>1. l \in Nat
    BY LogLogIs
  <2>2. f(m) = P * l
    <3>1. LogLogCeiling(m) \in Nat
      BY LogLogIs
    <3> QED BY <1>1, <3>1
  <2> HIDE DEF l, f
  <2>3. FloorThreeDivPow2(m, d + 2) \in Nat /\ (P * l <= 3 * m <=> l <= FloorThreeDivPow2(m, d + 2))
    BY <2>1, PlanPartsAre DEF PlanParts, P
  <2> QED BY <2>1, <2>2, <2>3 DEF Enough, l
<1> HIDE DEF f
<1>7. ASSUME NEW x \in Nat, NEW q \in Nat PROVE R(x) \in Nat /\ (q * 3 >= f(x) <=> q >= R(x))
  <2> DEFINE z == f(x)
  <2>1. z \in Nat
    BY <1>3
  <2>2. R(x) = CeilDiv(z, 3)
    BY <1>2
  <2> HIDE DEF z
  <2>3. CeilDiv(z, 3) \in Nat /\ (q * 3 >= z <=> q >= CeilDiv(z, 3))
    BY <2>1, CeilingIs
  <2> QED BY <2>2, <2>3 DEF z
<1>8. R(m) \in Nat /\ (R(m) <= m <=> Enough(d, m))
  <2> DEFINE z == f(m)
             r == R(m)
  <2>1. z \in Nat /\ r \in Nat /\ (m * 3 >= z <=> m >= r)
    BY <1>3, <1>7
  <2>2. Enough(d, m) <=> z <= 3 * m
    BY <1>6
  <2> HIDE DEF z, r
  <2>3. r <= m <=> Enough(d, m)
    BY <2>1, <2>2
  <2> QED BY <2>1, <2>3 DEF r
<1>9. ASSUME NEW n \in Nat, m <= n PROVE R(m) <= R(n)
  <2>1. f(m) <= f(n) /\ f(m) \in Nat /\ f(n) \in Nat
    BY <1>3, <1>4, <1>9, LogLogGrows
  <2>2. R(n) \in Nat /\ R(n) * 3 >= f(n)
    BY <1>7
  <2>3. R(n) * 3 >= f(m)
    BY <2>1, <2>2
  <2> QED BY <1>7, <2>2, <2>3
<1>10. \A n \in Nat : LogLogCeiling(m) = LogLogCeiling(n) => R(m) = R(n)
  BY <1>2, <1>5
<1> QED BY <1>8, <1>9, <1>10 DEF R

(* funnel_minimum_slots is iterated to its least fixed point, within the turns
   that the bits of usize bound. *)
LEMMA MinimumSlotsIs ==
  ASSUME NEW d \in Nat, NEW n \in Nat
  PROVE  MinimumSlots(d, n) = Least({m \in n..(Word - 1) : Enough(d, m)})
<1> DEFINE R(m) == MinimumSlotsRequired(m, d)
           raised(m) == IF m >= Word \/ R(m) <= m THEN m ELSE R(m)
           turn == [m \in Nat |-> raised(m)]
           at == LoopAfter(turn, n)
           L(k) == LogLogCeiling(at[k])
           Last == UsizeBits + 1
           F == {m \in n..(Word - 1) : Enough(d, m)}
<1>1. Word \in Nat /\ UsizeBits \in Nat /\ Last \in Nat
  BY UsizeFacts
<1>2. MinimumSlots(d, n) = Checked(at[Last])
  BY Zenon DEF MinimumSlots
<1>3. \A m \in Nat : R(m) \in Nat /\ raised(m) \in Nat
  BY RequiredIs
<1>4. turn \in [Nat -> Nat]
  BY <1>3
<1>5. at \in [Nat -> Nat] /\ at[0] = n /\ \A k \in Nat : at[k + 1] = turn[at[k]]
  <2> DEFINE A == Nat
             start == n
  <2>1. start \in A /\ turn \in [A -> A]
    BY <1>4
  <2> HIDE DEF A, turn, start
  <2>2. LoopAfter(turn, start) = at
    BY DEF start
  <2>3. LET held == LoopAfter(turn, start)
        IN  held \in [Nat -> A] /\ held[0] = start /\ \A k \in Nat : held[k + 1] = turn[held[k]]
    BY <2>1, LoopTurns
  <2> HIDE DEF at
  <2>4. at \in [Nat -> A] /\ at[0] = start /\ \A k \in Nat : at[k + 1] = turn[at[k]]
    BY <2>2, <2>3
  <2> QED BY <2>4 DEF A, start
<1> HIDE DEF at
<1>6. \A k \in Nat : at[k] \in Nat /\ at[k + 1] = raised(at[k])
  BY <1>5
<1> HIDE DEF turn
<1> DEFINE Settled(k) == at[k] >= Word \/ R(at[k]) <= at[k]
<1>7. \A k \in Nat : (Settled(k) => at[k + 1] = at[k]) /\ (~Settled(k) => at[k + 1] = R(at[k]))
  BY <1>6
<1>8. \A x, y \in Nat : (x <= y => R(x) <= R(y)) /\ (LogLogCeiling(x) = LogLogCeiling(y) => R(x) = R(y))
  BY RequiredIs
<1>9. \A m \in Nat : R(m) <= m <=> Enough(d, m)
  BY RequiredIs
<1> HIDE DEF R, raised
<1>10. \A k \in Nat : at[k] >= n /\ \A f \in F : at[k] <= f
  <2> DEFINE S == {k \in Nat : at[k] >= n /\ \A f \in F : at[k] <= f}
  <2>1. \A f \in F : f \in Nat /\ n <= f /\ f < Word /\ R(f) <= f
    BY <1>1, <1>9
  <2> HIDE DEF F
  <2>2. 0 \in S
    BY <1>5, <2>1
  <2>3. ASSUME NEW k \in Nat, k \in S PROVE k + 1 \in S
    <3>1. CASE Settled(k)
      BY <1>7, <2>3, <3>1
    <3>2. CASE ~Settled(k)
      <4>1. at[k + 1] = R(at[k]) /\ R(at[k]) \in Nat /\ at[k] \in Nat /\ R(at[k]) > at[k]
        BY <1>1, <1>3, <1>6, <1>7, <3>2
      <4>2. ASSUME NEW f \in F PROVE R(at[k]) <= f
        <5>1. f \in Nat /\ at[k] <= f /\ R(f) <= f /\ R(f) \in Nat
          BY <1>3, <2>1, <2>3
        <5>2. R(at[k]) <= R(f)
          BY <1>8, <4>1, <5>1
        <5> QED BY <4>1, <5>1, <5>2
      <4>3. at[k] >= n
        BY <2>3
      <4> QED BY <4>1, <4>2, <4>3
    <3> QED BY <3>1, <3>2
  <2> HIDE DEF S
  <2>4. \A k \in Nat : k \in S
    BY <2>2, <2>3, NaturalInduction, Zenon
  <2> QED BY <2>4 DEF S
<1>11. \A k \in Nat : L(k) \in Nat /\ L(k) > 0
  BY <1>6, LogLogIs
<1>12. \A k \in Nat : Settled(k) => Settled(k + 1)
  BY <1>7
<1>13. Settled(Last)
  <2> SUFFICES ASSUME ~Settled(Last) PROVE FALSE
    OBVIOUS
  <2> DEFINE T == {j \in 0..Last : ~Settled(Last - j)}
  <2>1. \A j \in 0..Last : j \in T
    <3>1. 0 \in T
      <4>1. Last - 0 = Last
        BY <1>1
      <4> QED BY <1>1, <4>1
    <3>2. ASSUME NEW j \in 0..Last, j < Last, j \in T PROVE j + 1 \in T
      <4>1. Last - (j + 1) \in Nat /\ (Last - (j + 1)) + 1 = Last - j /\ j + 1 \in 0..Last
        BY <1>1, <3>2
      <4>2. ~Settled((Last - (j + 1)) + 1)
        <5> HIDE DEF Settled, Last
        <5> QED BY <3>2, <4>1
      <4> HIDE DEF Settled, Last
      <4> QED BY <1>12, <4>1, <4>2
    <3> HIDE DEF T, Last
    <3> QED BY <1>1, <3>1, <3>2, PositionInduction
  <2>2. \A k \in 0..Last : ~Settled(k)
    <3> TAKE k \in 0..Last
    <3>1. Last - k \in 0..Last /\ Last - (Last - k) = k
      BY <1>1
    <3>2. ~Settled(Last - (Last - k))
      <4> HIDE DEF Settled, Last
      <4> QED BY <2>1, <3>1
    <3> HIDE DEF Settled, Last
    <3> QED BY <3>1, <3>2
  <2> DEFINE S == {k \in 0..Last : L(k) >= k + 1}
  <2>3. \A k \in 0..Last : k \in S
    <3>1. 0 \in S
      BY <1>1, <1>11
    <3>2. ASSUME NEW k \in 0..Last, k < Last, k \in S PROVE k + 1 \in S
      <4>1. k \in Nat /\ k + 1 \in Nat /\ k + 1 \in 0..Last
        BY <1>1, <3>2
      <4>2. ~Settled(k) /\ ~Settled(k + 1)
        BY <2>2, <4>1
      <4>3. at[k + 1] = R(at[k]) /\ at[k] < R(at[k]) /\ at[k + 1] < R(at[k + 1])
        BY <1>1, <1>3, <1>6, <1>7, <4>1, <4>2
      <4>4. at[k] \in Nat /\ at[k + 1] \in Nat /\ R(at[k]) \in Nat /\ R(at[k + 1]) \in Nat
        BY <1>3, <1>6, <4>1
      <4>5. L(k) <= L(k + 1)
        BY <4>3, <4>4, LogLogGrows
      <4>6. L(k) # L(k + 1)
        <5>1. R(at[k]) # R(at[k + 1])
          BY <4>3, <4>4
        <5> QED BY <1>8, <4>4, <5>1
      <4>7. L(k) \in Nat /\ L(k + 1) \in Nat /\ L(k) >= k + 1
        BY <1>11, <3>2, <4>1
      <4> HIDE DEF L
      <4> QED BY <4>1, <4>5, <4>6, <4>7
    <3> HIDE DEF S, Last
    <3> QED BY <1>1, <3>1, <3>2, PositionInduction
  <2>4. L(Last) >= Last + 1
    BY <1>1, <2>3
  <2>5. at[Last] < Word /\ at[Last] \in Nat
    <3>1. ~(at[Last] >= Word) /\ at[Last] \in Nat
      BY <1>1, <1>6
    <3> QED BY <1>1, <3>1
  <2>6. L(Last) <= UsizeBits + 1
    BY <2>5, LogLogOfUsize
  <2>7. L(Last) \in Nat
    BY <1>1, <1>11
  <2> HIDE DEF L
  <2> QED BY <1>1, <2>4, <2>6, <2>7
<1> DEFINE f == at[Last]
<1>14. f \in Nat /\ f >= n /\ (\A m \in F : f <= m) /\ (f >= Word \/ Enough(d, f))
  BY <1>1, <1>6, <1>9, <1>10, <1>13
<1>15. MinimumSlots(d, n) = {f} \cap Usize
  BY <1>2 DEF Checked
<1> HIDE DEF f
<1>16. \A m \in F : m \in Nat /\ m < Word
  BY <1>1
<1>17. CASE f >= Word
  <2>1. F = {}
    BY <1>1, <1>14, <1>16, <1>17
  <2>2. f \notin Usize
    BY <1>1, <1>14, <1>17, UsizeFacts
  <2>3. Least(F) = {}
    BY <2>1 DEF Least
  <2> QED BY <1>15, <2>2, <2>3
<1>18. CASE f < Word
  <2>1. f \in F
    BY <1>1, <1>14, <1>18
  <2>2. f \in Usize
    BY <1>1, <1>14, <1>18, UsizeFacts
  <2> HIDE DEF F
  <2>3. \A m \in F : m <= f => m = f
    BY <1>14, <1>16
  <2>4. Least(F) = {f}
    BY <1>14, <2>1, <2>3 DEF Least
  <2>5. MinimumSlots(d, n) = {f}
    BY <1>15, <2>2
  <2> QED BY <2>4, <2>5 DEF F
<1>19. f >= Word \/ f < Word
  BY <1>1, <1>14
<1> QED BY <1>17, <1>18, <1>19

(* What a plan needs of the size. *)
LEMMA PlanNeeds ==
  ASSUME NEW n \in Nat, NEW d \in Nat, FunnelPlan(n, d) # {}
  PROVE  d >= 3 /\ n >= 2 /\ n >= (4 * d + 10) * (2 * d) + 2 /\ Enough(d, n)
<1> DEFINE alpha == 4 * d + 10
           beta == 2 * d
           L == LogLogCeiling(n)
           width == 2 * L
           lower == CeilDivPow2(n, d + 1)
           upper == FloorThreeDivPow2(n, d + 2)
           p == alpha * beta
<1>1. d >= 3 /\ n >= 2 /\ PlanLengths(n, d) # {}
  BY PlanIs
<1>2. PICK s \in Lengths(n, lower, upper, alpha, beta, width) : TRUE
  BY <1>1 DEF PlanLengths
<1>3. L \in Nat /\ L > 0
  BY LogLogIs
<1>4. lower \in Nat /\ upper \in Nat
  BY PlanPartsAre DEF PlanParts
<1>5. alpha \in Nat /\ beta \in Nat /\ width \in Nat /\ width > 0 /\ p \in Nat
  BY <1>3
<1> HIDE DEF lower, upper, alpha, beta, width, p
<1>6. /\ s \in Nat /\ alpha * beta <= n
      /\ Shortest(lower, width) <= s /\ s <= Longest(n, upper, alpha, beta)
  BY <1>2, <1>4, <1>5, LengthBounds
<1>7. Shortest(lower, width) = IF lower < 2 * width THEN 2 * width ELSE lower
  BY DEF Shortest
<1>8. Longest(n, upper, alpha, beta) = IF upper < n - p THEN upper ELSE n - p
  BY DEF Longest, p
<1>9. p <= n
  BY <1>6 DEF p
<1>10. 2 * width <= s /\ s <= upper /\ s <= n - p
  BY <1>4, <1>5, <1>6, <1>7, <1>8, <1>9
<1>11. 2 * width = 4 * L
  BY <1>3 DEF width
<1>12. upper >= 4 * L /\ n >= p + 2
  <2> HIDE DEF L
  <2>1. 4 * L <= s /\ s >= 2
    BY <1>3, <1>5, <1>6, <1>10, <1>11
  <2> QED BY <1>3, <1>4, <1>5, <1>6, <1>9, <1>10, <2>1
<1>13. Enough(d, n)
  BY <1>12 DEF Enough, upper
<1> QED BY <1>1, <1>12, <1>13 DEF p, alpha, beta

(* An exponent as wide as usize leaves room for no special array. *)
LEMMA WideExponents ==
  ASSUME NEW n \in Nat, n < Word, NEW d \in Nat, d >= UsizeBits
  PROVE  FunnelPlan(n, d) = {}
<1> SUFFICES ASSUME FunnelPlan(n, d) # {} PROVE FALSE
  OBVIOUS
<1> DEFINE l == 4 * LogLogCeiling(n)
           P == Pow2[d + 2]
           W == Pow2[d]
<1>1. FloorThreeDivPow2(n, d + 2) >= l
  BY PlanNeeds DEF Enough
<1>2. l \in Nat /\ l >= 4
  <2>1. LogLogCeiling(n) \in Nat /\ LogLogCeiling(n) > 0
    BY LogLogIs
  <2> QED BY <2>1
<1> HIDE DEF l
<1>3. P * l <= 3 * n
  BY <1>1, <1>2, PlanPartsAre DEF PlanParts
<1>4. P = 4 * W /\ W \in Nat /\ W > 0
  <2>1. d + 1 \in Nat /\ (d + 1) + 1 = d + 2
    OBVIOUS
  <2>2. Pow2[d + 1] = 2 * W /\ Pow2[(d + 1) + 1] = 2 * Pow2[d + 1]
    BY <2>1, Pow2Def
  <2>3. W \in Nat /\ W > 0
    BY Pow2Positive
  <2> QED BY <2>1, <2>2, <2>3
<1>5. n < W
  <2>1. UsizeBits \in Nat /\ Word \in Nat /\ Word = Pow2[UsizeBits]
    BY UsizeFacts
  <2>2. UsizeBits < d => Pow2[UsizeBits] < W
    BY <2>1, Pow2Grows
  <2>3. UsizeBits = d => Pow2[UsizeBits] = W
    OBVIOUS
  <2> HIDE DEF W
  <2> QED BY <1>4, <2>1, <2>2, <2>3
<1> HIDE DEF P, W
<1>6. P * l >= P
  BY <1>2, <1>4
<1>7. P * l \in Nat
  BY <1>2, <1>4
<1> DEFINE q == P * l
<1>8. q \in Nat /\ q >= P /\ q <= 3 * n
  BY <1>3, <1>6, <1>7
<1> HIDE DEF q
<1> QED BY <1>4, <1>5, <1>8

(* The sizes that admit a request. *)
Admits(m, requested, d) == FunnelPlan(m, d) # {} /\ InsertionLimit(m, d) >= requested

(* The search for a plan stops at the first size that admits the request. *)
LEMMA FirstPlanIs ==
  ASSUME NEW n \in Usize, NEW requested, NEW d
  PROVE  FirstPlan(n, requested, d) = Least({m \in n..(Word - 1) : Admits(m, requested, d)})
<1> DEFINE A(m) == Admits(m, requested, d)
           Is(m) == /\ m = Word \/ A(m)
                    /\ \A l \in n..(m - 1) : ~A(l)
           F == {m \in n..(Word - 1) : A(m)}
           first == CHOOSE m \in n..Word : Is(m)
<1>1. n \in Nat /\ Word \in Nat /\ n < Word
  BY UsizeFacts
<1>2. FirstPlan(n, requested, d) = Checked(first)
  BY Zenon DEF FirstPlan, Admits
<1> HIDE DEF A
<1>3. \E m \in n..Word : Is(m)
  <2> DEFINE C == {m \in n..Word : m = Word \/ A(m)}
  <2>1. Word \in C /\ C \in SUBSET Nat
    BY <1>1
  <2> HIDE DEF C
  <2>2. PICK m \in C : \A x \in C : m <= x
    BY <2>1, LeastNat
  <2>3. m \in n..Word /\ (m = Word \/ A(m))
    BY <2>2 DEF C
  <2>4. ASSUME NEW l \in n..(m - 1) PROVE ~A(l)
    <3>1. l \in n..Word /\ ~(m <= l)
      BY <1>1, <2>3
    <3> QED BY <2>2, <3>1 DEF C
  <2> QED BY <2>3, <2>4
<1>4. first \in n..Word /\ Is(first)
  BY <1>3, Zenon
<1> HIDE DEF first
<1>5. first \in Nat /\ first <= Word /\ n <= first
  BY <1>1, <1>4
<1>6. \A m \in F : m \in Nat /\ m < Word /\ first <= m
  <2> TAKE m \in F
  <2>1. m \in Nat /\ m < Word /\ n <= m /\ A(m)
    BY <1>1
  <2>2. m \notin n..(first - 1)
    BY <1>4, <2>1
  <2> QED BY <1>1, <1>5, <2>1, <2>2
<1>7. CASE first = Word
  <2>1. F = {}
    BY <1>1, <1>6, <1>7
  <2>2. Checked(first) = {}
    BY <1>1, <1>7, UsizeFacts DEF Checked
  <2>3. Least(F) = {}
    BY <2>1 DEF Least
  <2> QED BY <1>2, <2>2, <2>3 DEF A
<1>8. CASE first # Word
  <2>1. first < Word /\ A(first) /\ first \in F
    BY <1>1, <1>4, <1>5, <1>8
  <2>2. Checked(first) = {first}
    BY <1>5, <2>1, UsizeFacts DEF Checked
  <2> HIDE DEF F
  <2>3. \A m \in F : m <= first => m = first
    BY <1>5, <1>6
  <2>4. Least(F) = {first}
    BY <1>6, <2>1, <2>3 DEF Least
  <2> QED BY <1>2, <2>2, <2>4 DEF A, F
<1> QED BY <1>7, <1>8

(* The least of a set is that of its part, when all the rest is past the part. *)
LEMMA LeastOfPart ==
  ASSUME NEW S \in SUBSET Nat, NEW T \in SUBSET S, \A x \in S \ T, y \in T : y < x
  PROVE  T # {} => Least(S) = Least(T)
<1> SUFFICES ASSUME T # {} PROVE Least(S) = Least(T)
  OBVIOUS
<1>1. PICK y \in T : TRUE
  OBVIOUS
<1>2. \A x \in Least(S) : x \in T
  <2> SUFFICES ASSUME NEW x \in Least(S), x \notin T PROVE FALSE
    OBVIOUS
  <2>1. x \in S \ T /\ x <= y /\ x \in Nat /\ y \in Nat
    BY DEF Least
  <2>2. y < x
    BY <2>1
  <2> QED BY <2>1, <2>2
<1>3. ASSUME NEW x \in Least(T) PROVE x \in Least(S)
  <2>1. x \in T /\ x \in S /\ x \in Nat /\ \A z \in T : x <= z
    BY <1>3 DEF Least
  <2>2. ASSUME NEW z \in S PROVE x <= z
    <3>1. CASE z \in T
      BY <2>1, <3>1
    <3>2. CASE z \notin T
      <4>1. x < z /\ z \in Nat
        BY <2>1, <3>2
      <4> QED BY <2>1, <4>1
    <3> QED BY <3>1, <3>2
  <2> QED BY <2>1, <2>2 DEF Least
<1>4. \A x \in Least(S) : x \in Least(T)
  BY <1>2 DEF Least
<1> QED BY <1>3, <1>4

(* The search for a request starts from a size that none of the sizes that
   admit it is below. *)
LargerOf(x, y) == IF x < y THEN y ELSE x
FloorOf(n, d) == LargerOf(LargerOf(n, 2), (4 * d + 10) * (2 * d) + 2)

(* A size reaches the floor of the search exactly if it reaches all three bounds. *)
LEMMA FloorOfIs ==
  ASSUME NEW n \in Nat, NEW d \in Nat
  PROVE  /\ FloorOf(n, d) \in Nat
         /\ \A m \in Nat : m >= FloorOf(n, d) <=>
              m >= n /\ m >= 2 /\ m >= (4 * d + 10) * (2 * d) + 2
<1> DEFINE q == (4 * d + 10) * (2 * d) + 2
<1>1. q \in Nat
  OBVIOUS
<1>2. FloorOf(n, d) = LargerOf(LargerOf(n, 2), q)
  BY DEF FloorOf
<1> HIDE DEF q
<1>3. /\ FloorOf(n, d) \in Nat
      /\ \A m \in Nat : m >= FloorOf(n, d) <=> m >= n /\ m >= 2 /\ m >= q
  BY <1>1, <1>2 DEF LargerOf
<1> QED BY <1>3 DEF q

(* The closed form answers one capacity or none. *)
LEMMA ExactIs ==
  ASSUME NEW r \in Usize, NEW d \in Nat
  PROVE  ExactCapacityFor(r, d) = {} \/ \E c \in Nat : ExactCapacityFor(r, d) = {c}
<1>1. r \in Nat
  BY UsizeFacts
<1>2. CASE r = 0
  BY <1>2 DEF ExactCapacityFor
<1>3. CASE r # 0 /\ d >= UsizeBits
  BY <1>1, <1>3 DEF ExactCapacityFor
<1>4. CASE r # 0 /\ ~(d >= UsizeBits)
  <2> DEFINE x == r + (r - 1) \div (Pow2[d] - 1)
  <2>1. ExactCapacityFor(r, d) = Checked(x)
    BY <1>4 DEF ExactCapacityFor
  <2> HIDE DEF x
  <2>2. Checked(x) = {} \/ (Checked(x) = {x} /\ x \in Usize)
    BY DEF Checked
  <2>3. x \in Usize => x \in Nat
    BY UsizeFacts
  <2> QED BY <2>1, <2>2, <2>3
<1> QED BY <1>2, <1>3, <1>4

(* for_insert_budget between its guards. *)
SearchedSlots(r, d) ==
  UNION {UNION {FirstPlan(n, r, d) : n \in MinimumSlots(d, FloorOf(m, d))} : m \in ExactCapacityFor(r, d)}

(* for_insert_budget is its search, behind the guards on the exponent. *)
LEMMA InsertBudgetIs ==
  ASSUME NEW r \in Usize, r # 0, NEW d
  PROVE  InsertBudgetSlots(r, d) = IF ~(3 <= d /\ d < UsizeBits) THEN {} ELSE SearchedSlots(r, d)
BY Zenon DEF InsertBudgetSlots, SearchedSlots, FloorOf, LargerOf

(* The bounds the search starts from skip no size that admits the request. *)
LEMMA SearchIs ==
  ASSUME NEW r \in Usize, NEW d \in Nat, d >= 3
  PROVE  SearchedSlots(r, d) = Least({m \in Usize : Admits(m, r, d)})
<1> DEFINE G == {m \in Usize : Admits(m, r, d)}
           E == ExactCapacityFor(r, d)
           from(m) == MinimumSlots(d, FloorOf(m, d))
           First(n) == FirstPlan(n, r, d)
<1>1. Word \in Nat
  BY UsizeFacts
<1>2. SearchedSlots(r, d) = UNION {UNION {First(n) : n \in from(m)} : m \in E}
  BY Zenon DEF SearchedSlots
<1>3. ASSUME NEW g \in G
      PROVE  /\ g \in Nat /\ g < Word /\ Admits(g, r, d)
             /\ \E c \in E : g >= c
             /\ g >= 2 /\ g >= (4 * d + 10) * (2 * d) + 2 /\ Enough(d, g)
  <2>1. g \in Usize /\ Admits(g, r, d)
    OBVIOUS
  <2>2. g \in Nat /\ g < Word
    BY <2>1, UsizeFacts
  <2>3. FunnelPlan(g, d) # {} /\ InsertionLimit(g, d) >= r
    BY <2>1 DEF Admits
  <2>4. \E c \in E : g >= c
    <3>1. d \in Nat \ {0}
      OBVIOUS
    <3> QED BY <2>1, <2>3, <3>1, ExactCovers
  <2> QED BY <2>1, <2>2, <2>3, <2>4, PlanNeeds
<1>4. Least({}) = {}
  BY DEF Least
<1> HIDE DEF G, E, First
<1>5. CASE E = {}
  <2>1. G = {}
    BY <1>3, <1>5
  <2>2. SearchedSlots(r, d) = {}
    <3> HIDE DEF from
    <3> QED BY <1>2, <1>5
  <2> QED BY <1>4, <2>1, <2>2 DEF G
<1>6. ASSUME NEW c \in Nat, E = {c}
      PROVE  SearchedSlots(r, d) = Least(G)
  <2> DEFINE b == FloorOf(c, d)
             M == {m \in b..(Word - 1) : Enough(d, m)}
  <2>1. b \in Nat /\ \A m \in Nat : m >= b <=> m >= c /\ m >= 2 /\ m >= (4 * d + 10) * (2 * d) + 2
    BY FloorOfIs
  <2>2. from(c) = Least(M)
    BY <2>1, MinimumSlotsIs
  <2> HIDE DEF b
  <2>3. \A g \in G : g \in M
    <3> TAKE g \in G
    <3>1. g \in Nat /\ g < Word /\ g >= c /\ g >= 2 /\ g >= (4 * d + 10) * (2 * d) + 2 /\ Enough(d, g)
      BY <1>3, <1>6
    <3>2. g >= b
      BY <2>1, <3>1
    <3> QED BY <1>1, <2>1, <3>1, <3>2
  <2>4. M \in SUBSET Nat /\ \A m \in M : m \in Usize
    BY <1>1, <2>1, UsizeFacts
  <2> HIDE DEF M, from
  <2>5. SearchedSlots(r, d) = UNION {First(n) : n \in from(c)}
    BY <1>2, <1>6
  <2>6. CASE M = {}
    <3>1. G = {} /\ from(c) = {}
      BY <1>4, <2>2, <2>3, <2>6
    <3>2. SearchedSlots(r, d) = {}
      BY <2>5, <3>1
    <3> QED BY <1>4, <3>1, <3>2
  <2>7. CASE M # {}
    <3>1. PICK n \in M : \A m \in M : n <= m
      BY <2>4, <2>7, LeastNat
    <3>2. n \in Nat /\ n \in Usize /\ n < Word
      BY <2>4, UsizeFacts
    <3>3. from(c) = {n}
      <4>1. \A m \in M : m <= n => m = n
        BY <2>4, <3>1
      <4>2. Least(M) = {n}
        BY <3>1, <4>1 DEF Least
      <4> QED BY <2>2, <4>2
    <3>4. SearchedSlots(r, d) = First(n)
      BY <2>5, <3>3
    <3> DEFINE T == {m \in n..(Word - 1) : Admits(m, r, d)}
    <3>5. First(n) = Least(T)
      BY <3>2, FirstPlanIs DEF First
    <3>6. \A g \in G : g \in T
      <4> TAKE g \in G
      <4>1. g \in Nat /\ g < Word /\ Admits(g, r, d) /\ n <= g
        BY <1>3, <2>3, <3>1
      <4> QED BY <1>1, <3>2, <4>1
    <3>7. \A m \in T : m \in G
      <4> TAKE m \in T
      <4>1. m \in Nat /\ m < Word /\ Admits(m, r, d)
        BY <1>1, <3>2
      <4> QED BY <4>1, UsizeFacts DEF G
    <3> HIDE DEF T
    <3>8. T = G
      BY <3>6, <3>7
    <3> QED BY <3>4, <3>5, <3>8
  <2> QED BY <2>6, <2>7
<1>7. E = {} \/ \E c \in Nat : E = {c}
  BY ExactIs DEF E
<1>8. SearchedSlots(r, d) = Least(G)
  BY <1>5, <1>6, <1>7 DEF G
<1> QED BY <1>8 DEF G

(* The slots of a request are the fewest that admit it. *)
LEMMA FewestSlots ==
  ASSUME NEW r \in Usize, r # 0, NEW d \in Nat
  PROVE  InsertBudgetSlots(r, d) \cap (0..MaxSlots)
           = Least({n \in 0..MaxSlots : Admits(n, r, d)})
<1> DEFINE G == {m \in Usize : Admits(m, r, d)}
           T == {n \in 0..MaxSlots : Admits(n, r, d)}
<1>1. MaxSlots \in Nat /\ MaxSlots < Word /\ Word \in Nat
  BY BoundAssumption, UsizeFacts
<1>2. \A m \in G : m \in Nat /\ m < Word
  BY UsizeFacts
<1>3. \A m : m \in T <=> m \in G /\ m \in 0..MaxSlots
  <2>1. \A m \in 0..MaxSlots : m \in Usize
    BY <1>1, UsizeFacts
  <2> QED BY <2>1
<1>4. CASE ~(3 <= d /\ d < UsizeBits)
  <2>1. InsertBudgetSlots(r, d) = {}
    BY <1>4, InsertBudgetIs
  <2>2. \A m \in G : FALSE
    <3> TAKE m \in G
    <3>1. FunnelPlan(m, d) # {} /\ m \in Nat /\ m < Word
      BY <1>2 DEF Admits
    <3>2. d >= 3
      BY <3>1, PlanNeeds
    <3>3. d >= UsizeBits
      BY <1>4, <3>2, UsizeFacts
    <3> QED BY <3>1, <3>3, WideExponents
  <2> HIDE DEF G
  <2>3. T = {}
    BY <1>3, <2>2
  <2>4. Least(T) = {}
    BY <2>3 DEF Least
  <2> QED BY <2>1, <2>4
<1>5. CASE 3 <= d /\ d < UsizeBits
  <2>1. InsertBudgetSlots(r, d) = Least(G)
    <3>1. InsertBudgetSlots(r, d) = SearchedSlots(r, d)
      BY <1>5, InsertBudgetIs
    <3> QED BY <1>5, <3>1, SearchIs
  <2> HIDE DEF G, T
  <2>2. CASE T = {}
    <3>1. Least(T) = {}
      BY <2>2 DEF Least
    <3>2. \A x \in Least(G) : x \notin 0..MaxSlots
      BY <1>3, <2>2 DEF Least
    <3> QED BY <2>1, <3>1, <3>2 DEF T
  <2>3. CASE T # {}
    <3>1. G \in SUBSET Nat /\ T \in SUBSET G
      BY <1>2, <1>3
    <3>2. \A x \in G \ T, y \in T : y < x
      <4> TAKE x \in G \ T, y \in T
      <4>1. x \in Nat /\ x \notin 0..MaxSlots /\ y \in 0..MaxSlots
        BY <1>2, <1>3
      <4> QED BY <1>1, <4>1
    <3>3. Least(G) = Least(T)
      BY <2>3, <3>1, <3>2, LeastOfPart
    <3>4. \A x \in Least(T) : x \in 0..MaxSlots
      BY <1>3 DEF Least
    <3> QED BY <2>1, <3>3, <3>4 DEF T
  <2> QED BY <2>2, <2>3
<1> QED BY <1>4, <1>5

(* Every question about the sizes is answered as BudgetIsSmallest says. *)
LEMMA SizesAnswer ==
  QuestionInv => BudgetIsSmallest
<1> SUFFICES ASSUME QuestionInv
             PROVE  BudgetIsSmallest
  OBVIOUS
<1> DEFINE r == input[1]
           d == input[2]
           Budget == InsertBudgetSlots(r, d) \cap 0..MaxSlots =
                       IF r = 0 THEN {0}
                       ELSE Least({n \in Planned[d] : InsertionLimit(n, d) >= r})
           Minimum == MinimumSlots(d, r) =
                        Least({n \in r..(Word - 1) : FloorThreeDivPow2(n, d + 2) >= 4 * LogLogCeiling(n)})
<1>1. BudgetIsSmallest <=> (Asked("request") => Budget) /\ (Asked("minimum") => Minimum)
  BY Zenon DEF BudgetIsSmallest
<1>2. ASSUME Asked("minimum") PROVE Minimum
  <2>1. input \in Usize \X Nat
    BY <1>2, PlanQuestions
  <2>2. r \in Usize /\ d \in Nat
    BY <2>1
  <2>3. r \in Nat
    BY <2>2, UsizeFacts
  <2> HIDE DEF r, d
  <2> QED BY <2>2, <2>3, MinimumSlotsIs DEF Enough
<1>3. ASSUME Asked("request") PROVE Budget
  <2>1. input \in Inputs.request /\ input \in Usize \X Nat
    BY <1>3, PlanQuestions
  <2>2. r \in Usize /\ d \in Nat
    BY <2>1
  <2>3. Planned[d] = {n \in 0..MaxSlots : FunnelPlan(n, d) # {}}
    <3>1. d \in {x[2] : x \in Inputs.request}
      BY <2>1
    <3> HIDE DEF d
    <3> QED BY <3>1 DEF Planned
  <2> HIDE DEF r, d
  <2>4. CASE r = 0
    <3>1. InsertBudgetSlots(r, d) = {0}
      BY <2>4 DEF InsertBudgetSlots
    <3>2. 0 \in 0..MaxSlots
      BY BoundAssumption
    <3> QED BY <2>4, <3>1, <3>2
  <2>5. CASE r # 0
    <3>1. InsertBudgetSlots(r, d) \cap (0..MaxSlots) = Least({n \in 0..MaxSlots : Admits(n, r, d)})
      BY <2>2, <2>5, FewestSlots
    <3>2. {n \in Planned[d] : InsertionLimit(n, d) >= r} = {n \in 0..MaxSlots : Admits(n, r, d)}
      BY <2>3 DEF Admits
    <3> QED BY <2>5, <3>1, <3>2
  <2> QED BY <2>4, <2>5
<1> HIDE DEF Budget, Minimum
<1> QED BY <1>1, <1>2, <1>3

(* A Funnel table (for_insert_budget) is built with the fewest slots that have a
   plan and admit the request, and funnel_minimum_slots is the least size that its
   own fallback width allows, for every width of usize. *)
THEOREM BudgetIsSmallestHolds == Spec => []BudgetIsSmallest
BY QuestionsAreInputs, SizesAnswer, PTL
===============================================================================
