-------------------------- MODULE PyCollection_proofs ------------------------
(***************************************************************************)
(* Theorems about PyCollection, for every set of keys, every equality and  *)
(* hash that agree, every choice of the comparisons that raise, and every  *)
(* operand; and, before them, lemmas about the operations of PyTable, for  *)
(* every order a lookup meets keys in.                                     *)
(***************************************************************************)
EXTENDS PyCollection, Common_proofs, FiniteSetTheorems, SequenceTheorems

------------------------------------------------------------------------------
(* The functions a fold is made of.                                       *)

LEMMA MaxOf ==
  ASSUME NEW n \in Nat, NEW t \in SUBSET (1..n), n \in t
  PROVE  Max(t) = n
<1>1. \E x \in t : \A y \in t : x >= y
  OBVIOUS
<1> DEFINE x == Max(t)
<1>2. x \in t /\ \A y \in t : x >= y
  BY <1>1, Zenon DEF Max
<1> HIDE DEF x
<1>3. x = n
  BY <1>2
<1> QED BY <1>3 DEF x

LEMMA MaxIn ==
  ASSUME NEW n \in Nat, NEW t \in SUBSET (1..n), t # {}
  PROVE  Max(t) \in t
<1>1. PICK x \in t : \A y \in t : x >= y
  <2> DEFINE T == {m \in Nat : \A y \in t : m >= y}
  <2>1. T \in SUBSET Nat /\ n \in T
    OBVIOUS
  <2>2. PICK m \in T : \A y \in T : m <= y
    BY <2>1, LeastNat, Zenon
  <2>3. m \in t
    <3> SUFFICES ASSUME m \notin t PROVE FALSE
      OBVIOUS
    <3>1. \A y \in t : m >= y /\ m # y /\ y \in 1..n
      BY <2>2
    <3>2. m # 0
      <4>1. PICK y \in t : TRUE
        OBVIOUS
      <4> QED BY <4>1, <3>1
    <3>3. m - 1 \in T /\ ~(m <= m - 1)
      BY <3>1, <3>2, <2>2
    <3> QED BY <3>3, <2>2
  <2> QED BY <2>2, <2>3
<1> QED BY <1>1, Zenon DEF Max

(* The function over sets of positions that FoldLeft is defined by. *)
IsIter(g, n, b, step) ==
  \A t \in SUBSET (1..n) : g[t] = IF t = {} THEN b ELSE step[Max(t)][g[t \ {Max(t)}]]

LEMMA IterExists ==
  ASSUME NEW n \in Nat, NEW A, NEW b \in A, NEW step \in [1..n -> [A -> A]]
  PROVE  \E g \in [SUBSET (1..n) -> A] : IsIter(g, n, b, step)
<1> DEFINE P(m, g) == IsIter(g, m, b, step)
           S == {m \in 0..n : \E g \in [SUBSET (1..m) -> A] : P(m, g)}
<1>1. 0 \in S
  <2> DEFINE g == [t \in SUBSET (1..0) |-> b]
  <2>1. g \in [SUBSET (1..0) -> A] /\ P(0, g)
    BY DEF IsIter
  <2>2. 0 \in 0..n
    OBVIOUS
  <2> HIDE DEF g
  <2> QED BY <2>1, <2>2
<1>2. ASSUME NEW m \in 0..n, m < n, m \in S PROVE m + 1 \in S
  <2>1. PICK f \in [SUBSET (1..m) -> A] : P(m, f)
    BY <1>2
  <2> DEFINE g == [t \in SUBSET (1..(m + 1)) |->
                     IF m + 1 \in t THEN step[m + 1][f[t \ {m + 1}]] ELSE f[t]]
  <2>2. \A t \in SUBSET (1..(m + 1)) : /\ t \ {m + 1} \in SUBSET (1..m)
                                      /\ m + 1 \notin t => t \in SUBSET (1..m)
    OBVIOUS
  <2>3. ASSUME NEW t \in SUBSET (1..(m + 1)) PROVE g[t] \in A
    <3>1. CASE m + 1 \in t
      <4>1. m + 1 \in 1..n /\ f[t \ {m + 1}] \in A
        BY <1>2, <2>2
      <4> QED BY <4>1, <3>1
    <3>2. CASE m + 1 \notin t
      BY <3>2, <2>2
    <3> QED BY <3>1, <3>2
  <2>4. ASSUME NEW t \in SUBSET (1..(m + 1))
        PROVE  g[t] = IF t = {} THEN b ELSE step[Max(t)][g[t \ {Max(t)}]]
    <3>1. CASE m + 1 \in t
      <4>1. Max(t) = m + 1
        <5>1. m + 1 \in Nat
          OBVIOUS
        <5> QED BY <5>1, <3>1, MaxOf
      <4>2. g[t \ {m + 1}] = f[t \ {m + 1}]
        <5>1. t \ {m + 1} \in SUBSET (1..(m + 1)) /\ m + 1 \notin t \ {m + 1}
          OBVIOUS
        <5> QED BY <5>1
      <4> QED BY <4>1, <4>2, <3>1
    <3>2. CASE m + 1 \notin t
      <4>1. g[t] = f[t]
        BY <3>2
      <4>2. t \in SUBSET (1..m)
        BY <3>2, <2>2
      <4>3. f[t] = IF t = {} THEN b ELSE step[Max(t)][f[t \ {Max(t)}]]
        BY <2>1, <4>2 DEF IsIter
      <4>4. t \ {Max(t)} \in SUBSET (1..(m + 1)) /\ m + 1 \notin t \ {Max(t)}
        BY <3>2
      <4>5. g[t \ {Max(t)}] = f[t \ {Max(t)}]
        BY <4>4
      <4> QED BY <4>1, <4>3, <4>5, Zenon
    <3> QED BY <3>1, <3>2
  <2>5. g \in [SUBSET (1..(m + 1)) -> A]
    BY <2>3
  <2> HIDE DEF g
  <2>6. m + 1 \in 0..n
    BY <1>2
  <2> QED BY <2>4, <2>5, <2>6 DEF IsIter
<1> HIDE DEF S
<1>3. \A m \in 0..n : m < n /\ m \in S => m + 1 \in S
  BY <1>2
<1>4. n \in S
  <2>1. \A m \in 0..n : m \in S
    BY <1>1, <1>3, PositionInduction, Zenon
  <2> QED BY <2>1
<1> QED BY <1>4 DEF S
LEMMA Initials ==
  ASSUME NEW n \in Nat, NEW i \in 1..n
  PROVE  /\ i - 1 \in 0..n /\ 1..i \in SUBSET (1..n) /\ 1..i # {}
         /\ Max(1..i) = i /\ (1..i) \ {Max(1..i)} = 1..(i - 1)
<1>1. i \in Nat /\ i \in 1..i /\ i - 1 \in 0..n
  OBVIOUS
<1>2. 1..i \in SUBSET (1..i) /\ 1..i \in SUBSET (1..n)
  BY <1>1
<1>3. Max(1..i) = i
  BY <1>1, <1>2, MaxOf, Zenon
<1>4. (1..i) \ {i} = 1..(i - 1)
  OBVIOUS
<1>5. 1..i # {}
  BY <1>1
<1> QED BY <1>1, <1>2, <1>3, <1>4, <1>5, Zenon

------------------------------------------------------------------------------
(* A lookup.                                                               *)

Seen(S) == [found : SUBSET S, parked : BOOLEAN]

LEMMA CompareType ==
  ASSUME NEW S, NEW seen \in Seen(S), NEW k, NEW o \in S, NEW raising
  PROVE  Compare(seen, k, o, raising) \in Seen(S)
BY DEF Seen, Compare

(* A scan compares one key after the other. *)
Scans(h, n, order, k, raising, start) ==
  /\ h[0] = start
  /\ \A i \in 1..n : h[i] = Compare(h[i - 1], k, order[i], raising)
  /\ h[n] = Scan(order, k, raising, start)

LEMMA ScanSteps ==
  ASSUME NEW n \in Nat, NEW S, NEW order \in [1..n -> S], NEW k, NEW raising, NEW start \in Seen(S)
  PROVE  \E h \in [0..n -> Seen(S)] : Scans(h, n, order, k, raising, start)
<1> DEFINE b == start
           A == Seen(S)
           step == [i \in 1..n |-> [a \in A |-> Compare(a, k, order[i], raising)]]
           Is(g) == g = [ps \in SUBSET DOMAIN order |->
                           IF ps = {} THEN b ELSE Compare(g[ps \ {Max(ps)}], k, order[Max(ps)], raising)]
           g == CHOOSE f : Is(f)
           h == [i \in 0..n |-> g[1..i]]
<1>0. DOMAIN order = 1..n
  OBVIOUS
<1>1. ASSUME NEW a \in A, NEW i \in 1..n PROVE Compare(a, k, order[i], raising) \in A
  BY CompareType
<1>2. b \in A /\ step \in [1..n -> [A -> A]]
  <2>1. b \in A
    OBVIOUS
  <2>2. step \in [1..n -> [A -> A]]
    <3> HIDE DEF A
    <3> QED BY <1>1
  <2> QED BY <2>1, <2>2
<1>3. Is(g)
  <2>1. PICK f \in [SUBSET (1..n) -> A] : IsIter(f, n, b, step)
    <3> HIDE DEF b, A, step
    <3> QED BY <1>2, IterExists, Zenon
  <2>2. ASSUME NEW ps \in SUBSET (1..n), ps # {}
        PROVE  step[Max(ps)][f[ps \ {Max(ps)}]] = Compare(f[ps \ {Max(ps)}], k, order[Max(ps)], raising)
    <3>1. Max(ps) \in 1..n
      BY <2>2, MaxIn
    <3>2. f[ps \ {Max(ps)}] \in A
      OBVIOUS
    <3> HIDE DEF A
    <3> QED BY <3>1, <3>2
  <2>3. f = [ps \in SUBSET (1..n) |-> IF ps = {} THEN b ELSE Compare(f[ps \ {Max(ps)}], k, order[Max(ps)], raising)]
    <3> HIDE DEF step, A, b
    <3> QED BY <2>1, <2>2 DEF IsIter
  <2>4. Is(f)
    BY <1>0, <2>3
  <2> QED BY <2>4, Zenon
<1>4. Scan(order, k, raising, start) = g[DOMAIN order]
  BY Zenon DEF Scan, FoldLeft, MapThenFoldSet
<1>5. ASSUME NEW ps \in SUBSET (1..n)
      PROVE  g[ps] = IF ps = {} THEN b ELSE Compare(g[ps \ {Max(ps)}], k, order[Max(ps)], raising)
  <2> HIDE DEF g
  <2> QED BY <1>0, <1>3
<1> HIDE DEF g, b
<1>6. h[0] = b
  <2>1. 1..0 = {} /\ 0 \in 0..n /\ {} \in SUBSET (1..n)
    OBVIOUS
  <2> QED BY <2>1, <1>5
<1>7. ASSUME NEW i \in 1..n PROVE h[i] = Compare(h[i - 1], k, order[i], raising)
  <2>1. h[i] = g[1..i] /\ h[i - 1] = g[1..(i - 1)]
    BY Initials
  <2>2. /\ 1..i \in SUBSET (1..n) /\ 1..i # {}
        /\ Max(1..i) = i /\ (1..i) \ {Max(1..i)} = 1..(i - 1)
    BY Initials, Zenon
  <2> HIDE DEF h
  <2>3. g[1..i] = Compare(g[(1..i) \ {Max(1..i)}], k, order[Max(1..i)], raising)
    BY <2>2, <1>5, Zenon
  <2> QED BY <2>1, <2>2, <2>3, Zenon
<1>8. h \in [0..n -> A] /\ h[n] = g[1..n]
  <2>1. DOMAIN h = 0..n /\ h = [i \in 0..n |-> h[i]] /\ n \in 0..n /\ h[n] = g[1..n]
    OBVIOUS
  <2>2. ASSUME NEW i \in 1..n, h[i - 1] \in A PROVE h[i] \in A
    <3> HIDE DEF h, A, step
    <3> QED BY <2>2, <1>1, <1>7
  <2> HIDE DEF A, h
  <2>3. \A i \in 0..n : h[i] \in A
    BY <1>2, <1>6, <2>2, StaysIn
  <2> QED BY <2>1, <2>3
<1> HIDE DEF h
<1> QED BY <1>0, <1>4, <1>6, <1>7, <1>8 DEF Scans, b

(* What one comparison does to what was seen. *)
Compared(seen, then, k, o) ==
  /\ seen.parked => then.parked
  /\ seen.found # {} => then = seen
  /\ seen.found = {} /\ then.found # {} =>
       then.found = {o} /\ Equal(k, o) /\ (then.parked => Decided(k, o))
  /\ then.found = {} => seen.found = {} /\ (Equal(k, o) => ~Decided(k, o) /\ then.parked)

LEMMA CompareFacts ==
  ASSUME NEW S, NEW seen \in Seen(S), NEW k, NEW o \in S, NEW raising
  PROVE  Compared(seen, Compare(seen, k, o, raising), k, o)
<1>1. CASE seen.found # {}
  BY <1>1 DEF Compared, Compare
<1>2. CASE seen.found = {} /\ Decided(k, o)
  BY <1>2 DEF Compared, Compare, Seen
<1>3. CASE seen.found = {} /\ ~Decided(k, o) /\ seen.parked
  BY <1>3 DEF Compared, Compare, Seen
<1>4. CASE seen.found = {} /\ ~Decided(k, o) /\ ~seen.parked
  BY <1>4 DEF Compared, Compare, Seen
<1> QED BY <1>1, <1>2, <1>3, <1>4

(* An order of a finite set meets each of its members. *)
LEMMA OrderCovers ==
  ASSUME NEW S, IsFiniteSet(S), NEW order \in SetToSeqs(S)
  PROVE  /\ Cardinality(S) \in Nat /\ order \in [1..Cardinality(S) -> S]
         /\ \A o \in S : \E i \in 1..Cardinality(S) : order[i] = o
<1> DEFINE n == Cardinality(S)
<1>1. n \in Nat
  BY FS_CardinalityType
<1>2. order \in [1..n -> S] /\ \A i, j \in 1..n : i # j => order[i] # order[j]
  BY DEF SetToSeqs
<1>3. order \in Injection(1..n, S)
  BY <1>2 DEF Injection, IsInjective
<1>4. Cardinality(1..n) = n
  <2> HIDE DEF n
  <2>1. Cardinality(1..n) = IF 1 > n THEN 0 ELSE n - 1 + 1
    BY <1>1, FS_Interval
  <2> QED BY <2>1, <1>1
<1>5. order \in Surjection(1..n, S)
  BY <1>3, <1>4, FS_Injection
<1> QED BY <1>1, <1>2, <1>5 DEF Surjection

(* What a lookup of k answers.  What it finds is equal to k, and decided
   without user code if an error is parked; what it misses could not be
   compared, and an error says so. *)
Sound(l, keys, k, parked) ==
  /\ l \in Seen(keys)
  /\ parked => l.parked
  /\ l.found # {} => \E o \in keys : l.found = {o} /\ Equal(k, o) /\ (l.parked => Decided(k, o))
  /\ l.found = {} => \A o \in keys : Equal(k, o) => ~Decided(k, o) /\ l.parked

Flag == BOOLEAN

LEMMA LookupSound ==
  ASSUME NEW keys \in SUBSET Objects, IsFiniteSet(keys), NEW k \in Objects, NEW parked \in Flag,
         NEW l \in Lookups(keys, k, parked)
  PROVE  Sound(l, keys, k, parked)
<1> DEFINE met == {o \in keys : HashOf[o] = HashOf[k]}
           n == Cardinality(met)
<1>1. PICK order \in SetToSeqs(met), raising \in SUBSET {o \in met : MayRaise(k, o)} :
        l = Scan(order, k, raising, Unseen(parked))
  BY DEF Lookups
<1>2. IsFiniteSet(met)
  BY FS_Subset
<1>3. /\ n \in Nat /\ order \in [1..n -> met]
      /\ \A o \in met : \E i \in 1..n : order[i] = o
  <2> HIDE DEF met
  <2> QED BY <1>1, <1>2, OrderCovers
<1> HIDE DEF n
<1> DEFINE start == Unseen(parked)
<1>4. PICK h \in [0..n -> Seen(met)] : Scans(h, n, order, k, raising, start)
  <2>1. start \in Seen(met)
    BY DEF Seen, Flag, Unseen
  <2> HIDE DEF met, start
  <2> QED BY <1>3, <2>1, ScanSteps, Zenon
<1>5. /\ h[0] = start
      /\ \A i \in 1..n : h[i] = Compare(h[i - 1], k, order[i], raising)
      /\ h[n] = Scan(order, k, raising, start)
  BY <1>4 DEF Scans
<1> DEFINE Part(i) ==
             /\ parked => h[i].parked
             /\ h[i].found # {} => \E o \in met : /\ h[i].found = {o} /\ Equal(k, o)
                                                  /\ h[i].parked => Decided(k, o)
             /\ h[i].found = {} => \A j \in 1..i : Equal(k, order[j]) => ~Decided(k, order[j]) /\ h[i].parked
           S == {i \in 0..n : Part(i)}
<1>6. 0 \in S
  BY <1>3, <1>5 DEF Unseen
<1>7. ASSUME NEW i \in 0..n, i < n, i \in S PROVE i + 1 \in S
  <2>1. i + 1 \in 1..n /\ (i + 1) - 1 = i /\ i + 1 \in 0..n
    BY <1>7, <1>3, NextPosition, Zenon
  <2>2. h[i + 1] = Compare(h[i], k, order[i + 1], raising) /\ order[i + 1] \in met /\ h[i] \in Seen(met)
    BY <2>1, <1>3, <1>5
  <2> DEFINE a == h[i]
             b == h[i + 1]
             o == order[i + 1]
  <2>3. Compared(a, b, k, o)
    <3>1. Compared(h[i], Compare(h[i], k, order[i + 1], raising), k, order[i + 1])
      <4> HIDE DEF met
      <4> QED BY <2>2, CompareFacts, Zenon
    <3> QED BY <2>2, <3>1
  <2>4. /\ a.parked => b.parked
        /\ a.found # {} => b = a
        /\ a.found = {} /\ b.found # {} => b.found = {o} /\ Equal(k, o) /\ (b.parked => Decided(k, o))
        /\ b.found = {} => a.found = {} /\ (Equal(k, o) => ~Decided(k, o) /\ b.parked)
    BY <2>3 DEF Compared
  <2>5. Part(i)
    BY <1>7
  <2>6. parked => b.parked
    BY <2>4, <2>5
  <2>7. b.found # {} => \E x \in met : b.found = {x} /\ Equal(k, x) /\ (b.parked => Decided(k, x))
    <3> HIDE DEF met
    <3>1. CASE a.found # {}
      BY <3>1, <2>4, <2>5
    <3>2. CASE a.found = {}
      BY <3>2, <2>4, <2>2
    <3> QED BY <3>1, <3>2
  <2>8. ASSUME b.found = {}, NEW j \in 1..(i + 1), Equal(k, order[j])
        PROVE  ~Decided(k, order[j]) /\ b.parked
    <3>1. CASE j = i + 1
      BY <3>1, <2>4, <2>8
    <3>2. CASE j # i + 1
      <4>1. j \in 1..i
        BY <3>2
      <4> QED BY <4>1, <2>4, <2>5, <2>8
    <3> QED BY <3>1, <3>2
  <2>9. Part(i + 1)
    BY <2>6, <2>7, <2>8
  <2> HIDE DEF Part
  <2> QED BY <2>1, <2>9
<1> HIDE DEF S
<1>8. Part(n)
  <2>1. \A i \in 0..n : i < n /\ i \in S => i + 1 \in S
    BY <1>7
  <2>2. \A i \in 0..n : i \in S
    BY <1>3, <1>6, <2>1, PositionInduction, Zenon
  <2> QED BY <2>2, <1>3 DEF S
<1>9. h[n] \in Seen(met) /\ h[n] = l
  BY <1>1, <1>3, <1>5
<1>10. l \in Seen(keys) /\ (parked => l.parked)
  BY <1>8, <1>9 DEF Seen
<1>11. l.found # {} => \E o \in keys : l.found = {o} /\ Equal(k, o) /\ (l.parked => Decided(k, o))
  BY <1>8, <1>9
<1>12. ASSUME l.found = {}, NEW o \in keys, Equal(k, o) PROVE ~Decided(k, o) /\ l.parked
  <2>1. o \in met
    BY <1>12, PyAssumption DEF Equal
  <2>2. PICK i \in 1..n : order[i] = o
    BY <2>1, <1>3
  <2> QED BY <2>2, <1>8, <1>9, <1>12
<1> QED BY <1>10, <1>11, <1>12 DEF Sound
------------------------------------------------------------------------------
(* Tables.                                                                 *)

(* What an operation leaves: finitely many pairwise distinct keys with values
   of V, within the capacity. *)
Entries(V) ==
  {e \in UNION {[K -> V] : K \in SUBSET Objects} :
     IsFiniteSet(DOMAIN e) /\ \A o, p \in DOMAIN e : Equal(o, p) => o = p}
Tables(V) == {t \in [entries : Entries(V), capacity : Nat] : Size(t) <= t.capacity}

RoughTables(V) ==
  [entries : {e \in UNION {[K -> V] : K \in SUBSET Objects} : IsFiniteSet(DOMAIN e)}, capacity : Nat]

Minus(e, k) == [o \in DOMAIN e \ {k} |-> e[o]]
Row(e, c) == [entries |-> e, capacity |-> c]

LEMMA TableFacts ==
  ASSUME NEW V, NEW t \in Tables(V)
  PROVE  /\ Keys(t) \in SUBSET Objects /\ IsFiniteSet(Keys(t))
         /\ t.entries \in [Keys(t) -> V] /\ t.entries \in Entries(V)
         /\ \A o, p \in Keys(t) : Equal(o, p) => o = p
         /\ t.capacity \in Nat /\ Size(t) \in Nat /\ Size(t) <= t.capacity
         /\ t = Row(t.entries, t.capacity)
<1>1. t.entries \in Entries(V) /\ t.capacity \in Nat /\ Size(t) <= t.capacity
  BY DEF Tables
<1>2. PICK K \in SUBSET Objects : t.entries \in [K -> V]
  BY <1>1 DEF Entries
<1>3. DOMAIN t.entries = K
  BY <1>2
<1>4. IsFiniteSet(K) /\ \A o, p \in K : Equal(o, p) => o = p
  BY <1>1, <1>3 DEF Entries
<1>5. Cardinality(K) \in Nat
  BY <1>4, FS_CardinalityType
<1>6. t = Row(t.entries, t.capacity)
  BY DEF Tables, Row
<1> QED BY <1>1, <1>2, <1>3, <1>4, <1>5, <1>6 DEF Keys, Size

LEMMA RoughFacts ==
  ASSUME NEW V, NEW t \in RoughTables(V)
  PROVE  /\ Keys(t) \in SUBSET Objects /\ IsFiniteSet(Keys(t)) /\ t.entries \in [Keys(t) -> V]
         /\ t.capacity \in Nat /\ Size(t) \in Nat /\ t = Row(t.entries, t.capacity)
<1>1. PICK K \in SUBSET Objects : t.entries \in [K -> V]
  BY DEF RoughTables
<1>2. DOMAIN t.entries = K
  BY <1>1
<1>3. IsFiniteSet(K) /\ t.capacity \in Nat /\ t = Row(t.entries, t.capacity)
  BY <1>2 DEF RoughTables, Row
<1>4. Cardinality(K) \in Nat
  BY <1>3, FS_CardinalityType
<1> QED BY <1>1, <1>2, <1>3, <1>4 DEF Keys, Size

LEMMA TablesAreRough ==
  ASSUME NEW V, NEW t \in Tables(V)
  PROVE  t \in RoughTables(V)
BY DEF Tables, Entries, RoughTables

LEMMA RoughOf ==
  ASSUME NEW V, NEW K \in SUBSET Objects, IsFiniteSet(K), NEW e \in [K -> V], NEW c \in Nat
  PROVE  Row(e, c) \in RoughTables(V)
BY DEF RoughTables, Row

LEMMA TableOf ==
  ASSUME NEW V, NEW K \in SUBSET Objects, IsFiniteSet(K), NEW e \in [K -> V],
         \A o, p \in K : Equal(o, p) => o = p, NEW c \in Nat, Cardinality(K) <= c
  PROVE  /\ Row(e, c) \in Tables(V) /\ Keys(Row(e, c)) = K /\ e \in Entries(V)
         /\ Row(e, c).entries = e /\ Row(e, c).capacity = c
<1>1. DOMAIN e = K
  OBVIOUS
<1>2. e \in Entries(V)
  BY <1>1 DEF Entries
<1> QED BY <1>1, <1>2 DEF Tables, Row, Keys, Size

(* Equality of keys is an equivalence, and a key is decided to be itself. *)
LEMMA EqualFacts ==
  ASSUME NEW k, NEW o
  PROVE  /\ Equal(k, k) /\ Decided(k, k) /\ (Equal(k, o) <=> Equal(o, k))
         /\ \A p : Equal(k, o) /\ Equal(k, p) => Equal(o, p)
BY DEF Equal, Decided

------------------------------------------------------------------------------
(* Capacities.                                                             *)

LEMMA DoublingsReach ==
  ASSUME NEW n \in Nat
  PROVE  Doublings(n) \in SUBSET Nat /\ \E c \in Doublings(n) : c >= n
<1> DEFINE Is(f) == f = [k \in 0..n |-> IF k = 0 THEN 1 ELSE 2 * f[k - 1]]
           d == CHOOSE f : Is(f)
<1>1. \E f : Is(f)
  <2> DEFINE step == [i \in 1..n |-> [a \in Nat |-> 2 * a]]
  <2>1. step \in [1..n -> [Nat -> Nat]] /\ 1 \in Nat
    OBVIOUS
  <2>2. PICK h \in [0..n -> Nat] : TakesSteps(h, n, 1, step)
    <3> HIDE DEF step
    <3> QED BY <2>1, StepsExist, Zenon
  <2>3. ASSUME NEW k \in 0..n PROVE h[k] = IF k = 0 THEN 1 ELSE 2 * h[k - 1]
    <3>1. CASE k = 0
      BY <3>1, <2>2 DEF TakesSteps
    <3>2. CASE k # 0
      <4>1. k \in 1..n /\ k - 1 \in 0..n
        BY <3>2
      <4> QED BY <4>1, <3>2, <2>2 DEF TakesSteps
    <3> QED BY <3>1, <3>2
  <2> QED BY <2>3
<1>2. Is(d)
  BY <1>1, Zenon
<1>3. Doublings(n) = Range(d)
  BY Zenon DEF Doublings
<1> HIDE DEF d
<1>4. \A k \in 0..n : d[k] \in {m \in Nat : m >= k}
  <2> DEFINE S == {k \in 0..n : d[k] \in {m \in Nat : m >= k + 1}}
  <2>1. 0 \in S
    BY <1>2
  <2>2. ASSUME NEW k \in 0..n, k < n, k \in S PROVE k + 1 \in S
    <3>1. k + 1 \in 1..n /\ (k + 1) - 1 = k /\ k + 1 \in 0..n
      BY <2>2, NextPosition, Zenon
    <3>2. d[k + 1] = 2 * d[k] /\ d[k] \in Nat /\ d[k] >= k + 1
      BY <3>1, <1>2, <2>2
    <3> QED BY <3>1, <3>2
  <2> HIDE DEF S
  <2>3. \A k \in 0..n : k < n /\ k \in S => k + 1 \in S
    BY <2>2
  <2>4. \A k \in 0..n : k \in S
    BY <2>1, <2>3, PositionInduction, Zenon
  <2>5. ASSUME NEW k \in 0..n PROVE d[k] \in Nat /\ d[k] >= k
    BY <2>4 DEF S
  <2> QED BY <2>5
<1>5. DOMAIN d = 0..n
  BY <1>2
<1>6. Range(d) = {d[k] : k \in 0..n}
  BY <1>5 DEF Range
<1> QED BY <1>3, <1>4, <1>6

LEMMA GrownFacts ==
  ASSUME NEW c \in Nat, NEW n \in Nat
  PROVE  Grown(c, n) \in Nat /\ Grown(c, n) >= n /\ (n <= c => Grown(c, n) = c)
<1> DEFINE S == {m \in Doublings(n) : m >= n}
           x == Min(S)
<1>1. S \in SUBSET Nat /\ S # {}
  BY DoublingsReach
<1>2. \E m \in S : \A y \in S : m <= y
  <2> HIDE DEF S
  <2> QED BY <1>1, LeastNat, Zenon
<1>3. x \in S
  <2> HIDE DEF S
  <2> QED BY <1>2, Zenon DEF Min
<1>4. Grown(c, n) = IF n <= c THEN c ELSE x
  BY DEF Grown
<1>5. x \in Nat /\ x >= n
  BY <1>1, <1>3
<1> HIDE DEF x
<1> QED BY <1>4, <1>5
------------------------------------------------------------------------------
(* Tables with one key more, one value changed, one key less.              *)

LEMMA SameEntries ==
  ASSUME NEW V, NEW t \in Tables(V), NEW c \in Nat, Size(t) <= c
  PROVE  Row(t.entries, c) \in Tables(V)
BY TableFacts, TableOf DEF Size

LEMMA WithNewKey ==
  ASSUME NEW V, NEW t \in Tables(V), NEW k \in Objects, NEW v \in V,
         \A o \in Keys(t) : ~Equal(k, o)
  PROVE  Row(With(t.entries, k, v), Grown(t.capacity, Size(t) + 1)) \in Tables(V)
<1> DEFINE K == Keys(t) \cup {k}
           e == With(t.entries, k, v)
           c == Grown(t.capacity, Size(t) + 1)
<1>1. /\ Keys(t) \in SUBSET Objects /\ IsFiniteSet(Keys(t)) /\ t.entries \in [Keys(t) -> V]
      /\ \A o, p \in Keys(t) : Equal(o, p) => o = p
      /\ t.capacity \in Nat /\ Size(t) \in Nat
  BY TableFacts
<1>2. K \in SUBSET Objects /\ e \in [K -> V]
  BY <1>1 DEF With
<1>3. IsFiniteSet(K) /\ Cardinality(K) <= Size(t) + 1
  <2>1. IsFiniteSet(K) /\ Cardinality(K) = IF k \in Keys(t) THEN Size(t) ELSE Size(t) + 1
    BY <1>1, FS_AddElement DEF Size
  <2> QED BY <2>1, <1>1
<1>4. ASSUME NEW o \in K, NEW p \in K, Equal(o, p) PROVE o = p
  BY <1>1, <1>4, EqualFacts
<1>5. c \in Nat /\ c >= Size(t) + 1
  <2>1. Size(t) + 1 \in Nat
    BY <1>1
  <2> QED BY <1>1, <2>1, GrownFacts
<1>6. Cardinality(K) <= c
  <2>1. Cardinality(K) \in Nat
    BY <1>3, FS_CardinalityType
  <2> HIDE DEF K, c
  <2> QED BY <2>1, <1>1, <1>3, <1>5
<1> HIDE DEF K, e, c
<1> QED BY <1>2, <1>3, <1>4, <1>5, <1>6, TableOf DEF e, c

LEMMA WithOldKey ==
  ASSUME NEW V, NEW t \in Tables(V), NEW k \in Keys(t), NEW v \in V
  PROVE  Row(With(t.entries, k, v), t.capacity) \in Tables(V)
<1> DEFINE e == With(t.entries, k, v)
<1>1. /\ Keys(t) \in SUBSET Objects /\ IsFiniteSet(Keys(t)) /\ t.entries \in [Keys(t) -> V]
      /\ \A o, p \in Keys(t) : Equal(o, p) => o = p
      /\ t.capacity \in Nat /\ Cardinality(Keys(t)) <= t.capacity
  BY TableFacts DEF Size
<1>2. e \in [Keys(t) -> V]
  BY <1>1 DEF With
<1> HIDE DEF e
<1> QED BY <1>1, <1>2, TableOf DEF e

LEMMA WithoutKey ==
  ASSUME NEW V, NEW t \in Tables(V), NEW k \in Keys(t)
  PROVE  /\ Row(Minus(t.entries, k), t.capacity) \in Tables(V)
         /\ Size(Row(Minus(t.entries, k), t.capacity)) + 1 = Size(t)
<1> DEFINE e == Minus(t.entries, k)
           K == Keys(t) \ {k}
<1>1. /\ Keys(t) \in SUBSET Objects /\ IsFiniteSet(Keys(t)) /\ t.entries \in [Keys(t) -> V]
      /\ \A o, p \in Keys(t) : Equal(o, p) => o = p
      /\ t.capacity \in Nat /\ Size(t) \in Nat /\ Size(t) <= t.capacity
  BY TableFacts
<1>2. K \in SUBSET Objects /\ e \in [K -> V]
  BY <1>1 DEF Minus
<1>3. IsFiniteSet(K) /\ Cardinality(K) = Size(t) - 1
  BY <1>1, FS_RemoveElement DEF Size
<1>4. Cardinality(K) \in Nat
  BY <1>3, FS_CardinalityType
<1>5. \A o, p \in K : Equal(o, p) => o = p
  BY <1>1
<1>6. Cardinality(K) <= t.capacity
  BY <1>1, <1>3, <1>4
<1> HIDE DEF K, e
<1>7. Row(e, t.capacity) \in Tables(V) /\ Keys(Row(e, t.capacity)) = K
  BY <1>1, <1>2, <1>3, <1>5, <1>6, TableOf
<1>8. Size(Row(e, t.capacity)) + 1 = Size(t)
  BY <1>1, <1>3, <1>4, <1>7 DEF Size
<1> QED BY <1>7, <1>8 DEF e

------------------------------------------------------------------------------
(* Insertions and removals.                                                *)

(* An insertion that found no key puts k beside keys that could not be told
   to be equal to it; one that found a key changes its value. *)
PutBeside(i, t, k, v, parked) ==
  /\ i.replaced = {} /\ (parked => i.parked)
  /\ i.table = Row(With(t.entries, k, v), Grown(t.capacity, Size(t) + 1))
  /\ \A o \in Keys(t) : Equal(k, o) => ~Decided(k, o) /\ i.parked
PutOver(i, t, o, k, v) ==
  /\ Equal(k, o) /\ (i.parked => Decided(k, o))
  /\ i.replaced = {t.entries[o]}
  /\ i.table = Row(With(t.entries, o, v), t.capacity)

LEMMA InsertFacts ==
  ASSUME NEW V, NEW t \in RoughTables(V), NEW k \in Objects, NEW v, NEW parked \in Flag,
         NEW i \in Insert(t, k, v, parked)
  PROVE  /\ i.parked \in BOOLEAN
         /\ PutBeside(i, t, k, v, parked) \/ \E o \in Keys(t) : PutOver(i, t, o, k, v)
<1>1. PICK l \in Lookups(Keys(t), k, parked) :
        i = [parked |-> l.parked, replaced |-> {t.entries[o] : o \in l.found},
             table  |-> IF l.found = {}
                        THEN [entries  |-> With(t.entries, k, v),
                              capacity |-> Grown(t.capacity, Size(t) + 1)]
                        ELSE [t EXCEPT !.entries = [o \in DOMAIN @ |-> IF o \in l.found THEN v ELSE @[o]]]]
  BY DEF Insert
<1>2. /\ Keys(t) \in SUBSET Objects /\ IsFiniteSet(Keys(t))
      /\ t.entries \in [Keys(t) -> V] /\ t = Row(t.entries, t.capacity)
  BY RoughFacts
<1>3. Sound(l, Keys(t), k, parked)
  BY <1>2, LookupSound, Zenon
<1>4. l.parked \in BOOLEAN
  BY <1>3 DEF Sound, Seen
<1>5. CASE l.found = {}
  <2>2. i.table = Row(With(t.entries, k, v), Grown(t.capacity, Size(t) + 1))
    BY <1>1, <1>5 DEF Row
  <2>3. i.replaced = {}
    BY <1>1, <1>5
  <2>4. i.parked = l.parked
    BY <1>1
  <2> QED BY <1>3, <1>4, <1>5, <2>2, <2>3, <2>4 DEF PutBeside, Sound
<1>6. CASE l.found # {}
  <2>1. PICK o \in Keys(t) : l.found = {o} /\ Equal(k, o) /\ (l.parked => Decided(k, o))
    BY <1>3, <1>6 DEF Sound
  <2>2. [x \in DOMAIN t.entries |-> IF x \in l.found THEN v ELSE t.entries[x]] = With(t.entries, o, v)
    BY <1>2, <2>1 DEF With
  <2>3. i.table = Row(With(t.entries, o, v), t.capacity)
    BY <1>1, <1>2, <1>6, <2>2 DEF Row
  <2>4. i.replaced = {t.entries[o]}
    BY <1>1, <2>1
  <2>5. i.parked = l.parked
    BY <1>1
  <2> QED BY <1>4, <2>1, <2>3, <2>4, <2>5 DEF PutOver
<1> QED BY <1>5, <1>6

(* A removal of k from any finitely many keys. *)
Removed(r, e, c, K, k, parked) ==
  /\ r.parked \in BOOLEAN /\ (parked => r.parked)
  /\ \/ /\ r.removed = {} /\ r.table = Row(e, c)
        /\ \A o \in K : Equal(k, o) => ~Decided(k, o) /\ r.parked
     \/ \E o \in K : /\ r.removed = {o} /\ r.table = Row(Minus(e, o), c)
                     /\ Equal(k, o) /\ (r.parked => Decided(k, o))

LEMMA RemoveFacts ==
  ASSUME NEW V, NEW K \in SUBSET Objects, IsFiniteSet(K), NEW e \in [K -> V], NEW c,
         NEW k \in Objects, NEW parked \in Flag, NEW r \in RemoveEntry(Row(e, c), k, parked)
  PROVE  Removed(r, e, c, K, k, parked)
<1> DEFINE t == Row(e, c)
<1>1. PICK l \in Lookups(Keys(t), k, parked) :
        r = [parked |-> l.parked, removed |-> l.found, table |-> Without(t, l.found)]
  BY DEF RemoveEntry
<1>2. Keys(t) = K /\ t.entries = e
  BY DEF Row, Keys
<1>3. Sound(l, K, k, parked)
  BY <1>1, <1>2, LookupSound, Zenon
<1>4. l.parked \in BOOLEAN
  BY <1>3 DEF Sound, Seen
<1>5. CASE l.found = {}
  <2>1. [o \in DOMAIN e \ l.found |-> e[o]] = e
    BY <1>5
  <2>2. Without(t, l.found) = t
    BY <2>1 DEF Without, Row
  <2> QED BY <1>1, <1>3, <1>4, <1>5, <2>2 DEF Sound, Removed
<1>6. CASE l.found # {}
  <2>1. PICK o \in K : l.found = {o} /\ Equal(k, o) /\ (l.parked => Decided(k, o))
    BY <1>3, <1>6 DEF Sound
  <2>2. Without(t, l.found) = Row(Minus(e, o), c)
    BY <2>1 DEF Without, Row, Minus
  <2> QED BY <1>1, <1>3, <1>4, <2>1, <2>2 DEF Sound, Removed
<1> QED BY <1>5, <1>6
------------------------------------------------------------------------------
(* The checked operations.                                                 *)

Outcomes(V) == [table : Tables(V), raised : BOOLEAN, changed : BOOLEAN]

(* A raise leaves the entries as they were; otherwise the one key equal to k,
   k itself if there was none, holds v. *)
Put(out, t, k, v) ==
  \/ out.raised /\ ~out.changed /\ out.table.entries = t.entries
  \/ /\ ~out.raised
     /\ \E o \in Keys(t) : Equal(k, o) /\ out.table.entries = With(t.entries, o, v)
  \/ /\ ~out.raised /\ out.changed
     /\ \A o \in Keys(t) : ~Equal(k, o)
     /\ out.table.entries = With(t.entries, k, v)

(* A raise leaves the table as it was; otherwise no key equal to k is left. *)
Took(out, t, k) ==
  \/ out.raised /\ ~out.changed /\ out.table.entries = t.entries
  \/ /\ ~out.raised /\ ~out.changed /\ out.table.entries = t.entries
     /\ \A o \in Keys(t) : ~Equal(k, o)
  \/ /\ ~out.raised /\ out.changed
     /\ \E o \in Keys(t) : Equal(k, o) /\ out.table.entries = Minus(t.entries, o)

(* Taking k out again after it was put beside keys it could not be compared
   to: only k itself is found. *)
LEMMA TakenBack ==
  ASSUME NEW V, NEW t \in Tables(V), NEW k \in Objects, NEW v \in V, NEW parked \in Flag,
         NEW i, i.parked, PutBeside(i, t, k, v, parked), NEW r \in RemoveEntry(i.table, k, TRUE)
  PROVE  r.table.entries = t.entries /\ r.table \in Tables(V)
<1> DEFINE c == Grown(t.capacity, Size(t) + 1)
           e == With(t.entries, k, v)
           K == Keys(t) \cup {k}
<1>1. /\ Keys(t) \in SUBSET Objects /\ IsFiniteSet(Keys(t)) /\ t.entries \in [Keys(t) -> V]
      /\ t.capacity \in Nat /\ Size(t) \in Nat
  BY TableFacts
<1>2. i.table = Row(e, c) /\ \A o \in Keys(t) : Equal(k, o) => ~Decided(k, o)
  BY DEF PutBeside
<1>3. k \notin Keys(t)
  BY <1>2, EqualFacts
<1>4. K \in SUBSET Objects /\ IsFiniteSet(K) /\ e \in [K -> V]
  BY <1>1, FS_AddElement DEF With
<1>5. TRUE \in Flag
  BY DEF Flag
<1>6. Removed(r, e, c, K, k, TRUE)
  <2>1. r \in RemoveEntry(Row(e, c), k, TRUE)
    BY <1>2
  <2> HIDE DEF c, e, K
  <2> QED BY <1>4, <1>5, <2>1, RemoveFacts, Zenon
<1>7. PICK o \in K : r.table = Row(Minus(e, o), c) /\ Equal(k, o) /\ Decided(k, o)
  BY <1>6, EqualFacts DEF Removed
<1>8. o = k
  BY <1>2, <1>7
<1>9. Minus(e, k) = t.entries
  BY <1>1, <1>3 DEF Minus, With
<1>10. c \in Nat /\ c >= Size(t) + 1
  <2>1. Size(t) + 1 \in Nat
    BY <1>1
  <2> QED BY <1>1, <2>1, GrownFacts
<1>11. r.table = Row(t.entries, c)
  BY <1>7, <1>8, <1>9
<1>12. Row(t.entries, c) \in Tables(V)
  <2>1. Size(t) <= c
    <3> HIDE DEF c
    <3> QED BY <1>1, <1>10
  <2> HIDE DEF c
  <2> QED BY <1>10, <2>1, SameEntries
<1> QED BY <1>11, <1>12 DEF Row

LEMMA MapInsertFacts ==
  ASSUME NEW V, NEW t \in Tables(V), NEW k \in Objects, NEW v \in V, NEW out \in MapInsert(t, k, v)
  PROVE  out \in Outcomes(V) /\ Put(out, t, k, v)
<1>1. PICK i \in Insert(t, k, v, FALSE) :
        out \in IF ~i.parked THEN {Outcome(i.table, FALSE, TRUE)}
                ELSE IF i.replaced = {}
                  THEN {Outcome(r.table, TRUE, FALSE) : r \in RemoveEntry(i.table, k, TRUE)}
                ELSE {Outcome([i.table EXCEPT !.entries =
                                 [o \in DOMAIN @ |-> IF o \in l.found THEN CHOOSE old \in i.replaced : TRUE
                                                     ELSE @[o]]], TRUE, FALSE) :
                        l \in Lookups(Keys(i.table), k, TRUE)}
  BY DEF MapInsert
<1>2. FALSE \in Flag /\ TRUE \in Flag
  BY DEF Flag
<1>3. /\ i.parked \in BOOLEAN
      /\ PutBeside(i, t, k, v, FALSE) \/ \E o \in Keys(t) : PutOver(i, t, o, k, v)
  BY <1>2, TablesAreRough, InsertFacts, Zenon
<1>4. /\ Keys(t) \in SUBSET Objects /\ IsFiniteSet(Keys(t)) /\ t.entries \in [Keys(t) -> V]
      /\ \A o, p \in Keys(t) : Equal(o, p) => o = p
      /\ t = Row(t.entries, t.capacity)
  BY TableFacts
<1>5. CASE PutBeside(i, t, k, v, FALSE) /\ ~i.parked
  <2>1. out = Outcome(i.table, FALSE, TRUE)
    BY <1>1, <1>5
  <2>2. i.table = Row(With(t.entries, k, v), Grown(t.capacity, Size(t) + 1)) /\ \A o \in Keys(t) : ~Equal(k, o)
    BY <1>5 DEF PutBeside
  <2>3. i.table \in Tables(V)
    BY <2>2, WithNewKey, Zenon
  <2>4. out \in Outcomes(V) /\ out.table = i.table /\ ~out.raised /\ out.changed
    BY <2>1, <2>3 DEF Outcome, Outcomes
  <2> QED BY <2>2, <2>4 DEF Put, Row
<1>6. CASE PutBeside(i, t, k, v, FALSE) /\ i.parked
  <2>1. PICK r \in RemoveEntry(i.table, k, TRUE) : out = Outcome(r.table, TRUE, FALSE)
    BY <1>1, <1>6 DEF PutBeside
  <2>2. r.table.entries = t.entries /\ r.table \in Tables(V)
    BY <1>2, <1>6, TakenBack
  <2> QED BY <2>1, <2>2 DEF Put, Outcome, Outcomes
<1>7. ASSUME NEW o \in Keys(t), PutOver(i, t, o, k, v), ~i.parked
      PROVE  out \in Outcomes(V) /\ Put(out, t, k, v)
  <2>1. out = Outcome(i.table, FALSE, TRUE)
    BY <1>1, <1>7
  <2>2. i.table = Row(With(t.entries, o, v), t.capacity) /\ Equal(k, o)
    BY <1>7 DEF PutOver
  <2>3. i.table \in Tables(V)
    BY <2>2, WithOldKey, Zenon
  <2>4. out \in Outcomes(V) /\ out.table = i.table /\ ~out.raised /\ out.changed
    BY <2>1, <2>3 DEF Outcome, Outcomes
  <2> QED BY <2>2, <2>4 DEF Put, Row
<1>8. ASSUME NEW o \in Keys(t), PutOver(i, t, o, k, v), i.parked
      PROVE  out \in Outcomes(V) /\ Put(out, t, k, v)
  <2>1. /\ i.table = Row(With(t.entries, o, v), t.capacity)
        /\ Equal(k, o) /\ Decided(k, o) /\ i.replaced = {t.entries[o]}
    BY <1>8 DEF PutOver
  <2>2. PICK l \in Lookups(Keys(i.table), k, TRUE) :
          out = Outcome([i.table EXCEPT !.entries =
                           [x \in DOMAIN @ |-> IF x \in l.found THEN CHOOSE old \in i.replaced : TRUE
                                               ELSE @[x]]], TRUE, FALSE)
    BY <1>1, <1>8, <2>1
  <2>3. Keys(i.table) = Keys(t)
    BY <2>1, <1>4 DEF Keys, Row, With
  <2>4. Sound(l, Keys(t), k, TRUE)
    BY <1>2, <1>4, <2>3, LookupSound, Zenon
  <2>5. l.found = {o}
    <3>1. l.found # {}
      BY <2>1, <2>4 DEF Sound
    <3>2. PICK p \in Keys(t) : l.found = {p} /\ Equal(k, p)
      BY <2>4, <3>1 DEF Sound
    <3> QED BY <1>4, <2>1, <3>2, EqualFacts
  <2>6. (CHOOSE old \in i.replaced : TRUE) = t.entries[o]
    BY <2>1
  <2>7. [x \in DOMAIN i.table.entries |-> IF x \in l.found THEN t.entries[o] ELSE i.table.entries[x]]
          = t.entries
    BY <1>4, <2>1, <2>5 DEF Row, With
  <2>8. [i.table EXCEPT !.entries =
           [x \in DOMAIN @ |-> IF x \in l.found THEN CHOOSE old \in i.replaced : TRUE ELSE @[x]]] = t
    BY <1>4, <2>1, <2>6, <2>7 DEF Row
  <2>9. out = Outcome(t, TRUE, FALSE)
    BY <2>2, <2>8
  <2> QED BY <2>9 DEF Put, Outcome, Outcomes
<1> QED BY <1>3, <1>5, <1>6, <1>7, <1>8

LEMMA SetInsertFacts ==
  ASSUME NEW unit, NEW t \in Tables({unit}), NEW k \in Objects, NEW out \in SetInsert(t, k, unit)
  PROVE  out \in Outcomes({unit}) /\ Put(out, t, k, unit)
<1> DEFINE V == {unit}
<1>1. PICK i \in Insert(t, k, unit, FALSE) :
        out \in IF ~i.parked \/ i.replaced # {} THEN {Outcome(i.table, i.parked, i.replaced = {})}
                ELSE {Outcome(r.table, TRUE, FALSE) : r \in RemoveEntry(i.table, k, TRUE)}
  BY DEF SetInsert
<1>2. FALSE \in Flag /\ unit \in V
  BY DEF Flag
<1>3. /\ i.parked \in BOOLEAN
      /\ PutBeside(i, t, k, unit, FALSE) \/ \E o \in Keys(t) : PutOver(i, t, o, k, unit)
  BY <1>2, TablesAreRough, InsertFacts, Zenon
<1>4. t.entries \in [Keys(t) -> V]
  BY TableFacts
<1>5. CASE PutBeside(i, t, k, unit, FALSE) /\ ~i.parked
  <2>1. out = Outcome(i.table, FALSE, TRUE)
    <3>1. i.parked = FALSE /\ (i.replaced = {}) = TRUE
      BY <1>3, <1>5 DEF PutBeside
    <3>2. out = Outcome(i.table, i.parked, i.replaced = {})
      BY <1>1, <3>1
    <3> QED BY <3>1, <3>2
  <2>2. i.table = Row(With(t.entries, k, unit), Grown(t.capacity, Size(t) + 1)) /\ \A o \in Keys(t) : ~Equal(k, o)
    BY <1>5 DEF PutBeside
  <2>3. i.table \in Tables(V)
    BY <1>2, <2>2, WithNewKey, Zenon
  <2>4. out \in Outcomes(V) /\ out.table = i.table /\ ~out.raised /\ out.changed
    BY <2>1, <2>3 DEF Outcome, Outcomes
  <2> QED BY <2>2, <2>4 DEF Put, Row
<1>6. CASE PutBeside(i, t, k, unit, FALSE) /\ i.parked
  <2>1. PICK r \in RemoveEntry(i.table, k, TRUE) : out = Outcome(r.table, TRUE, FALSE)
    BY <1>1, <1>6 DEF PutBeside
  <2>2. r.table.entries = t.entries /\ r.table \in Tables(V)
    BY <1>2, <1>6, TakenBack
  <2> QED BY <2>1, <2>2 DEF Put, Outcome, Outcomes
<1>7. ASSUME NEW o \in Keys(t), PutOver(i, t, o, k, unit)
      PROVE  out \in Outcomes(V) /\ Put(out, t, k, unit)
  <2>1. i.table = Row(With(t.entries, o, unit), t.capacity) /\ Equal(k, o) /\ i.replaced # {}
    BY <1>7 DEF PutOver
  <2>2. out = Outcome(i.table, i.parked, FALSE)
    BY <1>1, <2>1
  <2>3. i.table \in Tables(V)
    BY <1>2, <2>1, WithOldKey, Zenon
  <2>4. With(t.entries, o, unit) = t.entries
    BY <1>4 DEF With
  <2>5. i.table.entries = t.entries
    BY <2>1, <2>4 DEF Row
  <2>6. /\ out \in Outcomes(V) /\ out.raised = i.parked /\ ~out.changed /\ out.table.entries = t.entries
    BY <1>3, <2>2, <2>3, <2>5 DEF Outcome, Outcomes
  <2> QED BY <1>3, <2>1, <2>4, <2>6 DEF Put
<1> QED BY <1>3, <1>5, <1>6, <1>7
LEMMA TakeOutFacts ==
  ASSUME NEW V, NEW t \in Tables(V), NEW k \in Objects, NEW out \in TakeOut(t, k)
  PROVE  out \in Outcomes(V) /\ Took(out, t, k)
<1>1. PICK r \in RemoveEntry(t, k, FALSE) :
        out \in IF ~r.parked \/ r.removed = {} THEN {Outcome(r.table, r.parked, r.removed # {})}
                ELSE UNION {{Outcome(i.table, TRUE, FALSE) : i \in Insert(r.table, o, t.entries[o], TRUE)} :
                              o \in r.removed}
  BY DEF TakeOut
<1>2. FALSE \in Flag /\ TRUE \in Flag
  BY DEF Flag
<1>3. /\ Keys(t) \in SUBSET Objects /\ IsFiniteSet(Keys(t)) /\ t.entries \in [Keys(t) -> V]
      /\ \A o, p \in Keys(t) : Equal(o, p) => o = p
      /\ t = Row(t.entries, t.capacity)
      /\ t.capacity \in Nat /\ Size(t) \in Nat /\ Size(t) <= t.capacity
  BY TableFacts
<1>4. Removed(r, t.entries, t.capacity, Keys(t), k, FALSE)
  <2>1. r \in RemoveEntry(Row(t.entries, t.capacity), k, FALSE)
    BY <1>3
  <2> QED BY <1>2, <1>3, <2>1, RemoveFacts, Zenon
<1>5. r.parked \in BOOLEAN
  BY <1>4 DEF Removed
<1>6. CASE r.removed = {}
  <2>1. r.table = t /\ \A o \in Keys(t) : Equal(k, o) => r.parked
    BY <1>3, <1>4, <1>6 DEF Removed
  <2>2. (r.removed # {}) = FALSE
    BY <1>6
  <2>3. out = Outcome(t, r.parked, FALSE)
    <3>1. out = Outcome(r.table, r.parked, r.removed # {})
      BY <1>1, <1>6
    <3> QED BY <2>1, <2>2, <3>1
  <2>4. out \in Outcomes(V) /\ out.table = t /\ out.raised = r.parked /\ ~out.changed
    BY <1>5, <2>3 DEF Outcome, Outcomes
  <2> QED BY <1>5, <2>1, <2>4 DEF Took
<1>7. ASSUME NEW o \in Keys(t), r.removed = {o}, r.table = Row(Minus(t.entries, o), t.capacity), Equal(k, o)
      PROVE  out \in Outcomes(V) /\ Took(out, t, k)
  <2>1. r.table \in Tables(V) /\ Size(r.table) + 1 = Size(t)
    BY <1>7, WithoutKey
  <2>2. CASE ~r.parked
    <3>1. out = Outcome(r.table, FALSE, TRUE)
      <4>1. r.parked = FALSE /\ (r.removed # {}) = TRUE
        BY <1>5, <1>7, <2>2
      <4>2. out = Outcome(r.table, r.parked, r.removed # {})
        BY <1>1, <4>1
      <4> QED BY <4>1, <4>2
    <3>2. out \in Outcomes(V) /\ out.table = r.table /\ ~out.raised /\ out.changed
      BY <2>1, <3>1 DEF Outcome, Outcomes
    <3> QED BY <1>7, <3>2 DEF Took, Row
  <2>3. CASE r.parked
    <3>1. PICK i \in Insert(r.table, o, t.entries[o], TRUE) : out = Outcome(i.table, TRUE, FALSE)
      BY <1>1, <1>7, <2>3
    <3>2. PutBeside(i, r.table, o, t.entries[o], TRUE)
            \/ \E p \in Keys(r.table) : PutOver(i, r.table, p, o, t.entries[o])
      <4>1. o \in Objects
        BY <1>3
      <4> QED BY <1>2, <2>1, <4>1, TablesAreRough, InsertFacts, Zenon
    <3>3. Keys(r.table) = Keys(t) \ {o}
      BY <1>7 DEF Keys, Row, Minus
    <3>4. PutBeside(i, r.table, o, t.entries[o], TRUE)
      BY <1>3, <3>2, <3>3 DEF PutOver
    <3>5. With(r.table.entries, o, t.entries[o]) = t.entries
      BY <1>3, <1>7 DEF Row, Minus, With
    <3>6. Grown(r.table.capacity, Size(r.table) + 1) = t.capacity
      <4>1. r.table.capacity = t.capacity
        BY <1>7 DEF Row
      <4> QED BY <1>3, <2>1, <4>1, GrownFacts
    <3>7. i.table = t
      BY <1>3, <3>4, <3>5, <3>6 DEF PutBeside
    <3>8. out \in Outcomes(V) /\ out.table = t /\ out.raised /\ ~out.changed
      BY <3>1, <3>7 DEF Outcome, Outcomes
    <3> QED BY <3>8 DEF Took
  <2> QED BY <1>5, <2>2, <2>3
<1> QED BY <1>4, <1>6, <1>7 DEF Removed
------------------------------------------------------------------------------
(* Copies.                                                                 *)

LEMMA CopyOneType ==
  ASSUME NEW V, NEW tables \in SUBSET RoughTables(V), NEW k \in Objects, NEW v \in V
  PROVE  CopyOne(tables, k, v) \in SUBSET RoughTables(V)
<1> SUFFICES ASSUME NEW t \in tables, NEW i \in Insert(t, k, v, FALSE)
             PROVE  i.table \in RoughTables(V)
  BY DEF CopyOne
<1>1. PutBeside(i, t, k, v, FALSE) \/ \E o \in Keys(t) : PutOver(i, t, o, k, v)
  <2>1. FALSE \in Flag /\ t \in RoughTables(V)
    BY DEF Flag
  <2> QED BY <2>1, InsertFacts, Zenon
<1>2. /\ Keys(t) \in SUBSET Objects /\ IsFiniteSet(Keys(t)) /\ t.entries \in [Keys(t) -> V]
      /\ t.capacity \in Nat /\ Size(t) \in Nat
  BY RoughFacts
<1>3. CASE PutBeside(i, t, k, v, FALSE)
  <2> DEFINE K == Keys(t) \cup {k}
             c == Grown(t.capacity, Size(t) + 1)
  <2>1. K \in SUBSET Objects /\ IsFiniteSet(K) /\ With(t.entries, k, v) \in [K -> V]
    BY <1>2, FS_AddElement DEF With
  <2>2. c \in Nat
    <3>1. Size(t) + 1 \in Nat
      BY <1>2
    <3> QED BY <1>2, <3>1, GrownFacts
  <2>3. i.table = Row(With(t.entries, k, v), c)
    BY <1>3 DEF PutBeside
  <2> HIDE DEF K, c
  <2> QED BY <2>1, <2>2, <2>3, RoughOf
<1>4. ASSUME NEW o \in Keys(t), PutOver(i, t, o, k, v) PROVE i.table \in RoughTables(V)
  <2>1. With(t.entries, o, v) \in [Keys(t) -> V]
    BY <1>2 DEF With
  <2>2. i.table = Row(With(t.entries, o, v), t.capacity)
    BY <1>4 DEF PutOver
  <2> QED BY <1>2, <2>1, <2>2, RoughOf
<1> QED BY <1>1, <1>3, <1>4

(* A copy inserts one entry after the other. *)
Copies(h, n, order, t, e) ==
  /\ h[0] = {t}
  /\ \A i \in 1..n : h[i] = CopyOne(h[i - 1], order[i], e[order[i]])
  /\ h[n] = CopyInto(t, e)

LEMMA CopySteps ==
  ASSUME NEW n \in Nat, NEW V, NEW K \in SUBSET Objects, NEW e \in [K -> V], NEW order \in [1..n -> K],
         order = SetToSeq(DOMAIN e), NEW t \in RoughTables(V)
  PROVE  \E h \in [0..n -> SUBSET RoughTables(V)] : Copies(h, n, order, t, e)
<1> DEFINE b == {t}
           A == SUBSET RoughTables(V)
           step == [i \in 1..n |-> [a \in A |-> CopyOne(a, order[i], e[order[i]])]]
           Is(g) == g = [ps \in SUBSET DOMAIN order |->
                           IF ps = {} THEN b ELSE CopyOne(g[ps \ {Max(ps)}], order[Max(ps)], e[order[Max(ps)]])]
           g == CHOOSE f : Is(f)
           h == [i \in 0..n |-> g[1..i]]
<1>0. DOMAIN order = 1..n
  OBVIOUS
<1>1. ASSUME NEW a \in A, NEW i \in 1..n PROVE CopyOne(a, order[i], e[order[i]]) \in A
  <2>1. order[i] \in Objects /\ e[order[i]] \in V
    OBVIOUS
  <2> QED BY <2>1, CopyOneType
<1>2. b \in A /\ step \in [1..n -> [A -> A]]
  <2>1. b \in A
    OBVIOUS
  <2>2. step \in [1..n -> [A -> A]]
    <3> HIDE DEF A
    <3> QED BY <1>1
  <2> QED BY <2>1, <2>2
<1>3. Is(g)
  <2>1. PICK f \in [SUBSET (1..n) -> A] : IsIter(f, n, b, step)
    <3> HIDE DEF b, A, step
    <3> QED BY <1>2, IterExists, Zenon
  <2>2. ASSUME NEW ps \in SUBSET (1..n), ps # {}
        PROVE  step[Max(ps)][f[ps \ {Max(ps)}]] = CopyOne(f[ps \ {Max(ps)}], order[Max(ps)], e[order[Max(ps)]])
    <3>1. Max(ps) \in 1..n
      BY <2>2, MaxIn
    <3>2. f[ps \ {Max(ps)}] \in A
      OBVIOUS
    <3> HIDE DEF A
    <3> QED BY <3>1, <3>2
  <2>3. f = [ps \in SUBSET (1..n) |-> IF ps = {} THEN b ELSE CopyOne(f[ps \ {Max(ps)}], order[Max(ps)], e[order[Max(ps)]])]
    <3> HIDE DEF step, A, b
    <3> QED BY <2>1, <2>2 DEF IsIter
  <2>4. Is(f)
    BY <1>0, <2>3
  <2> QED BY <2>4, Zenon
<1>4. CopyInto(t, e) = g[DOMAIN order]
  BY Zenon DEF CopyInto, FoldLeft, MapThenFoldSet
<1>5. ASSUME NEW ps \in SUBSET (1..n)
      PROVE  g[ps] = IF ps = {} THEN b ELSE CopyOne(g[ps \ {Max(ps)}], order[Max(ps)], e[order[Max(ps)]])
  <2> HIDE DEF g
  <2> QED BY <1>0, <1>3
<1> HIDE DEF g, b
<1>6. h[0] = b
  <2>1. 1..0 = {} /\ 0 \in 0..n /\ {} \in SUBSET (1..n)
    OBVIOUS
  <2> QED BY <2>1, <1>5
<1>7. ASSUME NEW i \in 1..n PROVE h[i] = CopyOne(h[i - 1], order[i], e[order[i]])
  <2>1. h[i] = g[1..i] /\ h[i - 1] = g[1..(i - 1)]
    BY Initials
  <2>2. /\ 1..i \in SUBSET (1..n) /\ 1..i # {}
        /\ Max(1..i) = i /\ (1..i) \ {Max(1..i)} = 1..(i - 1)
    BY Initials, Zenon
  <2> HIDE DEF h
  <2>3. g[1..i] = CopyOne(g[(1..i) \ {Max(1..i)}], order[Max(1..i)], e[order[Max(1..i)]])
    BY <2>2, <1>5, Zenon
  <2> QED BY <2>1, <2>2, <2>3, Zenon
<1>8. h \in [0..n -> A] /\ h[n] = g[1..n]
  <2>1. DOMAIN h = 0..n /\ h = [i \in 0..n |-> h[i]] /\ n \in 0..n /\ h[n] = g[1..n]
    OBVIOUS
  <2>2. ASSUME NEW i \in 1..n, h[i - 1] \in A PROVE h[i] \in A
    <3> HIDE DEF h, A, step
    <3> QED BY <2>2, <1>1, <1>7
  <2> HIDE DEF A, h
  <2>3. \A i \in 0..n : h[i] \in A
    BY <1>2, <1>6, <2>2, StaysIn
  <2> QED BY <2>1, <2>3
<1> HIDE DEF h
<1> QED BY <1>0, <1>4, <1>6, <1>7, <1>8 DEF Copies, b

LEMMA SequenceOfSet ==
  ASSUME NEW S, IsFiniteSet(S)
  PROVE  /\ Cardinality(S) \in Nat /\ SetToSeq(S) \in [1..Cardinality(S) -> S]
         /\ \A i, j \in 1..Cardinality(S) : SetToSeq(S)[i] = SetToSeq(S)[j] => i = j
         /\ \A o \in S : \E i \in 1..Cardinality(S) : SetToSeq(S)[i] = o
<1> DEFINE n == Cardinality(S)
           q == SetToSeq(S)
<1>1. n \in Nat /\ ExistsBijection(1..n, S)
  BY FS_CardinalityType
<1>2. \E f \in [1..n -> S] : IsInjective(f)
  BY <1>1 DEF ExistsBijection, Bijection, Injection, IsInjective
<1>3. q \in [1..n -> S] /\ IsInjective(q)
  BY <1>2, Zenon DEF SetToSeq
<1>4. \A i, j \in 1..n : i # j => q[i] # q[j]
  BY <1>3 DEF IsInjective
<1>5. q \in SetToSeqs(S)
  BY <1>3, <1>4 DEF SetToSeqs
<1> HIDE DEF q
<1>6. \A o \in S : \E i \in 1..n : q[i] = o
  BY <1>5, OrderCovers
<1> QED BY <1>1, <1>3, <1>4, <1>6 DEF q

(* Copying pairwise distinct entries into an empty table copies them all,
   whatever their comparisons raise. *)
LEMMA CopyFacts ==
  ASSUME NEW V, NEW t \in Tables(V), Keys(t) = {}, NEW e \in Entries(V), NEW copy \in CopyInto(t, e)
  PROVE  copy \in Tables(V) /\ copy.entries = e
<1> DEFINE K == DOMAIN e
           n == Cardinality(K)
           order == SetToSeq(K)
<1>1. K \in SUBSET Objects /\ IsFiniteSet(K) /\ e \in [K -> V] /\ \A o, p \in K : Equal(o, p) => o = p
  BY DEF Entries
<1>2. /\ n \in Nat /\ order \in [1..n -> K] /\ order = SetToSeq(DOMAIN e)
      /\ \A i, j \in 1..n : order[i] = order[j] => i = j
      /\ \A o \in K : \E i \in 1..n : order[i] = o
  <2> HIDE DEF K
  <2>1. order = SetToSeq(DOMAIN e)
    BY DEF K
  <2> HIDE DEF order, n
  <2> QED BY <1>1, <2>1, SequenceOfSet DEF order, n
<1> HIDE DEF n, order
<1>3. PICK h \in [0..n -> SUBSET RoughTables(V)] : Copies(h, n, order, t, e)
  <2>1. t \in RoughTables(V)
    BY TablesAreRough
  <2> HIDE DEF K
  <2> QED BY <1>1, <1>2, <2>1, CopySteps, Zenon
<1> HIDE DEF K
<1> DEFINE Done(u, i) == /\ u \in Tables(V) /\ Keys(u) = {order[j] : j \in 1..i}
                         /\ \A x \in Keys(u) : u.entries[x] = e[x]
           S == {i \in 0..n : \A u \in h[i] : Done(u, i)}
<1>4. 0 \in S
  <2>1. h[0] = {t}
    BY <1>3 DEF Copies
  <2> QED BY <1>2, <2>1
<1>5. ASSUME NEW i \in 0..n, i < n, i \in S PROVE i + 1 \in S
  <2>1. i + 1 \in 1..n /\ (i + 1) - 1 = i /\ i + 1 \in 0..n
    BY <1>2, <1>5, NextPosition, Zenon
  <2> DEFINE o == order[i + 1]
  <2>2. h[i + 1] = CopyOne(h[i], o, e[o])
    BY <1>3, <2>1 DEF Copies
  <2>3. ASSUME NEW u \in h[i], NEW r \in Insert(u, o, e[o], FALSE) PROVE Done(r.table, i + 1)
    <3>1. Done(u, i)
      BY <1>5, <2>3
    <3>2. o \in K /\ o \in Objects /\ e[o] \in V
      BY <1>1, <1>2, <2>1
    <3>3. ASSUME NEW x \in Keys(u) PROVE ~Equal(o, x)
      <4>1. PICK j \in 1..i : x = order[j]
        BY <3>1
      <4>2. j \in 1..n /\ j # i + 1
        BY <1>2, <1>5
      <4>3. x \in K /\ x # o
        BY <1>2, <2>1, <4>1, <4>2
      <4> QED BY <1>1, <3>2, <4>3
    <3>4. PutBeside(r, u, o, e[o], FALSE) \/ \E x \in Keys(u) : PutOver(r, u, x, o, e[o])
      <4>1. FALSE \in Flag /\ u \in RoughTables(V)
        BY <3>1, TablesAreRough DEF Flag
      <4> QED BY <3>2, <4>1, InsertFacts, Zenon
    <3>5. r.table = Row(With(u.entries, o, e[o]), Grown(u.capacity, Size(u) + 1))
      BY <3>3, <3>4 DEF PutBeside, PutOver
    <3>6. r.table \in Tables(V)
      BY <3>1, <3>2, <3>3, <3>5, WithNewKey, Zenon
    <3>7. Keys(r.table) = Keys(u) \cup {o} /\ r.table.entries = With(u.entries, o, e[o])
      BY <3>5 DEF Keys, Row, With
    <3>8. {order[j] : j \in 1..(i + 1)} = {order[j] : j \in 1..i} \cup {o}
      <4>1. 1..(i + 1) = (1..i) \cup {i + 1}
        OBVIOUS
      <4> QED BY <4>1
    <3>9. ASSUME NEW x \in Keys(r.table) PROVE r.table.entries[x] = e[x]
      BY <3>1, <3>7 DEF With, Keys
    <3> HIDE DEF o
    <3> QED BY <3>1, <3>6, <3>7, <3>8, <3>9
  <2>4. ASSUME NEW w \in h[i + 1] PROVE Done(w, i + 1)
    <3> HIDE DEF Done, o, S
    <3>1. PICK u \in h[i] : \E r \in Insert(u, o, e[o], FALSE) : w = r.table
      BY <2>2 DEF CopyOne
    <3>2. PICK r \in Insert(u, o, e[o], FALSE) : w = r.table
      BY <3>1
    <3> QED BY <2>3, <3>2
  <2> HIDE DEF Done
  <2> QED BY <2>1, <2>4
<1> HIDE DEF S
<1>6. \A i \in 0..n : i < n /\ i \in S => i + 1 \in S
  BY <1>5
<1>7. \A i \in 0..n : i \in S
  BY <1>2, <1>4, <1>6, PositionInduction, Zenon
<1>8. Done(copy, n)
  <2>1. copy \in h[n]
    BY <1>3 DEF Copies
  <2>2. n \in S
    BY <1>2, <1>7
  <2> HIDE DEF Done
  <2> QED BY <2>1, <2>2 DEF S
<1>9. Keys(copy) = K
  BY <1>2, <1>8
<1>10. copy.entries = e
  <2>1. copy.entries \in [Keys(copy) -> V]
    BY <1>8, TableFacts
  <2> QED BY <1>1, <1>8, <1>9, <2>1
<1> QED BY <1>8, <1>10

------------------------------------------------------------------------------
(* The collections.                                                        *)

Stored == IF kind = "map" THEN Values ELSE {Unit}
Kinds == {"map", "set"}
Item == [key : Objects, value : Values \cup {Unit}]
Dicts == [Classes -> SUBSET (Values \cup {Unit})]
Ops == {"put", "default", "take", "toggle"}

------------------------------------------------------------------------------
(* Dictionaries.                                                           *)

LEMMA ClassesFact ==
  ASSUME NEW k \in Objects
  PROVE  ClassOf[k] \in Classes
BY PyAssumption DEF Classes, Range

LEMMA DictType ==
  ASSUME NEW t \in Tables(Stored)
  PROVE  Dict(t) \in Dicts
<1>1. t.entries \in [Keys(t) -> Stored]
  BY TableFacts
<1>2. \A o \in Keys(t) : t.entries[o] \in Values \cup {Unit}
  BY <1>1 DEF Stored
<1> QED BY <1>2 DEF Dict, Dicts

LEMMA DictSame ==
  ASSUME NEW t, NEW u, u.entries = t.entries
  PROVE  Dict(u) = Dict(t) /\ Keys(u) = Keys(t)
BY DEF Dict, Keys

LEMMA DictWith ==
  ASSUME NEW V, NEW t \in Tables(V), NEW o \in Objects, \A p \in Keys(t) : Equal(o, p) => p = o,
         NEW v, NEW u, u.entries = With(t.entries, o, v)
  PROVE  /\ Dict(u) = [Dict(t) EXCEPT ![ClassOf[o]] = {v}]
         /\ Keys(u) = Keys(t) \cup {o}
<1>1. Keys(u) = Keys(t) \cup {o} /\ \A p \in Keys(u) : u.entries[p] = IF p = o THEN v ELSE t.entries[p]
  BY DEF Keys, With
<1>2. \A p \in Keys(t) : ClassOf[p] = ClassOf[o] => p = o
  BY DEF Equal
<1> DEFINE D(w, c) == {w.entries[x] : x \in {x \in Keys(w) : ClassOf[x] = c}}
<1>3. ASSUME NEW c \in Classes PROVE D(u, c) = IF c = ClassOf[o] THEN {v} ELSE D(t, c)
  <2>1. CASE c = ClassOf[o]
    <3>1. {x \in Keys(u) : ClassOf[x] = c} = {o}
      BY <1>1, <1>2, <2>1
    <3>2. u.entries[o] = v
      BY <1>1
    <3> QED BY <2>1, <3>1, <3>2
  <2>2. CASE c # ClassOf[o]
    <3>1. {x \in Keys(u) : ClassOf[x] = c} = {x \in Keys(t) : ClassOf[x] = c}
      BY <1>1, <2>2
    <3>2. \A x \in {x \in Keys(t) : ClassOf[x] = c} : u.entries[x] = t.entries[x]
      BY <1>1, <2>2
    <3> QED BY <2>2, <3>1, <3>2
  <2> QED BY <2>1, <2>2
<1> HIDE DEF D
<1>4. Dict(u) = [c \in Classes |-> D(u, c)] /\ Dict(t) = [c \in Classes |-> D(t, c)]
  BY DEF Dict, D
<1>5. Dict(u) = [Dict(t) EXCEPT ![ClassOf[o]] = {v}]
  BY <1>3, <1>4
<1> QED BY <1>1, <1>5

WithAt(d, o, v) == [d EXCEPT ![ClassOf[o]] = {v}]

LEMMA DictWithNew ==
  ASSUME NEW V, NEW t \in Tables(V), NEW o \in Objects, \A p \in Keys(t) : ~Equal(o, p),
         NEW v, NEW u, u.entries = With(t.entries, o, v)
  PROVE  Dict(u) = WithAt(Dict(t), o, v)
BY DictWith DEF WithAt

LEMMA DictMinus ==
  ASSUME NEW V, NEW t \in Tables(V), NEW o \in Keys(t), NEW u, u.entries = Minus(t.entries, o)
  PROVE  /\ Dict(u) = [Dict(t) EXCEPT ![ClassOf[o]] = {}]
         /\ Keys(u) = Keys(t) \ {o}
<1>1. Keys(u) = Keys(t) \ {o} /\ \A p \in Keys(u) : u.entries[p] = t.entries[p]
  BY DEF Keys, Minus
<1>2. \A p \in Keys(t) : ClassOf[p] = ClassOf[o] => p = o
  BY TableFacts DEF Equal
<1> DEFINE D(w, c) == {w.entries[x] : x \in {x \in Keys(w) : ClassOf[x] = c}}
<1>3. ASSUME NEW c \in Classes PROVE D(u, c) = IF c = ClassOf[o] THEN {} ELSE D(t, c)
  <2>1. CASE c = ClassOf[o]
    <3>1. {x \in Keys(u) : ClassOf[x] = c} = {}
      BY <1>1, <1>2, <2>1
    <3> QED BY <2>1, <3>1
  <2>2. CASE c # ClassOf[o]
    <3>1. {x \in Keys(u) : ClassOf[x] = c} = {x \in Keys(t) : ClassOf[x] = c}
      BY <1>1, <2>2
    <3>2. \A x \in {x \in Keys(t) : ClassOf[x] = c} : u.entries[x] = t.entries[x]
      BY <1>1, <2>2
    <3> QED BY <2>2, <3>1, <3>2
  <2> QED BY <2>1, <2>2
<1> HIDE DEF D
<1>4. Dict(u) = [c \in Classes |-> D(u, c)] /\ Dict(t) = [c \in Classes |-> D(t, c)]
  BY DEF Dict, D
<1>5. Dict(u) = [Dict(t) EXCEPT ![ClassOf[o]] = {}]
  BY <1>3, <1>4
<1> QED BY <1>1, <1>5

LEMMA DictAt ==
  ASSUME NEW t, NEW k \in Objects
  PROVE  Dict(t)[ClassOf[k]] = {} <=> \A o \in Keys(t) : ~Equal(k, o)
<1>1. Dict(t)[ClassOf[k]] = {t.entries[o] : o \in {o \in Keys(t) : ClassOf[o] = ClassOf[k]}}
  BY ClassesFact DEF Dict
<1> QED BY <1>1 DEF Equal

(* What an item does to a dictionary. *)
LEMMA AppliedFacts ==
  ASSUME NEW d \in Dicts, NEW item
  PROVE  LET c == ClassOf[item.key]
             v == IF kind = "map" THEN item.value ELSE Unit
         IN  /\ Applied("put", d, item) = [d EXCEPT ![c] = {v}]
             /\ Applied("default", d, item) = [d EXCEPT ![c] = IF d[c] = {} THEN {v} ELSE d[c]]
             /\ Applied("take", d, item) = [d EXCEPT ![c] = {}]
             /\ Applied("toggle", d, item) = [d EXCEPT ![c] = IF d[c] = {} THEN {v} ELSE {}]
BY DEF Applied

LEMMA AppliedType ==
  ASSUME kind \in Kinds, NEW op \in Ops, NEW d \in Dicts, NEW item \in Item
  PROVE  Applied(op, d, item) \in Dicts
<1> DEFINE c == ClassOf[item.key]
           v == IF kind = "map" THEN item.value ELSE Unit
<1>1. c \in Classes /\ v \in Values \cup {Unit}
  BY ClassesFact DEF Item
<1>2. d[c] \in SUBSET (Values \cup {Unit})
  BY <1>1 DEF Dicts
<1>3. \A x \in SUBSET (Values \cup {Unit}) : [d EXCEPT ![c] = x] \in Dicts
  BY DEF Dicts
<1>4. {v} \in SUBSET (Values \cup {Unit}) /\ {} \in SUBSET (Values \cup {Unit})
  BY <1>1
<1>5. /\ Applied("put", d, item) = [d EXCEPT ![c] = {v}]
      /\ Applied("default", d, item) = [d EXCEPT ![c] = IF d[c] = {} THEN {v} ELSE d[c]]
      /\ Applied("take", d, item) = [d EXCEPT ![c] = {}]
      /\ Applied("toggle", d, item) = [d EXCEPT ![c] = IF d[c] = {} THEN {v} ELSE {}]
  BY AppliedFacts
<1> HIDE DEF v, c
<1> QED BY <1>2, <1>3, <1>4, <1>5 DEF Ops

(* The dictionary after so many of the items, one after the other. *)
Progresses(h, n, op, dict, items) ==
  /\ h[0] = dict
  /\ \A i \in 1..n : h[i] = Applied(op, h[i - 1], items[i])

LEMMA ProgressSteps ==
  ASSUME kind \in Kinds, NEW op \in Ops, NEW dict \in Dicts, NEW items \in Seq(Item)
  PROVE  LET h == Progress(op, dict, items)
         IN  h \in [0..Len(items) -> Dicts] /\ Progresses(h, Len(items), op, dict, items)
<1> DEFINE n == Len(items)
           step == [i \in 1..n |-> [d \in Dicts |-> Applied(op, d, items[i])]]
           Is(f) == f = [i \in 0..Len(items) |-> IF i = 0 THEN dict ELSE Applied(op, f[i - 1], items[i])]
           h == CHOOSE f : Is(f)
<1>1. n \in Nat /\ \A i \in 1..n : items[i] \in Item
  OBVIOUS
<1>2. step \in [1..n -> [Dicts -> Dicts]]
  BY <1>1, AppliedType
<1> HIDE DEF n
<1>3. PICK f \in [0..n -> Dicts] : TakesSteps(f, n, dict, step)
  <2> HIDE DEF step
  <2> QED BY <1>1, <1>2, StepsExist, Zenon
<1>4. ASSUME NEW i \in 0..n PROVE f[i] = IF i = 0 THEN dict ELSE Applied(op, f[i - 1], items[i])
  <2>1. CASE i = 0
    BY <1>3, <2>1 DEF TakesSteps
  <2>2. CASE i # 0
    <3>1. i \in 1..n /\ i - 1 \in 0..n
      BY <1>1, <2>2
    <3>2. f[i] = step[i][f[i - 1]]
      BY <1>3, <3>1 DEF TakesSteps
    <3>3. step[i][f[i - 1]] = Applied(op, f[i - 1], items[i])
      BY <3>1
    <3> QED BY <2>2, <3>2, <3>3
  <2> QED BY <2>1, <2>2
<1>5. Is(f)
  BY <1>4 DEF n
<1>6. Is(h)
  BY <1>5, Zenon
<1>7. Progress(op, dict, items) = h
  BY Zenon DEF Progress
<1> HIDE DEF h
<1>8. DOMAIN h = 0..n /\ \A i \in 0..n : h[i] = IF i = 0 THEN dict ELSE Applied(op, h[i - 1], items[i])
  BY <1>6 DEF n
<1>9. h[0] = dict /\ \A i \in 1..n : h[i] = Applied(op, h[i - 1], items[i])
  <2>1. 0 \in 0..n /\ \A i \in 1..n : i \in 0..n /\ i # 0
    BY <1>1
  <2> QED BY <1>8, <2>1
<1>10. \A i \in 0..n : h[i] \in Dicts
  <2>1. ASSUME NEW i \in 1..n, h[i - 1] \in Dicts PROVE h[i] \in Dicts
    BY <1>1, <1>9, <2>1, AppliedType
  <2> QED BY <1>1, <1>9, <2>1, StaysIn
<1>11. h \in [0..n -> Dicts]
  <2>1. h = [i \in 0..n |-> h[i]]
    BY <1>6 DEF n
  <2> QED BY <2>1, <1>10
<1> QED BY <1>7, <1>9, <1>11 DEF Progresses, n

------------------------------------------------------------------------------
(* One item.                                                               *)

ItemsOf == [key : Objects, value : Values]

(* What was done with one item: all of it, or nothing if it raised. *)
Does(op, s, t, item) ==
  /\ s \in Outcomes(Stored)
  /\ Dict(s.table) = IF s.raised THEN Dict(t) ELSE Applied(op, Dict(t), item)
  /\ s.raised \/ ~s.changed => Keys(s.table) = Keys(t)
  /\ op = "put" => Keys(t) \subseteq Keys(s.table)

LEMMA PutDoes ==
  ASSUME kind \in Kinds, NEW t \in Tables(Stored), NEW item, item.key \in Objects,
         NEW s \in Outcomes(Stored),
         Put(s, t, item.key, IF kind = "map" THEN item.value ELSE Unit)
  PROVE  Does("put", s, t, item)
<1> DEFINE k == item.key
           v == IF kind = "map" THEN item.value ELSE Unit
           d == Dict(t)
<1>1. d \in Dicts
  BY DictType
<1>2. Applied("put", d, item) = [d EXCEPT ![ClassOf[k]] = {v}]
  BY <1>1, AppliedFacts
<1>3. Keys(t) \in SUBSET Objects /\ \A o, p \in Keys(t) : Equal(o, p) => o = p
  BY TableFacts
<1>4. s.raised \in BOOLEAN /\ s.changed \in BOOLEAN
  BY DEF Outcomes
<1> HIDE DEF d, v
<1>5. CASE s.raised /\ ~s.changed /\ s.table.entries = t.entries
  BY <1>5, DictSame DEF Does, d
<1>6. ASSUME ~s.raised, NEW o \in Keys(t), Equal(k, o), s.table.entries = With(t.entries, o, v)
      PROVE  Does("put", s, t, item)
  <2>1. Dict(s.table) = [Dict(t) EXCEPT ![ClassOf[o]] = {v}] /\ Keys(s.table) = Keys(t) \cup {o}
    BY <1>3, <1>6, DictWith
  <2>2. ClassOf[o] = ClassOf[k]
    BY <1>6 DEF Equal
  <2> QED BY <1>2, <1>6, <2>1, <2>2 DEF Does, d
<1>7. CASE /\ ~s.raised /\ s.changed /\ \A o \in Keys(t) : ~Equal(k, o)
           /\ s.table.entries = With(t.entries, k, v)
  <2>1. Dict(s.table) = [Dict(t) EXCEPT ![ClassOf[k]] = {v}] /\ Keys(s.table) = Keys(t) \cup {k}
    BY <1>7, DictWith
  <2> QED BY <1>2, <1>7, <2>1 DEF Does, d
<1>8. Put(s, t, k, v)
  BY DEF v
<1> QED BY <1>5, <1>6, <1>7, <1>8 DEF Put

LEMMA TakeDoes ==
  ASSUME kind \in Kinds, NEW t \in Tables(Stored), NEW item, item.key \in Objects,
         NEW s \in Outcomes(Stored), Took(s, t, item.key)
  PROVE  Does("take", s, t, item)
<1> DEFINE k == item.key
           d == Dict(t)
<1>1. d \in Dicts
  BY DictType
<1>2. Applied("take", d, item) = [d EXCEPT ![ClassOf[k]] = {}]
  BY <1>1, AppliedFacts
<1>3. s.raised \in BOOLEAN /\ s.changed \in BOOLEAN
  BY DEF Outcomes
<1>4. CASE s.raised /\ ~s.changed /\ s.table.entries = t.entries
  BY <1>4, DictSame DEF Does
<1>5. CASE /\ ~s.raised /\ ~s.changed /\ s.table.entries = t.entries
           /\ \A o \in Keys(t) : ~Equal(k, o)
  <2>1. d[ClassOf[k]] = {}
    BY <1>5, DictAt
  <2>2. [d EXCEPT ![ClassOf[k]] = {}] = d
    <3> HIDE DEF d
    <3> QED BY <1>1, <2>1 DEF Dicts
  <2>3. Dict(s.table) = d /\ Keys(s.table) = Keys(t)
    BY <1>5, DictSame
  <2> QED BY <1>2, <1>5, <2>2, <2>3 DEF Does
<1>6. ASSUME ~s.raised, s.changed, NEW o \in Keys(t), Equal(k, o), s.table.entries = Minus(t.entries, o)
      PROVE  Does("take", s, t, item)
  <2>1. Dict(s.table) = [Dict(t) EXCEPT ![ClassOf[o]] = {}]
    BY <1>6, DictMinus
  <2>2. ClassOf[o] = ClassOf[k]
    BY <1>6 DEF Equal
  <2> QED BY <1>2, <1>6, <2>1, <2>2 DEF Does
<1> QED BY <1>4, <1>5, <1>6 DEF Took

LEMMA ToggleDoes ==
  ASSUME kind = "set", NEW t \in Tables(Stored), NEW item, item.key \in Objects,
         NEW s \in ToggleItem(t, item)
  PROVE  Does("toggle", s, t, item)
<1> DEFINE k == item.key
           d == Dict(t)
<1>1. PICK out \in TakeOut(t, k) :
        s \in IF out.raised \/ out.changed THEN {out}
              ELSE {[r EXCEPT !.changed = TRUE] : r \in SetInsert(out.table, k, Unit)}
  BY DEF ToggleItem
<1>2. out \in Outcomes(Stored) /\ Took(out, t, k)
  BY TakeOutFacts
<1>3. out.raised \in BOOLEAN /\ out.changed \in BOOLEAN /\ out.table \in Tables(Stored)
  BY <1>2 DEF Outcomes
<1>4. d \in Dicts
  BY DictType
<1>5. Applied("toggle", d, item) = [d EXCEPT ![ClassOf[k]] = IF d[ClassOf[k]] = {} THEN {Unit} ELSE {}]
  BY <1>4, AppliedFacts
<1>6. CASE out.raised /\ ~out.changed /\ out.table.entries = t.entries
  <2>1. s = out
    BY <1>1, <1>6
  <2> QED BY <1>2, <1>6, <2>1, DictSame DEF Does
<1>7. ASSUME ~out.raised, out.changed, NEW o \in Keys(t), Equal(k, o), out.table.entries = Minus(t.entries, o)
      PROVE  Does("toggle", s, t, item)
  <2>1. s = out
    BY <1>1, <1>7
  <2>2. Dict(out.table) = [d EXCEPT ![ClassOf[o]] = {}]
    BY <1>7, DictMinus
  <2>3. ClassOf[o] = ClassOf[k] /\ d[ClassOf[k]] # {}
    BY <1>7, DictAt DEF Equal
  <2> HIDE DEF d
  <2>4. Dict(out.table) = Applied("toggle", d, item)
    BY <1>5, <2>2, <2>3
  <2> QED BY <1>2, <1>7, <2>1, <2>4 DEF Does, d
<1>8. CASE /\ ~out.raised /\ ~out.changed /\ out.table.entries = t.entries
           /\ \A o \in Keys(t) : ~Equal(k, o)
  <2>1. PICK r \in SetInsert(out.table, k, Unit) : s = [r EXCEPT !.changed = TRUE]
    BY <1>1, <1>8
  <2>2. Stored = {Unit}
    BY DEF Stored
  <2>3. r \in Outcomes(Stored) /\ Put(r, out.table, k, Unit)
    BY <1>3, <2>2, SetInsertFacts
  <2>4. s \in Outcomes(Stored) /\ s.table = r.table /\ s.raised = r.raised /\ s.changed = TRUE
    BY <2>1, <2>3 DEF Outcomes
  <2>5. Dict(out.table) = d /\ Keys(out.table) = Keys(t)
    BY <1>8, DictSame
  <2>6. r.raised \in BOOLEAN
    BY <2>3 DEF Outcomes
  <2>7. d[ClassOf[k]] = {}
    BY <1>8, DictAt
  <2>8. CASE r.raised /\ r.table.entries = out.table.entries
    <3>1. Dict(r.table) = d /\ Keys(r.table) = Keys(t)
      BY <2>5, <2>8, DictSame
    <3> QED BY <2>4, <2>8, <3>1 DEF Does
  <2>9. CASE ~r.raised /\ r.table.entries = With(out.table.entries, k, Unit)
    <3>1. Dict(r.table) = [Dict(out.table) EXCEPT ![ClassOf[k]] = {Unit}]
      <4>1. \A p \in Keys(out.table) : ~Equal(k, p)
        BY <1>8, <2>5
      <4>2. Dict(r.table) = WithAt(Dict(out.table), k, Unit)
        BY <1>3, <2>9, <4>1, DictWithNew
      <4> QED BY <4>2 DEF WithAt
    <3> HIDE DEF d
    <3>2. Dict(r.table) = Applied("toggle", d, item)
      BY <1>5, <2>5, <2>7, <3>1
    <3> QED BY <2>4, <2>9, <3>2 DEF Does, d
  <2> QED BY <1>8, <2>3, <2>5, <2>6, <2>8, <2>9 DEF Put
<1> QED BY <1>2, <1>6, <1>7, <1>8 DEF Took

LEMMA ItemDoes ==
  ASSUME kind \in Kinds, NEW op \in {"put", "take", "toggle"}, op = "toggle" => kind = "set",
         NEW t \in Tables(Stored), NEW item \in ItemsOf, NEW s \in ItemDone(op, t, item)
  PROVE  Does(op, s, t, item)
<1>1. item.key \in Objects /\ item.value \in Values
  BY DEF ItemsOf
<1>2. CASE op = "put"
  <2>1. s \in PutItem(t, item)
    BY <1>2 DEF ItemDone
  <2>2. CASE kind = "map"
    <3>1. s \in MapInsert(t, item.key, item.value) /\ item.value \in Stored
      BY <1>1, <2>1, <2>2 DEF PutItem, Stored
    <3>2. s \in Outcomes(Stored) /\ Put(s, t, item.key, item.value)
      BY <1>1, <3>1, MapInsertFacts
    <3> QED BY <1>1, <1>2, <2>2, <3>2, PutDoes
  <2>3. CASE kind # "map"
    <3>1. s \in SetInsert(t, item.key, Unit) /\ Stored = {Unit}
      BY <2>1, <2>3 DEF PutItem, Stored
    <3>2. s \in Outcomes(Stored) /\ Put(s, t, item.key, Unit)
      BY <1>1, <3>1, SetInsertFacts
    <3> QED BY <1>1, <1>2, <2>3, <3>2, PutDoes
  <2> QED BY <2>2, <2>3
<1>3. CASE op = "take"
  <2>1. s \in TakeOut(t, item.key)
    BY <1>3 DEF ItemDone
  <2>2. s \in Outcomes(Stored) /\ Took(s, t, item.key)
    BY <1>1, <2>1, TakeOutFacts
  <2> QED BY <1>1, <1>3, <2>2, TakeDoes
<1>4. CASE op = "toggle"
  <2>1. s \in ToggleItem(t, item)
    BY <1>4 DEF ItemDone
  <2> QED BY <1>1, <1>4, <2>1, ToggleDoes
<1> QED BY <1>2, <1>3, <1>4

------------------------------------------------------------------------------
(* Item after item.                                                        *)

LEMMA EachOneType ==
  ASSUME kind \in Kinds, NEW op \in {"put", "take", "toggle"}, op = "toggle" => kind = "set",
         NEW outs \in SUBSET Outcomes(Stored), NEW item \in ItemsOf
  PROVE  EachOne(op, outs, item) \in SUBSET Outcomes(Stored)
<1> SUFFICES ASSUME NEW out \in outs,
                    NEW s \in IF out.raised THEN {out}
                              ELSE {[r EXCEPT !.changed = @ \/ out.changed] : r \in ItemDone(op, out.table, item)}
             PROVE  s \in Outcomes(Stored)
  BY DEF EachOne
<1>1. out.table \in Tables(Stored)
  BY DEF Outcomes
<1>2. CASE out.raised
  BY <1>2
<1>3. CASE ~out.raised
  <2>1. PICK r \in ItemDone(op, out.table, item) : s = [r EXCEPT !.changed = @ \/ out.changed]
    BY <1>3
  <2>2. r \in Outcomes(Stored)
    BY <1>1, ItemDoes DEF Does
  <2> QED BY <2>1, <2>2 DEF Outcomes
<1> QED BY <1>2, <1>3

EachOf(h, n, op, start, items) ==
  /\ h[0] = {Outcome(start, FALSE, FALSE)}
  /\ \A i \in 1..n : h[i] = EachOne(op, h[i - 1], items[i])
  /\ h[n] = Each(op, start, items)

LEMMA EachSteps ==
  ASSUME NEW n \in Nat, kind \in Kinds, NEW op \in {"put", "take", "toggle"}, op = "toggle" => kind = "set",
         NEW items \in [1..n -> ItemsOf], NEW start \in Tables(Stored)
  PROVE  \E h \in [0..n -> SUBSET Outcomes(Stored)] : EachOf(h, n, op, start, items)
<1> DEFINE b == {Outcome(start, FALSE, FALSE)}
           A == SUBSET Outcomes(Stored)
           step == [i \in 1..n |-> [a \in A |-> EachOne(op, a, items[i])]]
           Is(g) == g = [ps \in SUBSET DOMAIN items |->
                           IF ps = {} THEN b ELSE EachOne(op, g[ps \ {Max(ps)}], items[Max(ps)])]
           g == CHOOSE f : Is(f)
           h == [i \in 0..n |-> g[1..i]]
<1>0. DOMAIN items = 1..n
  OBVIOUS
<1>1. ASSUME NEW a \in A, NEW i \in 1..n PROVE EachOne(op, a, items[i]) \in A
  BY EachOneType
<1>2. b \in A /\ step \in [1..n -> [A -> A]]
  <2>1. b \in A
    BY DEF Outcome, Outcomes
  <2>2. step \in [1..n -> [A -> A]]
    <3> HIDE DEF A
    <3> QED BY <1>1
  <2> QED BY <2>1, <2>2
<1>3. Is(g)
  <2>1. PICK f \in [SUBSET (1..n) -> A] : IsIter(f, n, b, step)
    <3> HIDE DEF b, A, step
    <3> QED BY <1>2, IterExists, Zenon
  <2>2. ASSUME NEW ps \in SUBSET (1..n), ps # {}
        PROVE  step[Max(ps)][f[ps \ {Max(ps)}]] = EachOne(op, f[ps \ {Max(ps)}], items[Max(ps)])
    <3>1. Max(ps) \in 1..n
      BY <2>2, MaxIn
    <3>2. f[ps \ {Max(ps)}] \in A
      OBVIOUS
    <3> HIDE DEF A
    <3> QED BY <3>1, <3>2
  <2>3. f = [ps \in SUBSET (1..n) |-> IF ps = {} THEN b ELSE EachOne(op, f[ps \ {Max(ps)}], items[Max(ps)])]
    <3> HIDE DEF step, A, b
    <3> QED BY <2>1, <2>2 DEF IsIter
  <2>4. Is(f)
    BY <1>0, <2>3
  <2> QED BY <2>4, Zenon
<1>4. Each(op, start, items) = g[DOMAIN items]
  BY Zenon DEF Each, FoldLeft, MapThenFoldSet
<1>5. ASSUME NEW ps \in SUBSET (1..n)
      PROVE  g[ps] = IF ps = {} THEN b ELSE EachOne(op, g[ps \ {Max(ps)}], items[Max(ps)])
  <2> HIDE DEF g
  <2> QED BY <1>0, <1>3
<1> HIDE DEF g, b
<1>6. h[0] = b
  <2>1. 1..0 = {} /\ 0 \in 0..n /\ {} \in SUBSET (1..n)
    OBVIOUS
  <2> QED BY <2>1, <1>5
<1>7. ASSUME NEW i \in 1..n PROVE h[i] = EachOne(op, h[i - 1], items[i])
  <2>1. h[i] = g[1..i] /\ h[i - 1] = g[1..(i - 1)]
    BY Initials
  <2>2. /\ 1..i \in SUBSET (1..n) /\ 1..i # {}
        /\ Max(1..i) = i /\ (1..i) \ {Max(1..i)} = 1..(i - 1)
    BY Initials, Zenon
  <2> HIDE DEF h
  <2>3. g[1..i] = EachOne(op, g[(1..i) \ {Max(1..i)}], items[Max(1..i)])
    BY <2>2, <1>5, Zenon
  <2> QED BY <2>1, <2>2, <2>3, Zenon
<1>8. h \in [0..n -> A] /\ h[n] = g[1..n]
  <2>1. DOMAIN h = 0..n /\ h = [i \in 0..n |-> h[i]] /\ n \in 0..n /\ h[n] = g[1..n]
    OBVIOUS
  <2>2. ASSUME NEW i \in 1..n, h[i - 1] \in A PROVE h[i] \in A
    <3> HIDE DEF h, A, step
    <3> QED BY <2>2, <1>1, <1>7
  <2> HIDE DEF A, h
  <2>3. \A i \in 0..n : h[i] \in A
    BY <1>2, <1>6, <2>2, StaysIn
  <2> QED BY <2>1, <2>3
<1> HIDE DEF h
<1> QED BY <1>0, <1>4, <1>6, <1>7, <1>8 DEF EachOf, b

(* Where the items have led: all of them are in, or one of them raised and
   those before it are in. *)
Reached(out, op, start, P, i) ==
  /\ out \in Outcomes(Stored)
  /\ \E m \in 0..i : Dict(out.table) = P[m] /\ (out.raised <=> m < i)
  /\ op = "put" => Keys(start) \subseteq Keys(out.table)

LEMMA ReachedNext ==
  ASSUME kind \in Kinds, NEW op \in {"put", "take", "toggle"}, op = "toggle" => kind = "set",
         NEW start, NEW P, NEW i \in Nat, NEW item \in ItemsOf,
         P[i + 1] = Applied(op, P[i], item),
         NEW outs, \A out \in outs : Reached(out, op, start, P, i),
         NEW s \in EachOne(op, outs, item)
  PROVE  Reached(s, op, start, P, i + 1)
<1>1. PICK out \in outs :
        s \in IF out.raised THEN {out}
              ELSE {[r EXCEPT !.changed = @ \/ out.changed] : r \in ItemDone(op, out.table, item)}
  BY DEF EachOne
<1>2. PICK m \in 0..i : Dict(out.table) = P[m] /\ (out.raised <=> m < i)
  BY DEF Reached
<1>3. out \in Outcomes(Stored) /\ (op = "put" => Keys(start) \subseteq Keys(out.table))
  BY DEF Reached
<1>4. CASE out.raised
  <2>1. s = out /\ m \in 0..(i + 1) /\ m < i + 1
    BY <1>1, <1>2, <1>4
  <2> QED BY <1>2, <1>3, <1>4, <2>1 DEF Reached
<1>5. CASE ~out.raised
  <2>1. PICK r \in ItemDone(op, out.table, item) : s = [r EXCEPT !.changed = @ \/ out.changed]
    BY <1>1, <1>5
  <2>2. out.table \in Tables(Stored) /\ out.changed \in BOOLEAN
    BY <1>3 DEF Outcomes
  <2>3. Does(op, r, out.table, item)
    BY <2>2, ItemDoes
  <2>4. /\ r \in Outcomes(Stored)
        /\ Dict(r.table) = IF r.raised THEN Dict(out.table) ELSE Applied(op, Dict(out.table), item)
        /\ op = "put" => Keys(out.table) \subseteq Keys(r.table)
    BY <2>3 DEF Does
  <2>5. s \in Outcomes(Stored) /\ s.table = r.table /\ s.raised = r.raised /\ r.raised \in BOOLEAN
    BY <2>1, <2>2, <2>4 DEF Outcomes
  <2>6. m = i
    BY <1>2, <1>5
  <2>7. op = "put" => Keys(start) \subseteq Keys(s.table)
    BY <1>3, <2>4, <2>5
  <2>8. CASE r.raised
    <3>1. Dict(s.table) = P[i] /\ s.raised /\ i \in 0..(i + 1) /\ i < i + 1
      BY <1>2, <2>4, <2>5, <2>6, <2>8
    <3> QED BY <2>5, <2>7, <3>1 DEF Reached
  <2>9. CASE ~r.raised
    <3>1. Dict(s.table) = P[i + 1] /\ ~s.raised /\ i + 1 \in 0..(i + 1) /\ ~(i + 1 < i + 1)
      BY <1>2, <2>4, <2>5, <2>6, <2>9
    <3> QED BY <2>5, <2>7, <3>1 DEF Reached
  <2> QED BY <2>8, <2>9
<1> QED BY <1>4, <1>5

LEMMA EachFacts ==
  ASSUME kind \in Kinds, NEW op \in {"put", "take", "toggle"}, op = "toggle" => kind = "set",
         NEW items \in Seq(ItemsOf), NEW start \in Tables(Stored),
         NEW out \in Each(op, start, items)
  PROVE  Reached(out, op, start, Progress(op, Dict(start), items), Len(items))
<1> DEFINE n == Len(items)
           P == Progress(op, Dict(start), items)
<1>1. n \in Nat /\ items \in [1..n -> ItemsOf]
  OBVIOUS
<1>2. Progresses(P, n, op, Dict(start), items)
  <2>1. op \in Ops /\ Dict(start) \in Dicts
    BY DictType DEF Ops
  <2>2. items \in Seq(Item)
    <3>1. ItemsOf \subseteq Item
      BY DEF ItemsOf, Item
    <3> QED BY <3>1
  <2> QED BY <2>1, <2>2, ProgressSteps
<1> HIDE DEF n, P
<1>3. PICK h \in [0..n -> SUBSET Outcomes(Stored)] : EachOf(h, n, op, start, items)
  BY <1>1, EachSteps, Zenon
<1> DEFINE S == {i \in 0..n : \A r \in h[i] : Reached(r, op, start, P, i)}
<1>4. 0 \in S
  <2>1. h[0] = {Outcome(start, FALSE, FALSE)} /\ 0 \in 0..n
    BY <1>1, <1>3 DEF EachOf
  <2>2. /\ Outcome(start, FALSE, FALSE) \in Outcomes(Stored)
        /\ Outcome(start, FALSE, FALSE).table = start /\ ~Outcome(start, FALSE, FALSE).raised
    BY DEF Outcome, Outcomes
  <2>3. Dict(start) = P[0] /\ 0 \in 0..0 /\ ~(0 < 0)
    BY <1>2 DEF Progresses
  <2>4. Reached(Outcome(start, FALSE, FALSE), op, start, P, 0)
    BY <2>2, <2>3 DEF Reached
  <2> QED BY <2>1, <2>4
<1>5. ASSUME NEW i \in 0..n, i < n, i \in S PROVE i + 1 \in S
  <2>1. i + 1 \in 1..n /\ (i + 1) - 1 = i /\ i + 1 \in 0..n /\ i \in Nat
    BY <1>1, <1>5
  <2>2. h[i + 1] = EachOne(op, h[i], items[i + 1]) /\ items[i + 1] \in ItemsOf
    BY <1>1, <1>3, <2>1 DEF EachOf
  <2>3. P[i + 1] = Applied(op, P[i], items[i + 1])
    BY <1>2, <2>1 DEF Progresses
  <2>4. \A r \in h[i] : Reached(r, op, start, P, i)
    BY <1>5
  <2>5. ASSUME NEW r \in h[i + 1] PROVE Reached(r, op, start, P, i + 1)
    BY <2>1, <2>2, <2>3, <2>4, ReachedNext
  <2> QED BY <2>1, <2>5
<1> HIDE DEF S
<1>6. \A i \in 0..n : i < n /\ i \in S => i + 1 \in S
  BY <1>5
<1>7. \A i \in 0..n : i \in S
  BY <1>1, <1>4, <1>6, PositionInduction, Zenon
<1>8. n \in S /\ out \in h[n]
  BY <1>1, <1>3, <1>7 DEF EachOf
<1> QED BY <1>8 DEF S, P, n

------------------------------------------------------------------------------
(* The entries of an operand whose keys are distinct.                      *)

Mappings == UNION {[K -> Stored] : K \in SUBSET Objects}
ValueOf(item) == IF kind = "map" THEN item.value ELSE Unit

LEMMA WithType ==
  ASSUME NEW e \in Mappings, NEW k \in Objects, NEW v \in Stored
  PROVE  With(e, k, v) \in Mappings
<1>1. PICK K \in SUBSET Objects : e \in [K -> Stored]
  BY DEF Mappings
<1>2. K \cup {k} \in SUBSET Objects
  BY <1>1
<1>3. With(e, k, v) \in [K \cup {k} -> Stored]
  <2>1. DOMAIN e = K /\ \A o \in K : e[o] \in Stored
    BY <1>1
  <2> QED BY <2>1 DEF With
<1> QED BY <1>2, <1>3 DEF Mappings

LEMMA ValueOfType ==
  ASSUME NEW item \in ItemsOf
  PROVE  item.key \in Objects /\ ValueOf(item) \in Stored
BY DEF ItemsOf, ValueOf, Stored

LEMMA EmptyEntries ==
  /\ <<>> \in Entries(Stored) /\ DOMAIN <<>> = {}
  /\ <<>> \in Mappings
<1>1. DOMAIN <<>> = {} /\ <<>> = [x \in {} |-> x]
  OBVIOUS
<1>2. <<>> \in [{} -> Stored]
  BY <1>1
<1>3. {} \in SUBSET Objects /\ IsFiniteSet({})
  BY FS_EmptySet
<1> QED BY <1>1, <1>2, <1>3 DEF Entries, Mappings

EntriesFold(h, n, items) ==
  /\ h[0] = <<>>
  /\ \A i \in 1..n : h[i] = With(h[i - 1], items[i].key, ValueOf(items[i]))
  /\ h[n] = EntriesOf(items)

LEMMA EntriesSteps ==
  ASSUME NEW n \in Nat, NEW items \in [1..n -> ItemsOf]
  PROVE  \E h \in [0..n -> Mappings] : EntriesFold(h, n, items)
<1> DEFINE b == <<>>
           A == Mappings
           step == [i \in 1..n |-> [a \in A |-> With(a, items[i].key, ValueOf(items[i]))]]
           Is(g) == g = [ps \in SUBSET DOMAIN items |->
                           IF ps = {} THEN b ELSE With(g[ps \ {Max(ps)}], items[Max(ps)].key, ValueOf(items[Max(ps)]))]
           g == CHOOSE f : Is(f)
           h == [i \in 0..n |-> g[1..i]]
<1>0. DOMAIN items = 1..n
  OBVIOUS
<1>1. ASSUME NEW a \in A, NEW i \in 1..n PROVE With(a, items[i].key, ValueOf(items[i])) \in A
  <2>1. items[i] \in ItemsOf
    OBVIOUS
  <2> QED BY <2>1, ValueOfType, WithType
<1>2. b \in A /\ step \in [1..n -> [A -> A]]
  <2>1. b \in A
    BY EmptyEntries
  <2>2. step \in [1..n -> [A -> A]]
    <3> HIDE DEF A
    <3> QED BY <1>1
  <2> QED BY <2>1, <2>2
<1>3. Is(g)
  <2>1. PICK f \in [SUBSET (1..n) -> A] : IsIter(f, n, b, step)
    <3> HIDE DEF b, A, step
    <3> QED BY <1>2, IterExists, Zenon
  <2>2. ASSUME NEW ps \in SUBSET (1..n), ps # {}
        PROVE  step[Max(ps)][f[ps \ {Max(ps)}]] = With(f[ps \ {Max(ps)}], items[Max(ps)].key, ValueOf(items[Max(ps)]))
    <3>1. Max(ps) \in 1..n
      BY <2>2, MaxIn
    <3>2. f[ps \ {Max(ps)}] \in A
      OBVIOUS
    <3> HIDE DEF A
    <3> QED BY <3>1, <3>2
  <2>3. f = [ps \in SUBSET (1..n) |-> IF ps = {} THEN b ELSE With(f[ps \ {Max(ps)}], items[Max(ps)].key, ValueOf(items[Max(ps)]))]
    <3> HIDE DEF step, A, b
    <3> QED BY <2>1, <2>2 DEF IsIter
  <2>4. Is(f)
    BY <1>0, <2>3
  <2> QED BY <2>4, Zenon
<1>4. EntriesOf(items) = g[DOMAIN items]
  BY Zenon DEF EntriesOf, ValueOf, FoldLeft, MapThenFoldSet
<1>5. ASSUME NEW ps \in SUBSET (1..n)
      PROVE  g[ps] = IF ps = {} THEN b ELSE With(g[ps \ {Max(ps)}], items[Max(ps)].key, ValueOf(items[Max(ps)]))
  <2> HIDE DEF g
  <2> QED BY <1>0, <1>3
<1> HIDE DEF g, b
<1>6. h[0] = b
  <2>1. 1..0 = {} /\ 0 \in 0..n /\ {} \in SUBSET (1..n)
    OBVIOUS
  <2> QED BY <2>1, <1>5
<1>7. ASSUME NEW i \in 1..n PROVE h[i] = With(h[i - 1], items[i].key, ValueOf(items[i]))
  <2>1. h[i] = g[1..i] /\ h[i - 1] = g[1..(i - 1)]
    BY Initials
  <2>2. /\ 1..i \in SUBSET (1..n) /\ 1..i # {}
        /\ Max(1..i) = i /\ (1..i) \ {Max(1..i)} = 1..(i - 1)
    BY Initials, Zenon
  <2> HIDE DEF h
  <2>3. g[1..i] = With(g[(1..i) \ {Max(1..i)}], items[Max(1..i)].key, ValueOf(items[Max(1..i)]))
    BY <2>2, <1>5, Zenon
  <2> QED BY <2>1, <2>2, <2>3, Zenon
<1>8. h \in [0..n -> A] /\ h[n] = g[1..n]
  <2>1. DOMAIN h = 0..n /\ h = [i \in 0..n |-> h[i]] /\ n \in 0..n /\ h[n] = g[1..n]
    OBVIOUS
  <2>2. ASSUME NEW i \in 1..n, h[i - 1] \in A PROVE h[i] \in A
    <3> HIDE DEF h, A, step
    <3> QED BY <2>2, <1>1, <1>7
  <2> HIDE DEF A, h
  <2>3. \A i \in 0..n : h[i] \in A
    BY <1>2, <1>6, <2>2, StaysIn
  <2> QED BY <2>1, <2>3
<1> HIDE DEF h
<1> QED BY <1>0, <1>4, <1>6, <1>7, <1>8 DEF EntriesFold, b

LEMMA EntriesOfFacts ==
  ASSUME kind \in Kinds, NEW items \in Seq(ItemsOf), Distinct(items),
         NEW t \in Tables(Stored), Keys(t) = {}
  PROVE  /\ EntriesOf(items) \in Entries(Stored)
         /\ \A u : u.entries = EntriesOf(items) => Dict(u) = Progress("put", Dict(t), items)[Len(items)]
<1> DEFINE n == Len(items)
           P == Progress("put", Dict(t), items)
<1>1. n \in Nat /\ items \in [1..n -> ItemsOf]
  OBVIOUS
<1>2. Progresses(P, n, "put", Dict(t), items) /\ P \in [0..n -> Dicts]
  <2>1. "put" \in Ops /\ Dict(t) \in Dicts
    BY DictType DEF Ops
  <2>2. items \in Seq(Item)
    <3>1. ItemsOf \subseteq Item
      BY DEF ItemsOf, Item
    <3> QED BY <3>1
  <2> QED BY <2>1, <2>2, ProgressSteps
<1> HIDE DEF n, P
<1>3. PICK h \in [0..n -> Mappings] : EntriesFold(h, n, items)
  BY <1>1, EntriesSteps, Zenon
<1> DEFINE Keyed(i) == {items[j].key : j \in 1..i}
           T(e) == Row(e, Cardinality(DOMAIN e))
           S == {i \in 0..n : h[i] \in Entries(Stored) /\ DOMAIN h[i] = Keyed(i) /\ Dict(T(h[i])) = P[i]}
<1>4. ASSUME NEW e \in Entries(Stored) PROVE T(e) \in Tables(Stored) /\ Keys(T(e)) = DOMAIN e /\ T(e).entries = e
  <2>1. PICK K \in SUBSET Objects : e \in [K -> Stored] /\ IsFiniteSet(K) /\ DOMAIN e = K
                                    /\ \A o, p \in K : Equal(o, p) => o = p
    BY DEF Entries
  <2>2. Cardinality(K) \in Nat /\ Cardinality(K) <= Cardinality(K)
    BY <2>1, FS_CardinalityType
  <2>3. Row(e, Cardinality(K)) \in Tables(Stored) /\ Keys(Row(e, Cardinality(K))) = K /\ Row(e, Cardinality(K)).entries = e
    BY <2>1, <2>2, TableOf
  <2> QED BY <2>1, <2>3
<1>5. 0 \in S
  <2>1. h[0] = <<>> /\ 0 \in 0..n
    BY <1>1, <1>3 DEF EntriesFold
  <2>2. Keyed(0) = {}
    OBVIOUS
  <2>3. t.entries = <<>>
    <3>1. t.entries \in [{} -> Stored]
      BY TableFacts
    <3> QED BY <3>1
  <2>4. T(<<>>).entries = <<>>
    BY <1>4, EmptyEntries
  <2>5. Dict(T(<<>>)) = Dict(t)
    <3> HIDE DEF T
    <3> QED BY <2>3, <2>4, DictSame
  <2>6. P[0] = Dict(t)
    BY <1>2 DEF Progresses
  <2> HIDE DEF T, Keyed
  <2> QED BY <2>1, <2>2, <2>5, <2>6, EmptyEntries
<1>6. ASSUME NEW i \in 0..n, i < n, i \in S PROVE i + 1 \in S
  <2> DEFINE item == items[i + 1]
             k == item.key
             v == ValueOf(item)
  <2>1. i + 1 \in 1..n /\ (i + 1) - 1 = i /\ i + 1 \in 0..n /\ i \in Nat
    BY <1>1, <1>6
  <2>2. item \in ItemsOf
    BY <1>1, <2>1
  <2>3. k \in Objects /\ v \in Stored
    BY <2>2, ValueOfType
  <2>4. h[i + 1] = With(h[i], k, v)
    BY <1>3, <2>1 DEF EntriesFold
  <2>5. P[i + 1] = Applied("put", P[i], item)
    BY <1>2, <2>1 DEF Progresses
  <2>6. P[i] \in Dicts
    BY <1>2
  <2>7. P[i + 1] = WithAt(P[i], k, v)
    <3>1. Applied("put", P[i], item) = [P[i] EXCEPT ![ClassOf[item.key]] = {IF kind = "map" THEN item.value ELSE Unit}]
      <4> HIDE DEF item
      <4> QED BY <2>6, AppliedFacts
    <3> QED BY <2>5, <3>1 DEF WithAt, ValueOf
  <2>8. h[i] \in Entries(Stored) /\ DOMAIN h[i] = Keyed(i) /\ Dict(T(h[i])) = P[i]
    BY <1>6
  <2>9. T(h[i]) \in Tables(Stored) /\ Keys(T(h[i])) = DOMAIN h[i] /\ T(h[i]).entries = h[i]
    BY <1>4, <2>8
  <2>10. ASSUME NEW p \in Keyed(i) PROVE ~Equal(k, p)
    <3>1. PICK j \in 1..i : p = items[j].key
      OBVIOUS
    <3>2. j \in DOMAIN items /\ i + 1 \in DOMAIN items /\ j # i + 1
      BY <1>1, <2>1
    <3> QED BY <3>1, <3>2 DEF Distinct
  <2> HIDE DEF T, Keyed, item, k, v
  <2>11. \A p \in Keys(T(h[i])) : ~Equal(k, p)
    BY <2>8, <2>9, <2>10
  <2>12. Row(With(h[i], k, v), Grown(T(h[i]).capacity, Size(T(h[i])) + 1)) \in Tables(Stored)
    BY <2>3, <2>9, <2>11, WithNewKey
  <2>13. h[i + 1] \in Entries(Stored)
    <3>1. Row(With(h[i], k, v), Grown(T(h[i]).capacity, Size(T(h[i])) + 1)).entries = With(h[i], k, v)
      BY DEF Row
    <3> QED BY <2>4, <2>12, <3>1, TableFacts
  <2>14. T(h[i + 1]).entries = With(T(h[i]).entries, k, v)
    BY <1>4, <2>4, <2>9, <2>13
  <2>15. Dict(T(h[i + 1])) = WithAt(Dict(T(h[i])), k, v)
    BY <2>3, <2>9, <2>11, <2>14, DictWithNew
  <2>16. DOMAIN h[i + 1] = Keyed(i) \cup {k}
    BY <2>4, <2>8 DEF With
  <2>17. Keyed(i + 1) = Keyed(i) \cup {k}
    <3>1. 1..(i + 1) = (1..i) \cup {i + 1}
      BY <2>1
    <3> QED BY <3>1 DEF Keyed, k, item
  <2> QED BY <2>1, <2>7, <2>8, <2>13, <2>15, <2>16, <2>17
<1> HIDE DEF S
<1>7. \A i \in 0..n : i < n /\ i \in S => i + 1 \in S
  BY <1>6
<1>8. \A i \in 0..n : i \in S
  BY <1>1, <1>5, <1>7, PositionInduction, Zenon
<1>9. n \in S /\ EntriesOf(items) = h[n]
  BY <1>1, <1>3, <1>8 DEF EntriesFold
<1>10. h[n] \in Entries(Stored) /\ Dict(T(h[n])) = P[n]
  BY <1>9 DEF S
<1>11. T(h[n]).entries = h[n]
  BY <1>4, <1>10
<1>12. ASSUME NEW u, u.entries = EntriesOf(items) PROVE Dict(u) = P[n]
  <2> HIDE DEF T
  <2> QED BY <1>9, <1>10, <1>11, <1>12, DictSame
<1> QED BY <1>9, <1>10, <1>12 DEF P, n

------------------------------------------------------------------------------
(* The distinct items of an operand.                                       *)

Lists == [list : Seq(ItemsOf), raised : BOOLEAN]

LEMMA UniqueOneType ==
  ASSUME NEW lists \in SUBSET Lists, NEW item \in ItemsOf
  PROVE  UniqueOne(lists, item) \in SUBSET Lists
<1> SUFFICES ASSUME NEW list \in lists,
                    NEW s \in IF list.raised THEN {list}
                              ELSE {[list |-> IF l.found = {} THEN Append(list.list, item) ELSE list.list,
                                     raised |-> l.parked] :
                                      l \in Lookups({i.key : i \in Range(list.list)}, item.key, FALSE)}
             PROVE  s \in Lists
  BY DEF UniqueOne
<1>1. CASE list.raised
  BY <1>1
<1>2. CASE ~list.raised
  <2> DEFINE m == Len(list.list)
             seq == list.list
             keys == {i.key : i \in Range(seq)}
  <2>1. seq \in Seq(ItemsOf) /\ m \in Nat /\ seq \in [1..m -> ItemsOf]
    BY DEF Lists
  <2>2. PICK l \in Lookups(keys, item.key, FALSE) :
          s = [list |-> IF l.found = {} THEN Append(seq, item) ELSE seq, raised |-> l.parked]
    BY <1>2
  <2>3. keys \in SUBSET Objects /\ IsFiniteSet(keys)
    <3> DEFINE f == [j \in 1..m |-> seq[j].key]
    <3> HIDE DEF m, seq
    <3>1. keys = {f[j] : j \in 1..m}
      <4>1. DOMAIN seq = 1..m /\ \A j \in 1..m : f[j] = seq[j].key
        BY <2>1
      <4> HIDE DEF f
      <4> QED BY <4>1 DEF Range
    <3>2. \A j \in 1..m : f[j] \in Objects
      BY <2>1 DEF ItemsOf
    <3>3. f \in [1..m -> keys]
      <4>1. DOMAIN f = 1..m /\ f = [j \in 1..m |-> f[j]]
        OBVIOUS
      <4> HIDE DEF f, keys
      <4> QED BY <3>1, <4>1
    <3> HIDE DEF f, keys
    <3>4. f \in Surjection(1..m, keys)
      BY <3>1, <3>3 DEF Surjection
    <3>5. IsFiniteSet(1..m)
      BY <2>1, FS_Interval
    <3> QED BY <3>1, <3>2, <3>4, <3>5, FS_Surjection
  <2> HIDE DEF keys, seq
  <2>4. Sound(l, keys, item.key, FALSE)
    <3>1. item.key \in Objects /\ FALSE \in Flag
      BY DEF ItemsOf, Flag
    <3> QED BY <2>2, <2>3, <3>1, LookupSound, Zenon
  <2>5. l.parked \in BOOLEAN
    BY <2>4 DEF Sound, Seen
  <2>6. Append(seq, item) \in Seq(ItemsOf)
    BY <2>1
  <2> QED BY <2>1, <2>2, <2>5, <2>6 DEF Lists
<1> QED BY <1>1, <1>2

UniquesFold(h, n, items) ==
  /\ h[0] = {[list |-> <<>>, raised |-> FALSE]}
  /\ \A i \in 1..n : h[i] = UniqueOne(h[i - 1], items[i])
  /\ h[n] = Uniques(items)

LEMMA UniquesSteps ==
  ASSUME NEW n \in Nat, NEW items \in [1..n -> ItemsOf]
  PROVE  \E h \in [0..n -> SUBSET Lists] : UniquesFold(h, n, items)
<1> DEFINE b == {[list |-> <<>>, raised |-> FALSE]}
           A == SUBSET Lists
           step == [i \in 1..n |-> [a \in A |-> UniqueOne(a, items[i])]]
           Is(g) == g = [ps \in SUBSET DOMAIN items |->
                           IF ps = {} THEN b ELSE UniqueOne(g[ps \ {Max(ps)}], items[Max(ps)])]
           g == CHOOSE f : Is(f)
           h == [i \in 0..n |-> g[1..i]]
<1>0. DOMAIN items = 1..n
  OBVIOUS
<1>1. ASSUME NEW a \in A, NEW i \in 1..n PROVE UniqueOne(a, items[i]) \in A
  <2>1. items[i] \in ItemsOf
    OBVIOUS
  <2> QED BY <2>1, UniqueOneType
<1>2. b \in A /\ step \in [1..n -> [A -> A]]
  <2>1. b \in A
    <3>1. <<>> \in Seq(ItemsOf)
      OBVIOUS
    <3> QED BY <3>1 DEF Lists
  <2>2. step \in [1..n -> [A -> A]]
    <3> HIDE DEF A
    <3> QED BY <1>1
  <2> QED BY <2>1, <2>2
<1>3. Is(g)
  <2>1. PICK f \in [SUBSET (1..n) -> A] : IsIter(f, n, b, step)
    <3> HIDE DEF b, A, step
    <3> QED BY <1>2, IterExists, Zenon
  <2>2. ASSUME NEW ps \in SUBSET (1..n), ps # {}
        PROVE  step[Max(ps)][f[ps \ {Max(ps)}]] = UniqueOne(f[ps \ {Max(ps)}], items[Max(ps)])
    <3>1. Max(ps) \in 1..n
      BY <2>2, MaxIn
    <3>2. f[ps \ {Max(ps)}] \in A
      OBVIOUS
    <3> HIDE DEF A
    <3> QED BY <3>1, <3>2
  <2>3. f = [ps \in SUBSET (1..n) |-> IF ps = {} THEN b ELSE UniqueOne(f[ps \ {Max(ps)}], items[Max(ps)])]
    <3> HIDE DEF step, A, b
    <3> QED BY <2>1, <2>2 DEF IsIter
  <2>4. Is(f)
    BY <1>0, <2>3
  <2> QED BY <2>4, Zenon
<1>4. Uniques(items) = g[DOMAIN items]
  BY Zenon DEF Uniques, FoldLeft, MapThenFoldSet
<1>5. ASSUME NEW ps \in SUBSET (1..n)
      PROVE  g[ps] = IF ps = {} THEN b ELSE UniqueOne(g[ps \ {Max(ps)}], items[Max(ps)])
  <2> HIDE DEF g
  <2> QED BY <1>0, <1>3
<1> HIDE DEF g, b
<1>6. h[0] = b
  <2>1. 1..0 = {} /\ 0 \in 0..n /\ {} \in SUBSET (1..n)
    OBVIOUS
  <2> QED BY <2>1, <1>5
<1>7. ASSUME NEW i \in 1..n PROVE h[i] = UniqueOne(h[i - 1], items[i])
  <2>1. h[i] = g[1..i] /\ h[i - 1] = g[1..(i - 1)]
    BY Initials
  <2>2. /\ 1..i \in SUBSET (1..n) /\ 1..i # {}
        /\ Max(1..i) = i /\ (1..i) \ {Max(1..i)} = 1..(i - 1)
    BY Initials, Zenon
  <2> HIDE DEF h
  <2>3. g[1..i] = UniqueOne(g[(1..i) \ {Max(1..i)}], items[Max(1..i)])
    BY <2>2, <1>5, Zenon
  <2> QED BY <2>1, <2>2, <2>3, Zenon
<1>8. h \in [0..n -> A] /\ h[n] = g[1..n]
  <2>1. DOMAIN h = 0..n /\ h = [i \in 0..n |-> h[i]] /\ n \in 0..n /\ h[n] = g[1..n]
    OBVIOUS
  <2>2. ASSUME NEW i \in 1..n, h[i - 1] \in A PROVE h[i] \in A
    <3> HIDE DEF h, A, step
    <3> QED BY <2>2, <1>1, <1>7
  <2> HIDE DEF A, h
  <2>3. \A i \in 0..n : h[i] \in A
    BY <1>2, <1>6, <2>2, StaysIn
  <2> QED BY <2>1, <2>3
<1> HIDE DEF h
<1> QED BY <1>0, <1>4, <1>6, <1>7, <1>8 DEF UniquesFold, b

LEMMA UniquesFacts ==
  ASSUME NEW items \in Seq(ItemsOf), NEW unique \in Uniques(items)
  PROVE  /\ unique.list \in Seq(ItemsOf) /\ unique.raised \in BOOLEAN
         /\ unique.raised => Len(items) > 0
<1> DEFINE n == Len(items)
<1>1. n \in Nat /\ items \in [1..n -> ItemsOf]
  OBVIOUS
<1> HIDE DEF n
<1>2. PICK h \in [0..n -> SUBSET Lists] : UniquesFold(h, n, items)
  BY <1>1, UniquesSteps, Zenon
<1>3. h[0] = {[list |-> <<>>, raised |-> FALSE]} /\ h[n] = Uniques(items) /\ n \in 0..n
  BY <1>1, <1>2 DEF UniquesFold
<1>4. unique \in Lists
  BY <1>3
<1>5. n = 0 => ~unique.raised
  BY <1>3
<1> QED BY <1>1, <1>4, <1>5 DEF Lists, n

------------------------------------------------------------------------------
(* Fewer entries.                                                          *)

LEMMA WithoutFacts ==
  ASSUME NEW V, NEW t \in Tables(V), NEW X
  PROVE  Without(t, X) \in Tables(V)
<1> DEFINE K == Keys(t) \ X
           e == [o \in K |-> t.entries[o]]
<1>1. /\ Keys(t) \in SUBSET Objects /\ IsFiniteSet(Keys(t)) /\ t.entries \in [Keys(t) -> V]
      /\ \A o, p \in Keys(t) : Equal(o, p) => o = p
      /\ t.capacity \in Nat /\ Size(t) \in Nat /\ Size(t) <= t.capacity
      /\ t = Row(t.entries, t.capacity)
  BY TableFacts
<1>2. K \in SUBSET Objects /\ \A o, p \in K : Equal(o, p) => o = p
  BY <1>1
<1>3. e \in [K -> V]
  BY <1>1
<1>4. IsFiniteSet(K) /\ Cardinality(K) \in Nat /\ Cardinality(K) <= t.capacity
  <2>1. K \in SUBSET Keys(t)
    OBVIOUS
  <2> HIDE DEF K
  <2>2. IsFiniteSet(K) /\ Cardinality(K) <= Cardinality(Keys(t))
    BY <1>1, <2>1, FS_Subset
  <2>3. Cardinality(K) \in Nat
    BY <2>2, FS_CardinalityType
  <2> QED BY <1>1, <2>2, <2>3 DEF Size
<1>5. Without(t, X) = Row(e, t.capacity)
  BY <1>1 DEF Without, Row, Keys
<1> HIDE DEF e, K
<1>6. Row(e, t.capacity) \in Tables(V) /\ Keys(Row(e, t.capacity)) = K /\ Row(e, t.capacity).entries = e
  BY <1>1, <1>2, <1>3, <1>4, TableOf
<1> QED BY <1>5, <1>6 DEF e, K

LEMMA EmptiedFacts ==
  ASSUME NEW t \in Tables(Stored)
  PROVE  [t EXCEPT !.entries = <<>>] \in Tables(Stored)
<1>1. t.capacity \in Nat
  BY TableFacts
<1>2. [t EXCEPT !.entries = <<>>] = Row(<<>>, t.capacity)
  <2>1. t = Row(t.entries, t.capacity)
    BY TableFacts
  <2> QED BY <2>1 DEF Row
<1>3. <<>> \in Entries(Stored) /\ DOMAIN <<>> = {}
  BY EmptyEntries
<1>4. Cardinality({}) = 0
  BY FS_EmptySet
<1> QED BY <1>1, <1>2, <1>3, <1>4 DEF Tables, Row, Keys, Size

LEMMA EmptyTableFacts ==
  EmptyTable \in Tables(Stored) /\ Keys(EmptyTable) = {}
<1>1. <<>> \in Entries(Stored) /\ DOMAIN <<>> = {}
  BY EmptyEntries
<1>2. Cardinality({}) = 0
  BY FS_EmptySet
<1> QED BY <1>1, <1>2 DEF EmptyTable, Tables, Keys, Size

LEMMA ReserveFacts ==
  ASSUME NEW t \in Tables(Stored), NEW m \in Nat
  PROVE  Reserve(t, m) \in Tables(Stored) /\ Reserve(t, m).entries = t.entries
<1>1. t = Row(t.entries, t.capacity) /\ t.capacity \in Nat /\ Size(t) \in Nat /\ Size(t) <= t.capacity
  BY TableFacts
<1> DEFINE c == Grown(t.capacity, Size(t) + m)
<1>2. c \in Nat /\ c >= Size(t) + m
  <2>1. Size(t) + m \in Nat
    BY <1>1
  <2> QED BY <1>1, <2>1, GrownFacts
<1>3. Reserve(t, m) = Row(t.entries, c)
  BY <1>1 DEF Reserve, Row
<1> HIDE DEF c
<1>4. Row(t.entries, c) \in Tables(Stored)
  BY <1>1, <1>2, SameEntries
<1> QED BY <1>3, <1>4 DEF Row

------------------------------------------------------------------------------
(* The invariant.  Keys that are pairwise unequal make the next lookup find *)
(* at most one of them, which is what makes undoing an operation exact; and *)
(* a generation that stands still means that the size has.                  *)

IterOK ==
  /\ iter \in [snapshot : Entries(Stored), pos : Nat, generation : Nat]
  /\ iter.pos <= Cardinality(DOMAIN iter.snapshot)
  /\ iter.generation <= generation

Ind ==
  /\ kind \in Kinds /\ generation \in 0..MaxGeneration
  /\ table \in Tables(Stored)
  /\ iter # None => IterOK
  /\ meeting # None => kind = "set" /\ meeting \in SUBSET Objects
  /\ IteratorsFresh

(* Either the generation stands still, and with it the size of the table, and
   of a map the keys, or it moves on by one. *)
Moved ==
  /\ kind' = kind
  /\ table' \in Tables(Stored)
  /\ \/ /\ generation' = generation
        /\ Size(table') = Size(table)
        /\ kind = "map" => Keys(table') = Keys(table)
     \/ generation < MaxGeneration /\ generation' = generation + 1

(* A prefix of the items has been applied, all of them unless the call raised. *)
PrefixDone(op, items, t, u, raised) ==
  \E n \in 0..Len(items) : Dict(u) = Progress(op, Dict(t), items)[n] /\ (raised = (n < Len(items)))

Called == event'.op \in Ops => PrefixDone(event'.op, event'.items, table, table', event'.ended = "raised")

LEMMA CommitMoves ==
  ASSUME Ind, NEW out \in Outcomes(Stored), out.raised \/ ~out.changed => Keys(out.table) = Keys(table),
         Commit(out), kind' = kind
  PROVE  Moved /\ table' = out.table
<1>1. table' = out.table /\ out.table \in Tables(Stored)
  BY DEF Commit, Outcomes
<1>2. CASE ~out.raised /\ out.changed
  BY <1>1, <1>2 DEF Moved, Commit, Bump
<1>3. CASE ~(~out.raised /\ out.changed)
  <2>1. generation' = generation /\ Keys(table') = Keys(table)
    BY <1>1, <1>3 DEF Commit
  <2> QED BY <1>1, <2>1 DEF Moved, Size
<1> QED BY <1>1, <1>2, <1>3

LEMMA MutateMoves ==
  ASSUME Ind, NEW out \in Outcomes(Stored), kind = "map" => Keys(table) \subseteq Keys(out.table),
         Mutate(out), kind' = kind
  PROVE  Moved /\ table' = out.table
<1>1. table' = out.table /\ out.table \in Tables(Stored)
  BY DEF Mutate, Outcomes
<1>2. CASE Bump
  BY <1>1, <1>2 DEF Moved, Bump
<1>3. CASE ~Bump
  <2>1. generation' = generation /\ Size(table') = Size(table)
    BY <1>1, <1>3 DEF Mutate
  <2>2. ASSUME kind = "map" PROVE Keys(table') = Keys(table)
    <3>1. Keys(table) \in SUBSET Keys(table') /\ IsFiniteSet(Keys(table'))
      BY <1>1, <2>2, TableFacts
    <3> QED BY <2>1, <3>1, FS_Subset DEF Size
  <2> QED BY <1>1, <2>1, <2>2 DEF Moved
<1> QED BY <1>1, <1>2, <1>3

LEMMA EndedSays ==
  ASSUME NEW raised \in Flag
  PROVE  (Ended(raised) = "raised") = raised
BY DEF Ended, Flag

LEMMA EndedReadingSays ==
  ASSUME NEW out \in Outcomes(Stored), NEW reading
  PROVE  /\ (EndedReading(out, reading) = "raised") = out.raised
         /\ InsideCall(out, reading) \in Outcomes(Stored)
         /\ InsideCall(out, reading).table = out.table
<1>1. out.raised \in BOOLEAN /\ (reading = "unhashable") \in BOOLEAN
  BY DEF Outcomes
<1>2. (EndedReading(out, reading) = "raised") = out.raised
  BY <1>1 DEF EndedReading, Ended
<1>3. InsideCall(out, reading) = [out EXCEPT !.raised = out.raised \/ reading = "unhashable"]
  BY DEF InsideCall
<1> QED BY <1>1, <1>2, <1>3 DEF Outcomes

LEMMA AnswerSays ==
  ASSUME NEW op, NEW items, NEW ended, event' = Answered(op, items, ended),
         op \in Ops => PrefixDone(op, items, table, table', ended = "raised")
  PROVE  Called
BY DEF Called, Answered

LEMMA OnePrefix ==
  ASSUME kind \in Kinds, NEW t \in Tables(Stored), NEW op \in Ops, NEW item \in Item, NEW u,
         NEW raised \in Flag, Dict(u) = IF raised THEN Dict(t) ELSE Applied(op, Dict(t), item)
  PROVE  PrefixDone(op, <<item>>, t, u, raised)
<1> DEFINE P == Progress(op, Dict(t), <<item>>)
<1>1. <<item>> \in Seq(Item) /\ Len(<<item>>) = 1 /\ <<item>>[1] = item
  OBVIOUS
<1>2. Progresses(P, 1, op, Dict(t), <<item>>)
  <2>1. Dict(t) \in Dicts
    BY DictType
  <2> QED BY <1>1, <2>1, ProgressSteps
<1>3. P[0] = Dict(t) /\ P[1] = Applied(op, Dict(t), item)
  <2>1. 1 \in 1..1 /\ 1 - 1 = 0
    OBVIOUS
  <2> HIDE DEF P
  <2> QED BY <1>1, <1>2, <2>1 DEF Progresses
<1> HIDE DEF P
<1>4. raised \in BOOLEAN
  BY DEF Flag
<1>5. CASE raised
  <2>1. 0 \in 0..Len(<<item>>) /\ 0 < Len(<<item>>)
    BY <1>1
  <2>2. Dict(u) = P[0]
    BY <1>3, <1>5
  <2>3. raised = (0 < Len(<<item>>))
    BY <1>4, <1>5, <2>1
  <2> QED BY <2>1, <2>2, <2>3 DEF PrefixDone, P
<1>6. CASE ~raised
  <2>1. 1 \in 0..Len(<<item>>) /\ Dict(u) = P[1] /\ (raised = (1 < Len(<<item>>)))
    BY <1>1, <1>3, <1>4, <1>6
  <2> QED BY <2>1 DEF PrefixDone, P
<1> QED BY <1>5, <1>6

(* What a call did with all of its items is a prefix of them. *)
LEMMA ReachedPrefix ==
  ASSUME NEW op, NEW items, NEW start, NEW t, Dict(start) = Dict(t), Len(items) \in Nat, NEW out,
         Reached(out, op, start, Progress(op, Dict(start), items), Len(items))
  PROVE  PrefixDone(op, items, t, out.table, out.raised)
<1>1. PICK m \in 0..Len(items) : Dict(out.table) = Progress(op, Dict(start), items)[m] /\ (out.raised <=> m < Len(items))
  BY DEF Reached
<1>2. out.raised \in BOOLEAN
  BY DEF Reached, Outcomes
<1> QED BY <1>1, <1>2 DEF PrefixDone

------------------------------------------------------------------------------
(* One lemma for each action: it moves the collection as Moved says, and   *)
(* does what its answer says.                                              *)

LEMMA OfItem ==
  ASSUME NEW k \in Objects, NEW v \in Values \cup {Unit}
  PROVE  \E item \in Item : Of(k, v) = <<item>> /\ item.key = k /\ item.value = v
<1>1. [key |-> k, value |-> v] \in Item
  BY DEF Item
<1> QED BY <1>1 DEF Of

(* One insertion, called as op, which amounts to "put" here. *)
LEMMA PutCalled ==
  ASSUME Ind, NEW op \in Ops, NEW k \in Objects, NEW v \in Values \cup {Unit},
         kind = "set" => v = Unit,
         \A item \in Item : item.key = k => Applied(op, Dict(table), item) = Applied("put", Dict(table), item),
         NEW out \in Outcomes(Stored), Put(out, table, k, v),
         Commit(out), event' = Answered(op, Of(k, v), Ended(out.raised)), kind' = kind
  PROVE  Moved /\ Called
<1>1. PICK item \in Item : Of(k, v) = <<item>> /\ item.key = k /\ item.value = v
  BY OfItem
<1>2. kind \in Kinds /\ table \in Tables(Stored)
  BY DEF Ind
<1>3. v = IF kind = "map" THEN item.value ELSE Unit
  BY <1>1, <1>2 DEF Kinds
<1>4. Does("put", out, table, item)
  <2>1. Put(out, table, item.key, IF kind = "map" THEN item.value ELSE Unit)
    BY <1>1, <1>3
  <2> QED BY <1>1, <1>2, <2>1, PutDoes
<1>5. /\ out.raised \/ ~out.changed => Keys(out.table) = Keys(table)
      /\ Dict(out.table) = IF out.raised THEN Dict(table) ELSE Applied(op, Dict(table), item)
  BY <1>1, <1>4 DEF Does
<1>6. Moved /\ table' = out.table
  BY <1>5, CommitMoves
<1>7. out.raised \in Flag
  BY DEF Outcomes, Flag
<1>8. PrefixDone(op, Of(k, v), table, table', out.raised)
  <2>1. PrefixDone(op, <<item>>, table, out.table, out.raised)
    BY <1>2, <1>5, <1>7, OnePrefix
  <2> QED BY <1>1, <1>6, <2>1
<1> QED BY <1>6, <1>7, <1>8, EndedSays, AnswerSays

LEMMA SetItemStep ==
  ASSUME Ind, NEW k \in Objects, NEW v \in Values, SetItem(k, v)
  PROVE  Moved /\ Called
<1>1. kind = "map" /\ kind' = kind /\ table \in Tables(Stored) /\ v \in Stored
  BY DEF SetItem, Ind, Stored
<1>2. PICK out \in MapInsert(table, k, v) : Commit(out) /\ event' = Answered("put", Of(k, v), Ended(out.raised))
  BY DEF SetItem
<1>3. out \in Outcomes(Stored) /\ Put(out, table, k, v)
  BY <1>1, MapInsertFacts
<1>4. "put" \in Ops /\ v \in Values \cup {Unit} /\ kind # "set"
  BY <1>1 DEF Ops
<1> QED BY <1>1, <1>2, <1>3, <1>4, PutCalled

LEMMA AddStep ==
  ASSUME Ind, NEW k \in Objects, Add(k)
  PROVE  Moved /\ Called
<1>1. kind = "set" /\ kind' = kind /\ table \in Tables(Stored) /\ Stored = {Unit}
  BY DEF Add, Ind, Stored
<1>2. PICK out \in SetInsert(table, k, Unit) : Commit(out) /\ event' = Answered("put", Of(k, Unit), Ended(out.raised))
  BY DEF Add
<1>3. out \in Outcomes(Stored) /\ Put(out, table, k, Unit)
  BY <1>1, SetInsertFacts
<1>4. "put" \in Ops /\ Unit \in Values \cup {Unit}
  BY DEF Ops
<1> QED BY <1>1, <1>2, <1>3, <1>4, PutCalled

(* A call that leaves the dictionary alone, because it raised or because the
   item changes nothing. *)
LEMMA StillCalled ==
  ASSUME Ind, NEW op \in Ops, NEW item \in Item, NEW raised \in Flag,
         ~raised => Applied(op, Dict(table), item) = Dict(table),
         event' = Answered(op, <<item>>, Ended(raised)), UNCHANGED <<kind, table, generation>>
  PROVE  Moved /\ Called
<1>1. kind \in Kinds /\ table \in Tables(Stored)
  BY DEF Ind
<1>2. PrefixDone(op, <<item>>, table, table', raised)
  <2>1. Dict(table) = IF raised THEN Dict(table) ELSE Applied(op, Dict(table), item)
    OBVIOUS
  <2>2. PrefixDone(op, <<item>>, table, table, raised)
    BY <1>1, <2>1, OnePrefix
  <2> QED BY <2>2
<1>3. Moved
  BY <1>1 DEF Moved
<1> QED BY <1>2, <1>3, EndedSays, AnswerSays

LEMMA SetDefaultStep ==
  ASSUME Ind, NEW k \in Objects, NEW v \in Values, SetDefault(k, v)
  PROVE  Moved /\ Called
<1> DEFINE d == Dict(table)
<1>1. kind = "map" /\ kind' = kind /\ table \in Tables(Stored) /\ v \in Stored
  BY DEF SetDefault, Ind, Stored
<1>2. d \in Dicts
  BY <1>1, DictType
<1>3. "default" \in Ops /\ v \in Values \cup {Unit} /\ kind # "set"
  BY <1>1 DEF Ops
<1>4. PICK l \in Lookups(Keys(table), k, FALSE) :
        \/ /\ l.parked \/ l.found # {}
           /\ event' = Answered("default", Of(k, v), Ended(l.parked))
           /\ UNCHANGED <<table, generation>>
        \/ /\ ~l.parked /\ l.found = {}
           /\ \E out \in MapInsert(table, k, v) :
                Commit(out) /\ event' = Answered("default", Of(k, v), Ended(out.raised))
  BY DEF SetDefault
<1>5. Sound(l, Keys(table), k, FALSE)
  <2>1. Keys(table) \in SUBSET Objects /\ IsFiniteSet(Keys(table)) /\ FALSE \in Flag
    BY <1>1, TableFacts DEF Flag
  <2> QED BY <2>1, LookupSound, Zenon
<1>6. l.parked \in Flag /\ (~l.parked => (l.found = {} <=> d[ClassOf[k]] = {}))
  <2>1. l.parked \in Flag
    BY <1>5 DEF Sound, Seen, Flag
  <2>2. l.found # {} => \E o \in Keys(table) : Equal(k, o)
    BY <1>5 DEF Sound
  <2>3. l.found = {} => \A o \in Keys(table) : Equal(k, o) => l.parked
    BY <1>5 DEF Sound
  <2>4. d[ClassOf[k]] = {} <=> \A o \in Keys(table) : ~Equal(k, o)
    BY DictAt
  <2> HIDE DEF d
  <2> QED BY <2>1, <2>2, <2>3, <2>4
<1>7. ASSUME NEW item, item.key = k
      PROVE  /\ d[ClassOf[k]] # {} => Applied("default", d, item) = d
             /\ d[ClassOf[k]] = {} => Applied("default", d, item) = Applied("put", d, item)
  <2>1. /\ Applied("put", d, item) = [d EXCEPT ![ClassOf[item.key]] = {IF kind = "map" THEN item.value ELSE Unit}]
        /\ Applied("default", d, item) =
             [d EXCEPT ![ClassOf[item.key]] = IF d[ClassOf[item.key]] = {} THEN {IF kind = "map" THEN item.value ELSE Unit}
                                              ELSE d[ClassOf[item.key]]]
    BY <1>2, AppliedFacts
  <2> HIDE DEF d
  <2>2. [d EXCEPT ![ClassOf[k]] = d[ClassOf[k]]] = d
    BY <1>2 DEF Dicts
  <2> QED BY <1>7, <2>1, <2>2
<1>8. CASE /\ l.parked \/ l.found # {}
           /\ event' = Answered("default", Of(k, v), Ended(l.parked))
           /\ UNCHANGED <<table, generation>>
  <2>1. PICK item \in Item : Of(k, v) = <<item>> /\ item.key = k /\ item.value = v
    BY <1>3, OfItem
  <2>2. ~l.parked => Applied("default", d, item) = d
    BY <1>6, <1>7, <1>8, <2>1
  <2>3. event' = Answered("default", <<item>>, Ended(l.parked)) /\ UNCHANGED <<kind, table, generation>>
    BY <1>1, <1>8, <2>1
  <2> QED BY <1>3, <1>6, <2>2, <2>3, StillCalled
<1>9. CASE /\ ~l.parked /\ l.found = {}
           /\ \E out \in MapInsert(table, k, v) :
                Commit(out) /\ event' = Answered("default", Of(k, v), Ended(out.raised))
  <2>1. PICK out \in MapInsert(table, k, v) : Commit(out) /\ event' = Answered("default", Of(k, v), Ended(out.raised))
    BY <1>9
  <2>2. out \in Outcomes(Stored) /\ Put(out, table, k, v)
    BY <1>1, MapInsertFacts
  <2>3. \A item \in Item : item.key = k => Applied("default", d, item) = Applied("put", d, item)
    BY <1>6, <1>7, <1>9
  <2> QED BY <1>1, <1>3, <2>1, <2>2, <2>3, PutCalled
<1> QED BY <1>4, <1>8, <1>9

(* Taking an entry out, by its key or because a scan met it. *)
LEMMA TakeCalled ==
  ASSUME Ind, NEW k \in Objects, NEW out \in Outcomes(Stored), Took(out, table, k),
         Commit(out), event' = Answered("take", Of(k, Unit), Ended(out.raised)), kind' = kind
  PROVE  Moved /\ Called
<1>1. PICK item \in Item : Of(k, Unit) = <<item>> /\ item.key = k /\ item.value = Unit
  BY OfItem
<1>2. kind \in Kinds /\ table \in Tables(Stored) /\ "take" \in Ops
  BY DEF Ind, Ops
<1>3. Does("take", out, table, item)
  BY <1>1, <1>2, TakeDoes
<1>4. /\ out.raised \/ ~out.changed => Keys(out.table) = Keys(table)
      /\ Dict(out.table) = IF out.raised THEN Dict(table) ELSE Applied("take", Dict(table), item)
  BY <1>3 DEF Does
<1>5. Moved /\ table' = out.table
  BY <1>4, CommitMoves
<1>6. out.raised \in Flag
  BY DEF Outcomes, Flag
<1>7. PrefixDone("take", Of(k, Unit), table, table', out.raised)
  <2>1. PrefixDone("take", <<item>>, table, out.table, out.raised)
    BY <1>2, <1>4, <1>6, OnePrefix
  <2> QED BY <1>1, <1>5, <2>1
<1> QED BY <1>5, <1>6, <1>7, EndedSays, AnswerSays

LEMMA DeleteStep ==
  ASSUME Ind, NEW k \in Objects, Delete(k)
  PROVE  Moved /\ Called
<1>1. kind' = kind /\ table \in Tables(Stored)
  BY DEF Delete, Ind
<1>2. PICK out \in TakeOut(table, k) : Commit(out) /\ event' = Answered("take", Of(k, Unit), Ended(out.raised))
  BY DEF Delete
<1>3. out \in Outcomes(Stored) /\ Took(out, table, k)
  BY <1>1, TakeOutFacts
<1> QED BY <1>1, <1>2, <1>3, TakeCalled

LEMMA PopItemStep ==
  ASSUME Ind, PopItem
  PROVE  Moved /\ Called
<1>1. kind' = kind /\ table \in Tables(Stored)
  BY DEF PopItem, Ind
<1>2. PICK o \in Keys(table) : /\ Commit(Outcome(Without(table, {o}), FALSE, TRUE))
                               /\ event' = Answered("take", Of(o, Unit), "returned")
  BY DEF PopItem
<1> DEFINE out == Outcome(Without(table, {o}), FALSE, TRUE)
<1>3. o \in Objects
  BY <1>1, TableFacts
<1>4. Without(table, {o}) \in Tables(Stored)
  BY <1>1, WithoutFacts
<1>5. Without(table, {o}).entries = Minus(table.entries, o)
  <2>1. table = Row(table.entries, table.capacity)
    BY <1>1, TableFacts
  <2> QED BY <2>1 DEF Without, Minus, Row
<1>6. out \in Outcomes(Stored) /\ out.table = Without(table, {o}) /\ ~out.raised /\ out.changed
  BY <1>4 DEF Outcome, Outcomes
<1>7. Equal(o, o)
  BY EqualFacts
<1> HIDE DEF out
<1>8. Took(out, table, o)
  BY <1>4, <1>5, <1>6, <1>7 DEF Took
<1>9. Commit(out) /\ event' = Answered("take", Of(o, Unit), Ended(out.raised))
  BY <1>2, <1>6 DEF out, Ended
<1> QED BY <1>1, <1>3, <1>6, <1>8, <1>9, TakeCalled

(* Calls that answer for a whole operand. *)
LEMMA MutateCalled ==
  ASSUME Ind, NEW op, NEW items, NEW out \in Outcomes(Stored), NEW reading,
         kind = "map" => Keys(table) \subseteq Keys(out.table),
         PrefixDone(op, items, table, out.table, out.raised),
         Mutate(InsideCall(out, reading)), event' = Answered(op, items, EndedReading(out, reading)),
         kind' = kind
  PROVE  Moved /\ Called
<1> DEFINE in == InsideCall(out, reading)
<1>1. in \in Outcomes(Stored) /\ in.table = out.table /\ (EndedReading(out, reading) = "raised") = out.raised
  BY EndedReadingSays
<1> HIDE DEF in
<1>2. Moved /\ table' = in.table
  BY <1>1, MutateMoves DEF in
<1>3. PrefixDone(op, items, table, table', EndedReading(out, reading) = "raised")
  BY <1>1, <1>2
<1> QED BY <1>2, <1>3, AnswerSays

LEMMA OperandType ==
  ASSUME NEW items \in Operands
  PROVE  items \in Seq(ItemsOf) /\ Len(items) \in Nat
<1>1. items \in Seq(ItemsOf)
  BY OperandAssumption DEF ItemsOf
<1> QED BY <1>1

LEMMA UpdateStep ==
  ASSUME Ind, NEW items \in Operands, NEW reading \in Readings, Update(items, reading)
  PROVE  Moved /\ Called
<1> DEFINE room == Reserve(table, Len(items))
<1>1. kind \in Kinds /\ kind' = kind /\ table \in Tables(Stored)
  BY DEF Update, Ind
<1>2. items \in Seq(ItemsOf) /\ Len(items) \in Nat
  BY OperandType
<1>3. room \in Tables(Stored) /\ room.entries = table.entries
  BY <1>1, <1>2, ReserveFacts
<1>4. Dict(room) = Dict(table) /\ Keys(room) = Keys(table)
  BY <1>3, DictSame
<1>5. \/ \E out \in Each("put", room, items) :
           /\ Mutate(InsideCall(out, reading))
           /\ event' = Answered("put", items, EndedReading(out, reading))
      \/ /\ Distinct(items) /\ Size(table) = 0
         /\ \E copy \in CopyInto(room, EntriesOf(items)) :
              /\ Mutate(InsideCall(Outcome(copy, FALSE, items # <<>>), reading))
              /\ event' = Answered("put", items, EndedReading(Outcome(copy, FALSE, items # <<>>), reading))
  BY DEF Update
<1> HIDE DEF room
<1>6. ASSUME NEW out \in Each("put", room, items),
             Mutate(InsideCall(out, reading)), event' = Answered("put", items, EndedReading(out, reading))
      PROVE  Moved /\ Called
  <2>1. Reached(out, "put", room, Progress("put", Dict(room), items), Len(items))
    BY <1>1, <1>2, <1>3, EachFacts
  <2>2. PrefixDone("put", items, table, out.table, out.raised)
    BY <1>2, <1>4, <2>1, ReachedPrefix
  <2>3. out \in Outcomes(Stored) /\ Keys(table) \subseteq Keys(out.table)
    BY <1>4, <2>1 DEF Reached
  <2> QED BY <1>1, <1>6, <2>2, <2>3, MutateCalled
<1>7. ASSUME Distinct(items), Size(table) = 0, NEW copy \in CopyInto(room, EntriesOf(items)),
             Mutate(InsideCall(Outcome(copy, FALSE, items # <<>>), reading)),
             event' = Answered("put", items, EndedReading(Outcome(copy, FALSE, items # <<>>), reading))
      PROVE  Moved /\ Called
  <2> DEFINE out == Outcome(copy, FALSE, items # <<>>)
  <2>1. Keys(table) = {}
    <3>1. IsFiniteSet(Keys(table))
      BY <1>1, TableFacts
    <3> QED BY <1>7, <3>1, FS_EmptySet DEF Size
  <2>2. /\ EntriesOf(items) \in Entries(Stored)
        /\ \A u : u.entries = EntriesOf(items) => Dict(u) = Progress("put", Dict(room), items)[Len(items)]
    BY <1>1, <1>2, <1>3, <1>4, <1>7, <2>1, EntriesOfFacts
  <2>3. copy \in Tables(Stored) /\ copy.entries = EntriesOf(items)
    BY <1>3, <1>4, <1>7, <2>1, <2>2, CopyFacts
  <2>4. Dict(copy) = Progress("put", Dict(table), items)[Len(items)]
    BY <1>4, <2>2, <2>3
  <2>5. out \in Outcomes(Stored) /\ out.table = copy /\ out.raised = FALSE
    BY <2>3 DEF Outcome, Outcomes
  <2>6. PrefixDone("put", items, table, out.table, out.raised)
    <3>1. Len(items) \in 0..Len(items) /\ ~(Len(items) < Len(items))
      BY <1>2
    <3> HIDE DEF out
    <3>2. (Len(items) < Len(items)) = FALSE
      BY <3>1
    <3>3. out.raised = (Len(items) < Len(items))
      BY <2>5, <3>2, Zenon
    <3>4. Dict(out.table) = Progress("put", Dict(table), items)[Len(items)]
      BY <2>4, <2>5
    <3> QED BY <3>1, <3>3, <3>4 DEF PrefixDone
  <2> HIDE DEF out
  <2>7. Mutate(InsideCall(out, reading)) /\ event' = Answered("put", items, EndedReading(out, reading))
    BY <1>7 DEF out
  <2> QED BY <1>1, <2>1, <2>5, <2>6, <2>7, MutateCalled
<1> QED BY <1>5, <1>6, <1>7

LEMMA DifferenceUpdateStep ==
  ASSUME Ind, NEW items \in Operands, NEW reading \in Readings, DifferenceUpdate(items, reading)
  PROVE  Moved /\ Called
<1>1. kind \in Kinds /\ kind' = kind /\ table \in Tables(Stored) /\ kind # "map"
  BY DEF DifferenceUpdate, Ind
<1>2. items \in Seq(ItemsOf) /\ Len(items) \in Nat
  BY OperandType
<1>3. PICK out \in Each("take", table, items) :
        Mutate(InsideCall(out, reading)) /\ event' = Answered("take", items, EndedReading(out, reading))
  BY DEF DifferenceUpdate
<1>4. Reached(out, "take", table, Progress("take", Dict(table), items), Len(items))
  BY <1>1, <1>2, EachFacts
<1>5. PrefixDone("take", items, table, out.table, out.raised)
  BY <1>2, <1>4, ReachedPrefix
<1>6. out \in Outcomes(Stored)
  BY <1>4 DEF Reached
<1> QED BY <1>1, <1>3, <1>5, <1>6, MutateCalled

LEMMA SymmetricDifferenceUpdateStep ==
  ASSUME Ind, NEW items \in Operands, SymmetricDifferenceUpdate(items)
  PROVE  Moved /\ Called
<1>1. kind \in Kinds /\ kind = "set" /\ kind' = kind /\ table \in Tables(Stored)
  BY DEF SymmetricDifferenceUpdate, Ind
<1>2. items \in Seq(ItemsOf) /\ Len(items) \in Nat
  BY OperandType
<1>3. PICK unique \in Uniques(items) :
        \/ /\ unique.raised
           /\ event' = Answered("toggle", items, "raised")
           /\ UNCHANGED <<table, generation>>
        \/ /\ ~unique.raised
           /\ \E out \in Each("toggle", table, unique.list) :
                Mutate(out) /\ event' = Answered("toggle", unique.list, Ended(out.raised))
  BY DEF SymmetricDifferenceUpdate
<1>4. unique.list \in Seq(ItemsOf) /\ unique.raised \in BOOLEAN /\ (unique.raised => Len(items) > 0)
  BY <1>2, <1>3, UniquesFacts
<1>5. ASSUME unique.raised, event' = Answered("toggle", items, "raised"), UNCHANGED <<table, generation>>
      PROVE  Moved /\ Called
  <2>1. Moved
    BY <1>1, <1>5 DEF Moved
  <2>2. Progress("toggle", Dict(table), items)[0] = Dict(table)
    <3>1. "toggle" \in Ops /\ Dict(table) \in Dicts
      BY <1>1, DictType DEF Ops
    <3>2. items \in Seq(Item)
      <4>1. ItemsOf \subseteq Item
        BY DEF ItemsOf, Item
      <4> QED BY <1>2, <4>1
    <3> QED BY <1>1, <3>1, <3>2, ProgressSteps DEF Progresses
  <2>3. 0 \in 0..Len(items) /\ 0 < Len(items)
    BY <1>2, <1>4, <1>5
  <2>4. PrefixDone("toggle", items, table, table', "raised" = "raised")
    BY <1>5, <2>2, <2>3 DEF PrefixDone
  <2> QED BY <1>5, <2>1, <2>4, AnswerSays
<1>6. ASSUME NEW out \in Each("toggle", table, unique.list), Mutate(out),
             event' = Answered("toggle", unique.list, Ended(out.raised))
      PROVE  Moved /\ Called
  <2> DEFINE list == unique.list
  <2>1. list \in Seq(ItemsOf) /\ Len(list) \in Nat
    BY <1>4
  <2>2. Reached(out, "toggle", table, Progress("toggle", Dict(table), list), Len(list))
    <3> HIDE DEF list
    <3>1. out \in Each("toggle", table, list)
      BY <1>6 DEF list
    <3> QED BY <1>1, <2>1, <3>1, EachFacts
  <2> HIDE DEF list
  <2>3. PrefixDone("toggle", list, table, out.table, out.raised)
    BY <2>1, <2>2, ReachedPrefix
  <2>4. out \in Outcomes(Stored) /\ out.raised \in Flag
    BY <2>2 DEF Reached, Outcomes, Flag
  <2>5. Moved /\ table' = out.table
    BY <1>1, <1>6, <2>4, MutateMoves
  <2>6. PrefixDone("toggle", list, table, table', Ended(out.raised) = "raised")
    BY <2>3, <2>4, <2>5, EndedSays
  <2> QED BY <1>6, <2>5, <2>6, AnswerSays DEF list
<1> QED BY <1>3, <1>5, <1>6

LEMMA OtherCalled ==
  ASSUME NEW op, NEW items, event' = Answered(op, items, "returned"), op \in {"clear", "cut", "other"}
  PROVE  Called
BY DEF Called, Answered, Ops

LEMMA ClearStep ==
  ASSUME Ind, Clear
  PROVE  Moved /\ Called
<1>1. table' \in Tables(Stored)
  <2>1. table' = [table EXCEPT !.entries = <<>>] /\ table \in Tables(Stored)
    BY DEF Clear, Ind
  <2> QED BY <2>1, EmptiedFacts
<1>2. Moved
  BY <1>1 DEF Moved, Clear, Bump
<1> QED BY <1>2, OtherCalled DEF Clear

LEMMA SubtractItselfStep ==
  ASSUME Ind, SubtractItself
  PROVE  Moved /\ Called
<1> DEFINE emptied == [table EXCEPT !.entries = <<>>]
           out == Outcome(emptied, FALSE, Size(table) > 0)
<1>1. emptied \in Tables(Stored)
  BY EmptiedFacts DEF Ind
<1>2. kind' = kind /\ kind # "map" /\ Mutate(out) /\ event' = Answered("clear", <<>>, "returned")
  BY DEF SubtractItself
<1>3. out \in Outcomes(Stored)
  <2> HIDE DEF emptied
  <2> QED BY <1>1 DEF Outcome, Outcomes
<1> HIDE DEF out
<1> QED BY <1>2, <1>3, MutateMoves, OtherCalled

LEMMA IntersectEndStep ==
  ASSUME Ind, IntersectEnd
  PROVE  Moved /\ Called
<1> DEFINE cut == Without(table, Keys(table) \ meeting)
           out == Outcome(cut, FALSE, FALSE)
<1>1. cut \in Tables(Stored)
  BY WithoutFacts DEF Ind
<1>2. kind' = kind /\ kind # "map" /\ Mutate(out) /\ event' = Answered("cut", <<>>, "returned")
  BY DEF IntersectEnd, Ind
<1>3. out \in Outcomes(Stored)
  <2> HIDE DEF cut
  <2> QED BY <1>1 DEF Outcome, Outcomes
<1> HIDE DEF out
<1> QED BY <1>2, <1>3, MutateMoves, OtherCalled

(* The actions that leave the collection alone. *)
LEMMA QuietStep ==
  ASSUME Ind, event' = Answered("other", <<>>, "returned"), UNCHANGED <<kind, table, generation>>
  PROVE  Moved /\ Called
<1>1. Moved
  BY DEF Ind, Moved
<1> QED BY <1>1, OtherCalled

------------------------------------------------------------------------------
(* The invariant holds.                                                    *)

LEMMA IndInit ==
  Init => Ind
<1> SUFFICES ASSUME Init PROVE Ind
  OBVIOUS
<1>1. kind \in Kinds /\ generation = 0 /\ table = EmptyTable /\ iter = None /\ meeting = None
  BY DEF Init, Kinds
<1>2. generation \in 0..MaxGeneration
  BY <1>1, OperandAssumption
<1> QED BY <1>1, <1>2, EmptyTableFacts DEF Ind, IteratorsFresh

(* A step that moves the collection and leaves the iterator alone. *)
LEMMA IndMoved ==
  ASSUME Ind, Moved, iter' = iter, meeting' # None => kind = "set" /\ meeting' \in SUBSET Objects
  PROVE  Ind'
<1>1. Stored' = Stored
  BY DEF Moved, Stored
<1>2. generation \in Nat /\ MaxGeneration \in Nat /\ generation' \in 0..MaxGeneration /\ generation <= generation'
  BY OperandAssumption DEF Ind, Moved
<1>3. ASSUME iter # None
      PROVE  IterOK'
  <2>1. IterOK
    BY <1>3 DEF Ind
  <2>2. /\ iter' \in [snapshot : Entries(Stored'), pos : Nat, generation : Nat]
        /\ iter'.pos <= Cardinality(DOMAIN iter'.snapshot) /\ iter.generation \in Nat
    BY <1>1, <2>1 DEF IterOK
  <2>3. iter'.generation <= generation'
    BY <1>2, <2>1, <2>2 DEF IterOK
  <2> QED BY <2>2, <2>3 DEF IterOK
<1>4. IteratorsFresh'
  <2> SUFFICES ASSUME iter # None, iter.generation = generation'
               PROVE  /\ Cardinality(DOMAIN iter.snapshot) = Size(table')
                      /\ kind = "map" => DOMAIN iter.snapshot = Keys(table')
    BY DEF IteratorsFresh, Moved
  <2>1. iter.generation <= generation /\ iter.generation \in Nat
    BY DEF Ind, IterOK
  <2>2. generation' = generation
    BY <1>2, <2>1
  <2>3. Size(table') = Size(table) /\ (kind = "map" => Keys(table') = Keys(table))
    BY <1>2, <2>2 DEF Moved
  <2> QED BY <2>2, <2>3 DEF Ind, IteratorsFresh
<1>5. kind' \in Kinds /\ table' \in Tables(Stored')
  BY <1>1 DEF Ind, Moved
<1>6. meeting' # None => kind' = "set" /\ meeting' \in SUBSET Objects
  BY DEF Moved
<1> QED BY <1>2, <1>3, <1>4, <1>5, <1>6 DEF Ind

LEMMA StepFacts ==
  ASSUME Ind, Next
  PROVE  Moved /\ Called /\ Ind'
<1>1. meeting # None => kind = "set" /\ meeting \in SUBSET Objects
  BY DEF Ind
<1>2. ASSUME NEW k \in Objects, NEW v \in Values, SetItem(k, v) \/ SetDefault(k, v)
      PROVE  Moved /\ Called /\ Ind'
  <2>1. iter' = iter /\ meeting' = meeting
    BY <1>2 DEF SetItem, SetDefault
  <2> QED BY <1>1, <1>2, <2>1, SetItemStep, SetDefaultStep, IndMoved
<1>3. ASSUME NEW k \in Objects, Add(k) \/ Delete(k)
      PROVE  Moved /\ Called /\ Ind'
  <2>1. iter' = iter /\ meeting' = meeting
    BY <1>3 DEF Add, Delete
  <2> QED BY <1>1, <1>3, <2>1, AddStep, DeleteStep, IndMoved
<1>4. CASE PopItem \/ Clear \/ SubtractItself
  <2>1. iter' = iter /\ meeting' = meeting
    BY <1>4 DEF PopItem, Clear, SubtractItself
  <2> QED BY <1>1, <1>4, <2>1, PopItemStep, ClearStep, SubtractItselfStep, IndMoved
<1>5. ASSUME NEW items \in Operands, NEW reading \in Readings,
             Update(items, reading) \/ DifferenceUpdate(items, reading)
      PROVE  Moved /\ Called /\ Ind'
  <2>1. iter' = iter /\ meeting' = meeting
    BY <1>5 DEF Update, DifferenceUpdate
  <2> QED BY <1>1, <1>5, <2>1, UpdateStep, DifferenceUpdateStep, IndMoved
<1>6. ASSUME NEW items \in Operands, SymmetricDifferenceUpdate(items)
      PROVE  Moved /\ Called /\ Ind'
  <2>1. iter' = iter /\ meeting' = meeting
    BY <1>6 DEF SymmetricDifferenceUpdate
  <2> QED BY <1>1, <1>6, <2>1, SymmetricDifferenceUpdateStep, IndMoved
<1>7. ASSUME NEW items \in Operands, IntersectWith(items)
      PROVE  Moved /\ Called /\ Ind'
  <2>1. Moved /\ Called
    BY <1>7, QuietStep DEF IntersectWith
  <2>2. meeting' = None \/ meeting' \in SUBSET meeting
    BY <1>7 DEF IntersectWith
  <2>3. iter' = iter /\ meeting # None
    BY <1>7 DEF IntersectWith
  <2> QED BY <1>1, <2>1, <2>2, <2>3, IndMoved
<1>8. CASE IntersectBegin
  <2>1. Moved /\ Called
    BY <1>8, QuietStep DEF IntersectBegin
  <2>2. kind = "set" /\ iter' = iter
    BY <1>8 DEF IntersectBegin
  <2>3. meeting' \in SUBSET Objects
    <3>1. PICK copy \in CopyInto(EmptyTable, table.entries) : meeting' = Keys(copy)
      BY <1>8 DEF IntersectBegin
    <3>2. table.entries \in Entries(Stored)
      BY TableFacts DEF Ind
    <3>3. copy \in Tables(Stored)
      BY <3>1, <3>2, EmptyTableFacts, CopyFacts
    <3> QED BY <3>1, <3>3, TableFacts
  <2> QED BY <2>1, <2>2, <2>3, IndMoved
<1>9. CASE IntersectEnd
  <2>1. iter' = iter /\ meeting' = None
    BY <1>9 DEF IntersectEnd
  <2> QED BY <1>9, <2>1, IntersectEndStep, IndMoved
<1>10. CASE Iterate
  <2>1. Moved /\ Called
    BY <1>10, QuietStep DEF Iterate
  <2>2. /\ iter' = [snapshot |-> table.entries, pos |-> 0, generation |-> generation]
        /\ UNCHANGED <<kind, table, generation, meeting>>
    BY <1>10 DEF Iterate
  <2>3. table.entries \in Entries(Stored) /\ IsFiniteSet(Keys(table)) /\ Size(table) \in Nat /\ generation \in Nat
    BY TableFacts, OperandAssumption DEF Ind
  <2>4. IterOK'
    <3>1. Stored' = Stored
      BY <2>2 DEF Stored
    <3>2. iter' \in [snapshot : Entries(Stored), pos : Nat, generation : Nat]
      BY <2>2, <2>3
    <3>3. iter'.pos <= Cardinality(DOMAIN iter'.snapshot) /\ iter'.generation <= generation'
      BY <2>2, <2>3 DEF Size, Keys
    <3> QED BY <3>1, <3>2, <3>3 DEF IterOK
  <2>5. IteratorsFresh'
    BY <2>2 DEF IteratorsFresh, Size, Keys
  <2>6. kind' \in Kinds /\ generation' \in 0..MaxGeneration /\ table' \in Tables(Stored')
    BY <2>2 DEF Ind, Stored
  <2>7. meeting' # None => kind' = "set" /\ meeting' \in SUBSET Objects
    BY <1>1, <2>2
  <2>8. Ind'
    BY <2>4, <2>5, <2>6, <2>7 DEF Ind
  <2> QED BY <2>1, <2>8
<1>11. CASE IterNext
  <2>1. Moved /\ Called
    BY <1>11, QuietStep DEF IterNext
  <2>2. /\ iter # None /\ iter.pos < Cardinality(DOMAIN iter.snapshot)
        /\ iter' = [iter EXCEPT !.pos = @ + 1] /\ UNCHANGED <<kind, table, generation, meeting>>
    BY <1>11 DEF IterNext
  <2>3. IterOK
    BY <2>2 DEF Ind
  <2>4. IterOK'
    <3>1. Stored' = Stored
      BY <2>2 DEF Stored
    <3>2. iter' \in [snapshot : Entries(Stored), pos : Nat, generation : Nat]
          /\ iter'.snapshot = iter.snapshot /\ iter'.pos = iter.pos + 1 /\ iter'.generation = iter.generation
      BY <2>2, <2>3 DEF IterOK
    <3>3. Cardinality(DOMAIN iter.snapshot) \in Nat
      BY <2>3, FS_CardinalityType DEF IterOK, Entries
    <3>4. iter.pos \in Nat
      BY <2>3 DEF IterOK
    <3>5. iter'.pos <= Cardinality(DOMAIN iter'.snapshot)
      BY <2>2, <3>2, <3>3, <3>4
    <3>6. iter'.generation <= generation'
      BY <2>2, <2>3, <3>2 DEF IterOK
    <3> QED BY <3>1, <3>2, <3>5, <3>6 DEF IterOK
  <2>5. IteratorsFresh'
    <3>1. iter'.snapshot = iter.snapshot /\ iter'.generation = iter.generation
      BY <2>2, <2>3 DEF IterOK
    <3> QED BY <2>2, <3>1 DEF Ind, IteratorsFresh
  <2>6. kind' \in Kinds /\ generation' \in 0..MaxGeneration /\ table' \in Tables(Stored')
    BY <2>2 DEF Ind, Stored
  <2>7. meeting' # None => kind' = "set" /\ meeting' \in SUBSET Objects
    BY <1>1, <2>2
  <2>8. Ind'
    BY <2>4, <2>5, <2>6, <2>7 DEF Ind
  <2> QED BY <2>1, <2>8
<1> QED BY <1>2, <1>3, <1>4, <1>5, <1>6, <1>7, <1>8, <1>9, <1>10, <1>11 DEF Next

LEMMA IndNext ==
  Ind /\ [Next]_vars => Ind'
<1> SUFFICES ASSUME Ind, [Next]_vars PROVE Ind'
  OBVIOUS
<1>1. CASE Next
  BY <1>1, StepFacts
<1>2. CASE UNCHANGED vars
  <2>1. Stored' = Stored
    BY <1>2 DEF vars, Stored
  <2> QED BY <1>2, <2>1 DEF vars, Ind, IterOK, IteratorsFresh
<1> QED BY <1>1, <1>2

LEMMA IndHolds ==
  Spec => []Ind
BY IndInit, IndNext, PTL DEF Spec

------------------------------------------------------------------------------
(* The type invariant: the table of a map or a set holds objects and values *)
(* of its kind within its capacity, and an iterator, or the copy that an    *)
(* intersection_update cuts down, is of the same collection.                *)
THEOREM TypeCorrect ==
  Spec => []TypeOK
<1>1. Ind => TypeOK
  <2> SUFFICES ASSUME Ind PROVE TypeOK
    OBVIOUS
  <2>1. /\ Keys(table) \subseteq Objects /\ Size(table) <= table.capacity
        /\ table.entries \in [Keys(table) -> Stored]
    BY TableFacts DEF Ind
  <2>2. Range(table.entries) \subseteq Stored
    BY <2>1 DEF Range
  <2>3. kind \in {"map", "set"} /\ generation \in 0..MaxGeneration
    BY DEF Ind, Kinds
  <2>4. iter # None => iter.pos <= Cardinality(DOMAIN iter.snapshot) /\ iter.generation <= generation
    BY DEF Ind, IterOK
  <2>5. meeting # None => meeting \subseteq Objects
    BY DEF Ind
  <2> QED BY <2>1, <2>2, <2>3, <2>4, <2>5 DEF TypeOK, Stored
<1> QED BY <1>1, IndHolds, PTL

(* No two stored keys are ever equal, although a comparison that raised reads
   as unequal and lets the table insert beside the equal key: map_insert and
   set_insert take such an insertion back before they raise. *)
THEOREM KeysStayDistinctHolds ==
  Spec => []KeysStayDistinct
<1>1. Ind => KeysStayDistinct
  <2> SUFFICES ASSUME Ind PROVE KeysStayDistinct
    OBVIOUS
  <2>1. \A o, p \in Keys(table) : Equal(o, p) => o = p
    BY TableFacts DEF Ind
  <2> QED BY <2>1 DEF KeysStayDistinct
<1> QED BY <1>1, IndHolds, PTL

(* An iterator whose generation is still the collection's was made from a
   collection of this size, and a map's iterator from one with these keys,
   also when calls have raised halfway since. *)
THEOREM IteratorsFreshHolds ==
  Spec => []IteratorsFresh
<1>1. Ind => IteratorsFresh
  BY DEF Ind
<1> QED BY <1>1, IndHolds, PTL

(* Every call does to the dictionary of key classes what a prefix of its items
   says, in their order: all of them if it returns, and those before the one
   that raised if it raises. *)
THEOREM CallsApplyPrefixHolds ==
  Spec => CallsApplyPrefix
<1> DEFINE Does1 ==
      event'.op \in {"put", "default", "take", "toggle"} =>
        \E n \in 0..Len(event'.items) :
          /\ Dict(table') = Progress(event'.op, Dict(table), event'.items)[n]
          /\ (event'.ended = "raised") = (n < Len(event'.items))
<1>1. Ind /\ [Next]_vars => [Does1]_vars
  <2> SUFFICES ASSUME Ind, Next PROVE Does1
    OBVIOUS
  <2>1. Called
    BY StepFacts
  <2> QED BY <2>1 DEF Called, Ops, PrefixDone
<1> QED BY <1>1, IndHolds, PTL DEF Spec, CallsApplyPrefix

==============================================================================
