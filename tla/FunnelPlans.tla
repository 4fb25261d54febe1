---------------------------- MODULE FunnelPlans ------------------------------
(***************************************************************************)
(* The questions of Arithmetic about the Funnel plan: the ordinary buckets, *)
(* the special array, and the slots a table is built with.  Each property  *)
(* says what the answer is without its searches, by paths that exist and   *)
(* lengths that fit.                                                       *)
(***************************************************************************)
EXTENDS Arithmetic, PaperGeometry

CONSTANTS
  MaxSlots,      \* bound on the slots the plans are asked for
  MaxBuckets,    \* bound on the ordinary buckets
  MaxLevels      \* bound on the levels they are split into

ASSUME BoundAssumption ==
  MaxSlots \in Nat /\ MaxSlots < Word /\ MaxBuckets \in Nat /\ MaxLevels \in Nat

(* A size and an exponent, buckets and their levels, a size to start from and
   an exponent, a request and an exponent. *)
ASSUME PlanInputAssumption ==
  /\ {"special", "buckets", "minimum", "request"} \subseteq DOMAIN Inputs
  /\ Inputs.special \subseteq Usize \X Nat
  /\ Inputs.buckets \subseteq {x \in (1..MaxBuckets) \X (1..MaxLevels) : x[2] <= x[1]}
  /\ Inputs.minimum \subseteq Usize \X Nat
  /\ Inputs.request \subseteq Usize \X Nat

------------------------------------------------------------------------------
Greatest(S) == {x \in S : \A y \in S : y <= x}

(* Funnel's ordinary levels by their definition: "monotone non-increasing,
   ... |4 * next - 3 * current| <= 4". *)
Adjacent(c) == {x \in 1..c : 4 * x - 3 * c \in -4..4}

(* The pairs of a first count and a sum that one level more can have. *)
Preceded(after) ==
  UNION {{<<c, c + p[2]>> : c \in {c \in p[1]..(2 * p[1] + 3) : p[1] \in Adjacent(c)
                                                               /\ c + p[2] <= MaxBuckets}} :
           p \in after}

(* PathSums[l]: those pairs for l levels. *)
PathSums ==
  LET Sums  == SUBSET ((1..MaxBuckets) \X (1..MaxBuckets))
      after == LoopAfter([s \in Sums |-> Preceded(s)], {<<c, c>> : c \in 1..MaxBuckets})
  IN  [l \in 1..MaxLevels |-> after[l - 1]]

(* "every total at least alpha has a feasible ordinary partition": the first
   count is the nearest to a quarter that has one, the smaller on a tie, and
   each later count is the largest that leaves one. *)
BucketsAreNearest ==
  Asked("buckets") =>
    LET total  == input[1]
        levels == input[2]
        firsts == {c \in 1..total : <<c, total>> \in PathSums[levels]}
        off(c) == IF 4 * c < total THEN total - 4 * c ELSE 4 * c - total
        near   == {c \in firsts : \A x \in firsts : off(c) <= off(x)}
    IN  \E first \in NearestFirst(total, levels) :
          LET counts  == BucketCounts(first, total, levels)
              rest(i) == total - Total(SubSeq(counts, 1, i))
          IN  /\ Len(counts) = levels /\ Total(counts) = total
              /\ {counts[1]} = Least(near)
              /\ \A i \in 1..(levels - 1) :
                   {counts[i + 1]} = Greatest({x \in Adjacent(counts[i]) :
                                                 <<x, rest(i)>> \in PathSums[levels - i]})

(* The special array is the longest between its bounds that leaves whole
   buckets, at least one per level, and halves into whole fallback buckets;
   there is a plan exactly if there is such a length; its parts tile n. *)
SpecialIsLongest ==
  Asked("special") =>
    LET n     == input[1]
        d     == input[2]
        alpha == 4 * d + 10
        beta  == 2 * d
        width == 2 * LogLogCeiling(n)
        fits  == {s \in 0..n : /\ Pow2[d + 1] * s >= n /\ Pow2[d + 2] * s <= 3 * n
                               /\ (n - s) % beta = 0 /\ n - s >= alpha * beta
                               /\ (s \div 2) % width = 0 /\ s \div 2 > 0}
    IN  /\ {p.special : p \in FunnelPlan(n, d)} = IF d < 3 \/ n < 2 THEN {} ELSE Greatest(fits)
        /\ \A p \in FunnelPlan(n, d) :
             Total(BucketCounts(p.first, (n - p.special) \div beta, alpha)) * beta
               + CeilDiv(p.special, 2) + p.special \div 2 = n

(* The plans of every size, for the exponents that requests are put to. *)
Planned ==
  [d \in {x[2] : x \in Inputs.request} |-> {n \in 0..MaxSlots : FunnelPlan(n, d) # {}}]

(* A Funnel table is built with the fewest slots that have a plan and admit
   the request: the bounds its search starts from skip none, the one that "is
   iterated to its least fixed point" among them. *)
BudgetIsSmallest ==
  /\ Asked("request") =>
       InsertBudgetSlots(input[1], input[2]) \cap 0..MaxSlots =
         IF input[1] = 0 THEN {0}
         ELSE Least({n \in Planned[input[2]] : InsertionLimit(n, input[2]) >= input[1]})
  /\ Asked("minimum") =>
       MinimumSlots(input[2], input[1]) =
         Least({n \in input[1]..(Word - 1) : FloorThreeDivPow2(n, input[2] + 2) >= 4 * LogLogCeiling(n)})
==============================================================================
