---------------------------- MODULE PaperGeometry ----------------------------
(***************************************************************************)
(* The exact geometry of an allocation of n slots under the reserve 1/2^d  *)
(* (exact/geometry.rs): how Funnel splits n into ordinary buckets and the  *)
(* special arrays.  The iterators of the code are sequences here; how      *)
(* Elastic splits n is in ElasticGeometry.                                 *)
(***************************************************************************)
EXTENDS ElasticGeometry, FiniteSets

(* What a loop holds after so many turns. *)
LoopAfter(turn, first) ==
  LET held[k \in Nat] == IF k = 0 THEN first ELSE turn[held[k - 1]] IN held

------------------------------------------------------------------------------
(* Funnel: the ordinary buckets.                                           *)

LogLogCeiling(n) == LET k == CeilLog2(CeilLog2(n)) IN IF k = 0 THEN 1 ELSE k
CeilDivPow2(x, e) == CeilDiv(x, Pow2[e])
FloorThreeDivPow2(x, e) == (3 * x) \div Pow2[e]

(* The fewest and the most buckets a level may have after one with c:
   three quarters, give or take one, and never none or more than c. *)
MinNext(c) == IF CeilThreeQuarters(c) <= 1 THEN 1 ELSE CeilThreeQuarters(c) - 1
MaxNext(c) == IF c = 0 THEN 0 ELSE c - CeilDiv(c, 4) + 1

(* The two loops over such a path: the next count and the sum so far. *)
Path == [current : Nat, sum : Nat]
PathFrom(c) == [current |-> c, sum |-> 0]
MinStep == [p \in Path |-> [current |-> MinNext(p.current), sum |-> p.sum + p.current]]
MaxStep == [p \in Path |-> [current |-> MaxNext(p.current), sum |-> p.sum + p.current]]

(* Do so many levels from c on, each as small (as large) as it may be, sum to
   at most (at least) the target?  The code stops as soon as that is known. *)
MinimumPathSumAtMost(c, levels, target) ==
  LoopAfter(MinStep, PathFrom(c))[levels].sum <= target
MaximumPathSumAtLeast(c, levels, target) ==
  levels > 0 /\ LoopAfter(MaxStep, PathFrom(c))[levels].sum >= target

(* select_largest_feasible_next: the largest count after c that the levels
   left can complete to the sum left. *)
SelectLargestNext(c, sum, levels) ==
  LET feasible == {x \in MinNext(c)..MaxNext(c) :
                     /\ MinimumPathSumAtMost(x, levels, sum)
                     /\ MaximumPathSumAtLeast(x, levels, sum)}
  IN  {x \in feasible : \A y \in feasible : y <= x}

(* FunnelBucketCounts: the next count, a set of at most one, the sum and the
   levels left; and the counts it has answered. *)
BucketIterator == [counts : Seq(Nat), next : SUBSET Nat, sum : Nat, levels : Nat]

NextBucket(it) ==
  LET c == CHOOSE x \in it.next : TRUE
  IN  IF it.next = {} \/ c > it.sum \/ it.levels = 0 THEN [it EXCEPT !.next = {}]
      ELSE [counts |-> Append(it.counts, c),
            next   |-> IF it.levels = 1 THEN {} ELSE SelectLargestNext(c, it.sum - c, it.levels - 1),
            sum    |-> it.sum - c,
            levels |-> it.levels - 1]

BucketCounts(first, sum, levels) ==
  LoopAfter([it \in BucketIterator |-> NextBucket(it)],
            [counts |-> <<>>, next |-> {first}, sum |-> sum, levels |-> levels])[levels].counts

(* The two binary searches of nearest_feasible_first_count, turn by turn: each
   turn leaves fewer counts between the ends, so that top turns are enough. *)
Ends == [left : Nat, right : Nat]

NarrowLowest(ends, levels, total) ==
  LET middle == ends.left + (ends.right - ends.left) \div 2
  IN  IF ends.left >= ends.right THEN ends
      ELSE IF MaximumPathSumAtLeast(middle, levels, total) THEN [ends EXCEPT !.right = middle]
      ELSE [ends EXCEPT !.left = middle + 1]

NarrowHighest(ends, levels, total) ==
  LET middle == ends.left + (ends.right - ends.left) \div 2 + 1
  IN  IF ends.left >= ends.right THEN ends
      ELSE IF MinimumPathSumAtMost(middle, levels, total) THEN [ends EXCEPT !.left = middle]
      ELSE [ends EXCEPT !.right = middle - 1]

LowestFirst(top, levels, total) ==
  LoopAfter([e \in Ends |-> NarrowLowest(e, levels, total)], [left |-> 1, right |-> top])[top].left
HighestFirst(top, levels, total) ==
  LoopAfter([e \in Ends |-> NarrowHighest(e, levels, total)], [left |-> 1, right |-> top])[top].left

(* Mutant: a tie between two counts goes to the larger. *)
NearestEstimateTieUp(total) == IF total % 4 < 2 THEN total \div 4 ELSE total \div 4 + 1

NearestEstimate(total) == IF total % 4 <= 2 THEN total \div 4 ELSE total \div 4 + 1

(* nearest_feasible_first_count: a quarter of the buckets, moved between the
   lowest and the highest first count that the levels can complete. *)
NearestFirst(total, levels) ==
  LET top      == total - (levels - 1)
      lowest   == LowestFirst(top, levels, total)
      highest  == HighestFirst(top, levels, total)
      estimate == NearestEstimate(total)
      first    == IF estimate < lowest THEN lowest
                  ELSE IF estimate > highest THEN highest ELSE estimate
      counts   == BucketCounts(first, total, levels)
  IN  IF \/ levels = 0 \/ total < levels - 1
         \/ ~MaximumPathSumAtLeast(top, levels, total)
         \/ ~MinimumPathSumAtMost(1, levels, total)
         \/ lowest > highest
         \/ Len(counts) # levels \/ Total(counts) # total
      THEN {} ELSE {first}

------------------------------------------------------------------------------
(* Funnel: the special array and the plan.                                 *)

(* Euclid's loop; the right number falls with every turn. *)
Divided == [left : Nat, right : Nat]
Gcd(l, r) ==
  LoopAfter([p \in Divided |-> IF p.right = 0 THEN p
                               ELSE [left |-> p.right, right |-> p.left % p.right]],
            [left |-> l, right |-> r])[r].left

(* Mutant: the scan gives up one step before the residues repeat. *)
ResidueCycleShort(beta, width) == (2 * width) \div Gcd(beta, 2 * width) - 1

(* The fallback length is a multiple of its bucket width again after so many
   steps of beta. *)
ResidueCycle(beta, width) == (2 * width) \div Gcd(beta, 2 * width)

(* largest_compatible_special_layout: shorten the special array, from its
   upper bound in steps of beta, until its fallback half is a positive number
   of whole buckets. *)
SpecialLayout(n, lower, upper, alpha, beta, width) ==
  LET shortest == IF lower < 2 * width THEN 2 * width ELSE lower
      longest  == IF upper < n - alpha * beta THEN upper ELSE n - alpha * beta
      main(k)  == (CeilDiv(n - longest, beta) + k) * beta
      half(k)  == (n - main(k)) \div 2
      fits     == {k \in 0..(ResidueCycle(beta, width) - 1) :
                     /\ main(k) <= n - shortest
                     /\ half(k) >= width /\ half(k) % width = 0}
      found    == {k \in fits : \A j \in fits : k <= j}
  IN  IF alpha * beta > n \/ shortest > longest THEN {}
      ELSE UNION {{[special |-> n - main(k), first |-> first] :
                     first \in NearestFirst(main(k) \div beta, alpha)} : k \in found}

(* funnel_plan: n slots and the reserve 1/2^d. *)
FunnelPlan(n, d) ==
  LET alpha  == 4 * d + 10
      beta   == 2 * d
      width  == 2 * LogLogCeiling(n)
      layout == SpecialLayout(n, CeilDivPow2(n, d + 1), FloorThreeDivPow2(n, d + 2),
                              alpha, beta, width)
  IN  IF n < 2 \/ d < 3 THEN {}
      ELSE {[alpha |-> alpha, beta |-> beta, width |-> width,
             special |-> l.special, first |-> l.first] : l \in layout}

(* Mutant: the requirement is rounded down. *)
MinimumSlotsRequiredFloor(n, d) == (4 * LogLogCeiling(n) * Pow2[d + 2]) \div 3

MinimumSlotsRequired(n, d) == CeilDiv(4 * LogLogCeiling(n) * Pow2[d + 2], 3)

(* funnel_minimum_slots: raise n to what two fallback buckets of its width
   require, until that no longer moves it or it leaves usize; every turn but
   the last raises the LogLogCeiling, which UsizeBits bounds. *)
MinimumSlots(d, n) ==
  LET raised(m) == IF m >= Word \/ MinimumSlotsRequired(m, d) <= m THEN m
                   ELSE MinimumSlotsRequired(m, d)
  IN  Checked(LoopAfter([m \in Nat |-> raised(m)], n)[UsizeBits + 1])

(* The slots from n on, one by one, until a plan admits the request; none of
   usize may. *)
FirstPlan(n, requested, d) ==
  LET admits(m) == FunnelPlan(m, d) # {} /\ InsertionLimit(m, d) >= requested
  IN  Checked(CHOOSE m \in n..Word : /\ m = Word \/ admits(m)
                                     /\ \A l \in n..(m - 1) : ~admits(l))

(* for_insert_budget: the slots of the table for a request, found from a lower
   bound: what the limit takes, one bucket per level, two fallback buckets. *)
InsertBudgetSlots(requested, d) ==
  IF requested = 0 THEN {0}
  ELSE IF ~(3 <= d /\ d < UsizeBits) THEN {}
  ELSE LET larger(x, y) == IF x < y THEN y ELSE x
           floor(n)     == larger(larger(n, 2), (4 * d + 10) * (2 * d) + 2)
       IN  UNION {UNION {FirstPlan(n, requested, d) : n \in MinimumSlots(d, floor(m))} :
                    m \in ExactCapacityFor(requested, d)}
==============================================================================
