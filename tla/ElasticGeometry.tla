-------------------------- MODULE ElasticGeometry ----------------------------
(***************************************************************************)
(* How Elastic splits an allocation of n slots under the reserve 1/2^d     *)
(* into levels and its insertions into batches (exact/geometry.rs).  The   *)
(* iterators of the code are sequences here.                               *)
(***************************************************************************)
EXTENDS Capacity, Sequences

CeilDiv(x, y) == (x + y - 1) \div y
CeilThreeQuarters(x) == x - x \div 4

(* ceil_log2: the bits of x - 1. *)
CeilLog2(x) == IF x <= 1 THEN 0 ELSE CHOOSE k \in 1..x : Pow2[k - 1] < x /\ x <= Pow2[k]

------------------------------------------------------------------------------
(* Elastic.                                                                *)

LevelCount(n) == CeilLog2(n)

(* What the levels before level i leave, each taking half, rounded up. *)
Remaining(n, i) == n \div Pow2[i - 1]

(* Every level takes half of what remains, rounded up; the last takes all. *)
LevelLengths(n) ==
  LET count == LevelCount(n)
  IN  [i \in 1..count |-> IF i = count THEN Remaining(n, i) ELSE CeilDiv(Remaining(n, i), 2)]

(* The quotas of the paper's batches: batch i fills level i to all but half
   the reserve and level i + 1 to three quarters, starting from the three
   quarters the batch before left. *)
RawQuota(lengths, d, i) ==
  IF i = 1 THEN CeilThreeQuarters(lengths[1])
  ELSE lengths[i - 1] - FloorHalfReserved(lengths[i - 1], d)
         - CeilThreeQuarters(lengths[i - 1]) + CeilThreeQuarters(lengths[i])

(* Mutant: the quotas are not capped by the insertion limit. *)
BatchQuotasUncapped(n, d) ==
  [i \in 1..LevelCount(n) |-> RawQuota(LevelLengths(n), d, i)]

(* ... capped in order so that together they are the insertion limit: what
   is left of it after so many batches. *)
Unspent(n, d) ==
  LET lengths == LevelLengths(n)
      left[i \in 0..Len(lengths)] ==
        IF i = 0 THEN InsertionLimit(n, d)
        ELSE LET before == left[i - 1]
                 raw    == RawQuota(lengths, d, i)
             IN  IF raw < before THEN before - raw ELSE 0
  IN  left

BatchQuotas(n, d) ==
  LET left == Unspent(n, d) IN [i \in 1..LevelCount(n) |-> left[i - 1] - left[i]]

Total(s) ==
  LET upTo[i \in 0..Len(s)] == IF i = 0 THEN 0 ELSE upTo[i - 1] + s[i] IN upTo[Len(s)]
==============================================================================
