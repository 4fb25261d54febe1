--------------------------- MODULE ProbeArithmetic ---------------------------
(***************************************************************************)
(* The discrete formulas behind the probe sequences (exact/probe.rs) that  *)
(* an Elastic table places by: the paper's pairing phi, which orders its   *)
(* probes, and its probe budget.                                           *)
(***************************************************************************)
EXTENDS BitSets

CONSTANT ProbeFactor   \* the paper's constant c, ELASTIC_PROBE_BUDGET_C

(* A marker 1 before each bit of j. *)
Pairs[j \in Nat] == IF j = 0 THEN 0 ELSE 4 * Pairs[j \div 2] + 2 + (j % 2)

(* elastic_phi: the marked bits of j, a delimiter 0, then i. *)
ElasticPhi(i, j) == 2 * Pairs[j] * Pow2[BitLength(i)] + i

(* Mutant: the ratio is rounded down. *)
ElasticProbeBudgetFloor(free, slots, d) ==
  LET log == BitLength(slots \div free - 1)
  IN  ProbeFactor * (IF log * log < d THEN log * log ELSE d)

(* elastic_dyadic_probe_budget: c * min(ceil(log2(slots / free))^2, d). *)
ElasticProbeBudget(free, slots, d) ==
  LET ratio == (slots + free - 1) \div free
      log   == BitLength(ratio - 1)
  IN  ProbeFactor * (IF log * log < d THEN log * log ELSE d)
==============================================================================
