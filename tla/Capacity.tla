------------------------------ MODULE Capacity -------------------------------
(***************************************************************************)
(* The capacity and reserve arithmetic both tables share (capacity.rs and  *)
(* the integer part of reserve.rs).  A reserve fraction 1/2^d is its       *)
(* exponent d.  usize is Word values wide: a checked operation that leaves *)
(* it answers None, here the empty set; a saturating one stops at the top. *)
(***************************************************************************)
EXTENDS Powers

CONSTANTS
  Word,       \* usize has the values 0..Word-1
  UsizeBits   \* and so many bits: shifts by as many are guarded

ASSUME WordAssumption == Word \in Nat \ {0} /\ UsizeBits \in Nat

Usize == 0..(Word - 1)
Checked(x) == {x} \cap Usize
Saturating(x) == IF x < Word THEN x ELSE Word - 1

(* Division by a power of two too wide to shift by answers zero. *)
FloorDivPow2(x, e) == IF e >= UsizeBits THEN 0 ELSE x \div Pow2[e]

FloorReserved(n, d) == FloorDivPow2(n, d)
FloorHalfReserved(n, d) == FloorDivPow2(n, d + 1)

(* max_insertions: the live entries n slots admit. *)
InsertionLimit(n, d) == n - FloorReserved(n, d)

(* The first of start, 2*start, 4*start... that admits needed entries; None
   when the doubling overflows before. *)
CapacityFor(start, needed, d) ==
  LET enough == {k \in 0..UsizeBits : /\ start * Pow2[k] < Word
                                      /\ InsertionLimit(start * Pow2[k], d) >= needed}
  IN  {start * Pow2[k] : k \in {k \in enough : \A j \in enough : k <= j}}

(* Mutant: the textbook inverse, ceil(needed * 2^d / (2^d - 1)). *)
ExactCapacityForCeil(needed, d) ==
  IF needed = 0 THEN {0}
  ELSE IF d >= UsizeBits THEN {needed}
  ELSE Checked((needed * Pow2[d] + Pow2[d] - 2) \div (Pow2[d] - 1))

(* The closed form of the smallest slot count that admits needed entries. *)
ExactCapacityFor(needed, d) ==
  IF needed = 0 THEN {0}
  ELSE IF d >= UsizeBits THEN {needed}
  ELSE Checked(needed + (needed - 1) \div (Pow2[d] - 1))

(* tombstone_cleanup_threshold: half the slots plus four groups, kept
   between half and three quarters. *)
CleanupThreshold(n, group) ==
  LET half     == n \div 2
      quarters == Saturating(3 * n) \div 4
      slack    == Saturating(half + Saturating(4 * group))
      capped   == IF slack < quarters THEN slack ELSE quarters
  IN  IF capped < half THEN half ELSE capped
==============================================================================
