------------------------------- MODULE Powers --------------------------------
(***************************************************************************)
(* Powers of two.  The code's shifts, masks and leading zeros are products *)
(* with them, remainders and lengths; a recursive function is what a proof *)
(* can unfold.                                                             *)
(***************************************************************************)
EXTENDS Integers

Pow2[k \in Nat] == IF k = 0 THEN 1 ELSE 2 * Pow2[k - 1]
==============================================================================
