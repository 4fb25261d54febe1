------------------------------ MODULE BitSets --------------------------------
(***************************************************************************)
(* Machine words as the sets of the places that hold a one, the low end at *)
(* place 0: a | b is a union of words, a & b an intersection, a & !b a     *)
(* difference, and a mask of neighbouring bits an interval of places.      *)
(***************************************************************************)
EXTENDS Powers

(* BITS - x.leading_zeros(). *)
BitLength(x) ==
  LET bits[y \in 0..x] == IF y = 0 THEN 0 ELSE 1 + bits[y \div 2] IN bits[x]
Bit(x, b) == (x \div Pow2[b]) % 2

(* The word of a number, and the number of a word of u64::BITS places. *)
Ones(x) == {b \in 0..(BitLength(x) - 1) : Bit(x, b) = 1}
Number(word) ==
  LET low[k \in 0..64] ==
        IF k = 0 THEN 0 ELSE low[k - 1] + (IF k - 1 \in word THEN Pow2[k - 1] ELSE 0)
  IN  low[64]

ShiftLeft(word, k) == {b + k : b \in word}
ShiftRight(word, k) == {b - k : b \in {b \in word : b >= k}}

(* (word >> k) & ((1 << bits) - 1), as a number. *)
Lane(word, k, bits) == Number(ShiftRight(word, k) \cap 0..(bits - 1))
==============================================================================
