--------------------------- MODULE RangeReduction ----------------------------
(***************************************************************************)
(* The reduction of random words to an index below a bound (exact/probe.rs *)
(* and PreparedProbeRange): the high half of word * upper, unless the low  *)
(* half is below the words modulo upper.  A word has WordBits bits, 64 in  *)
(* the code; no accepted word among those allowed is the empty set.        *)
(***************************************************************************)
EXTENDS ProbeArithmetic, FiniteSets, Sequences

CONSTANT WordBits   \* a random word

ASSUME WordBitsAssumption == WordBits \in Nat

Words == Pow2[WordBits]
RandomWord == 0..(Words - 1)

(* Mutant: no word is rejected. *)
RejectionThresholdNone(upper) == 0

(* upper.wrapping_neg() % upper. *)
RejectionThreshold(upper) == (Words - upper) % upper

High(word, upper) == (word * upper) \div Words
Accepts(word, upper) == (word * upper) % Words >= RejectionThreshold(upper)

(* reduce_probe_words: the first accepted of the words allowed. *)
ReduceWords(words, upper) ==
  LET accepted == {r \in DOMAIN words : Accepts(words[r], upper)}
  IN  IF upper = 0 THEN {}
      ELSE {[index |-> High(words[r], upper), count |-> r] :
              r \in {r \in accepted : \A q \in accepted : r <= q}}

(* unbiased_prepared_elastic_probe_index: at most eight words; a power of two
   takes the top bits of the first. *)
ElasticReduce(words, upper) ==
  LET bits == BitLength(upper) - 1
  IN  IF Len(words) > 8 THEN {}
      ELSE IF upper # 0 /\ upper = Pow2[bits]
        THEN IF words = <<>> THEN {}
             ELSE {[index |-> IF upper = 1 THEN 0 ELSE words[1] \div Pow2[WordBits - bits],
                    count |-> 1]}
      ELSE ReduceWords(words, upper)

(* unbiased_prepared_funnel_probe_index_in_range: the first word apart, then
   the retries. *)
FunnelReduce(words, upper) ==
  IF words = <<>> \/ Len(words) > 256 THEN {}
  ELSE IF Accepts(words[1], upper) THEN {[index |-> High(words[1], upper), count |-> 1]}
  ELSE {[r EXCEPT !.count = @ + 1] : r \in ReduceWords(Tail(words), upper)}
==============================================================================
