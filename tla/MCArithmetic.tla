----------------------------- MODULE MCArithmetic ----------------------------
(***************************************************************************)
(* The pure functions of the repository against what they stand for.  A    *)
(* behaviour asks one question: a kind, then one of its inputs.  Every     *)
(* property is about the inputs of one kind and says what the function's   *)
(* answer is without its algorithm: by a minimum, a count or an inverse.   *)
(***************************************************************************)
EXTENDS FunnelPlans

Exponents == {1, 2, 3, UsizeBits - 1, UsizeBits, UsizeBits + 1}

(* Requests at both ends of usize and where the limit's floor moves. *)
Requests == 0..40 \cup (Word \div 2 - 4)..(Word \div 2 + 4) \cup (Word - 12)..(Word - 1)

(* Second coordinates around every change of length. *)
Probes == 0..66 \cup {127, 128, 129, 255, 256, 383, 384, 385, 511, 512, 1023, 1024, 1025}

Positions == {0, 1, 13, 14, 50, 114, 115, 900, 4000, 61441}

MCInputs == [
  capacity |-> Requests \X Exponents,
  phi      |-> (0..33) \X Probes,
  schedule |-> {<<l, p, q>> \in {1, 2, 5} \X Positions \X Positions : p < q},
  level    |-> {<<l>> : l \in 0..31},
  budget   |-> {<<f, s, d>> \in (1..33) \X (1..33) \X {1, 2, 5, 9} : f <= s},
  range    |-> {<<u>> : u \in RandomWord \ {0}},
  counter  |-> {0, 1, 30, 31, 32} \X {0, 1, 255, 256, 8191, 8192} \X {0, 1, 7, 8, 255, 256},
  elastic  |-> (2..MaxSlots) \X {1, 2, 5},
  special  |-> (0..MaxSlots) \X {2, 3, 4},
  buckets  |-> {<<t, l>> \in (1..MaxBuckets) \X {1, 2, 3, 5, 8, 22} : l <= t},
  minimum  |-> {0, 1, 2, 3, 16, 17, 127, 128, 170, 171, 256, 257, 300, 682, 683} \X (3..8),
  request  |-> (0..(MaxSlots - MaxSlots \div 8)) \X {2, 3},
  epoch    |-> [generation : 0..GenMax, recoveries : 0..RecMax, deletions : {0, DelMax},
                hadDelete : BOOLEAN, transition : Transition]]
==============================================================================
