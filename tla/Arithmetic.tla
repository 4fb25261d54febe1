----------------------------- MODULE Arithmetic ------------------------------
(***************************************************************************)
(* The arithmetic a table is sized and placed by, asked one question at a  *)
(* time: a behaviour picks a kind, then one of its inputs.  Each property  *)
(* is about the inputs of one kind and says what the function's answer is  *)
(* without its algorithm: by a minimum, a count or a sum.                  *)
(***************************************************************************)
EXTENDS RangeReduction, ElasticGeometry, ProbeEncoding, EpochWord

CONSTANT Inputs   \* for each kind of question, the tuples it is asked with

(* A request and an exponent, free slots of a level's slots and an exponent,
   a bound below the words, the slots of a table of two levels at least. *)
ASSUME InputAssumption ==
  /\ Word = Pow2[UsizeBits]
  /\ ProbeFactor \in Nat
  /\ {"capacity", "budget", "range", "elastic", "phi", "schedule", "level",
      "counter", "epoch"} \subseteq DOMAIN Inputs
  /\ Inputs.capacity \subseteq Usize \X (Nat \ {0})
  /\ Inputs.budget \subseteq {x \in Usize \X Usize \X Nat : 0 < x[1] /\ x[1] <= x[2]}
  /\ Inputs.range \subseteq {<<u>> : u \in RandomWord \ {0}}
  /\ Inputs.elastic \subseteq (Usize \ {0, 1}) \X (Nat \ {0})
  /\ Inputs.phi \subseteq Nat \X Nat
  /\ Inputs.schedule \subseteq Nat \X Nat \X Nat
  /\ Inputs.level \subseteq {<<l>> : l \in 0..31}
  /\ Inputs.counter \subseteq Nat \X Nat \X Nat
  /\ Inputs.epoch \subseteq Epoch

(* The bounds of a query fit each other: every level has a probe within the
   position cap, and the limit on the probes is past the last of level 0. *)
ASSUME QueryAssumption ==
  /\ ElasticPhi(32, 1) <= QueryPositionCap
  /\ QueryProbeLimit < UniformSearchCap /\ QueryProbeLimit <= 8192
  /\ ElasticPhi(1, QueryProbeLimit + 1) > QueryPositionCap

VARIABLES kind, input

vars == <<kind, input>>

Init == kind \in DOMAIN Inputs /\ input = <<>>

Ask ==
  /\ input = <<>>
  /\ input' \in Inputs[kind]
  /\ UNCHANGED kind

Done == input # <<>> /\ UNCHANGED vars

Next == Ask \/ Done

Spec == Init /\ [][Next]_vars

Asked(k) == kind = k /\ input # <<>>

------------------------------------------------------------------------------
Least(S) == {x \in S : \A y \in S : x <= y}

(* exact_capacity_for is the smallest slot count that admits the request,
   capacity_for the first doubling past it, and neither answers when there is
   none: the limit of n slots covers the request exactly from the answer on. *)
CapacityIsSmallest ==
  Asked("capacity") =>
    LET needed == input[1]
        d      == input[2]
        exact  == ExactCapacityFor(needed, d)
    IN  /\ \A n \in Usize : InsertionLimit(n, d) >= needed <=> \E c \in exact : n >= c
        /\ \A start \in 1..16 :
             CapacityFor(start, needed, d) =
               Least({start * Pow2[k] : k \in 0..UsizeBits}
                       \cap {n \in Usize : \E c \in exact : n >= c})

(* The budget is c * min(k^2, d) for the least k with slots <= 2^k * free. *)
BudgetIsDyadic ==
  Asked("budget") =>
    \E k \in Least({k \in 0..UsizeBits : Pow2[k] * input[1] >= input[2]}) :
      ElasticProbeBudget(input[1], input[2], input[3]) =
        ProbeFactor * (IF k * k < input[3] THEN k * k ELSE input[3])

(* "exactly the same number of accepted source words for every output index":
   the reduction is unbiased, less than half the words are rejected, and the
   two tables' loops answer as the plain one does. *)
ReductionIsUnbiased ==
  Asked("range") =>
    LET upper    == input[1]
        words(x) == {w \in RandomWord : Accepts(w, upper) /\ High(w, upper) = x}
    IN  /\ \A x \in 0..(upper - 1) : Cardinality(words(x)) = Words \div upper
        /\ \A w, v \in RandomWord :
             /\ ElasticReduce(<<w, v>>, upper) = ReduceWords(<<w, v>>, upper)
             /\ FunnelReduce(<<w, v>>, upper) = ReduceWords(<<w, v>>, upper)

(* The levels of an Elastic table split its slots, none of them empty, each
   within one of half the one before; the batches spend the insertion limit,
   no quota is a difference below zero, and a batch never ends past the slots
   of its level pair and of the levels before. *)
ElasticPlanIsSound ==
  Asked("elastic") =>
    LET n       == input[1]
        d       == input[2]
        lengths == LevelLengths(n)
        quotas  == BatchQuotas(n, d)
        upTo(s, i) == Total(SubSeq(s, 1, i))
    IN  /\ Total(lengths) = n /\ Len(lengths) = CeilLog2(n)
        /\ \A i \in 1..(Len(lengths) - 1) :
             /\ lengths[i + 1] > 0
             /\ 2 * lengths[i + 1] - lengths[i] \in -2..2
             /\ lengths[i] - FloorHalfReserved(lengths[i], d) >= CeilThreeQuarters(lengths[i])
        /\ Total(quotas) = InsertionLimit(n, d)
        /\ \A i \in 1..Len(quotas) : upTo(quotas, i) <= upTo(lengths, i)

(* Both encoders of phi agree wherever the narrow one answers, it answers
   wherever j and the code fit, and the decoder finds the pair again, so that no
   two probes share a position; phi grows with j and stays below 16*i*j^2. *)
PhiIsPairing ==
  Asked("phi") =>
    LET i == input[1]
        j == input[2]
        code == ElasticPhiChecked(i, j)
    IN  /\ ElasticPhiBounded(i, j) = {e \in code : j < Pow2[JBits] /\ e < Pow2[EncodedBits]}
        /\ code = {} <=> i = 0 \/ j = 0 \/ 2 * BitLength(j) + 1 + BitLength(i) > PhiBits
        /\ \A e \in code :
             /\ e = ElasticPhi(i, j) /\ e < 16 * i * j * j
             /\ ElasticPhiInverse(e) = {<<i, j>>}
             /\ \A f \in ElasticPhiChecked(i, j + 1) : e < f

(* Extending the probe schedule from one high water to a later one adds
   exactly the routes between them, so that it is the same prefix of the
   paper's order however it was reached.  And "Level one reaches the most
   probes before its positions pass the cap": no level has a probe past
   QUERY_PROBE_LIMIT, the last one of each is within the cap and the next is
   not, and all their counters fit. *)
RoutesArePaperPrefix ==
  /\ Asked("schedule") =>
       ScheduleExtension(input[1], input[2], input[3]) =
         {r \in ((0..(input[1] - 1)) \X (1..UniformSearchCap)) \ {<<0, 1>>} :
            ElasticPhi(r[1] + 1, r[2]) > input[2] /\ ElasticPhi(r[1] + 1, r[2]) <= input[3]}
  /\ Asked("level") =>
       LET level == input[1]
           last  == LevelProbeLimit(level)
       IN  /\ last <= QueryProbeLimit /\ last <= LevelProbeLimit(0)
           /\ last = FirstProbeAfter(level, QueryPositionCap) - 1
           /\ ElasticPhi(level + 1, last + 1) > QueryPositionCap
           /\ ElasticCounter(level, last - 1, 7) # {}

(* A counter that is answered holds its tuple in lanes apart, so that no two
   requests draw the same word; tuples that do not fit are refused. *)
CountersAreDistinct ==
  Asked("counter") =>
    LET level == input[1]
        logical == input[2]
        retry == input[3]
    IN  /\ ElasticCounter(level, logical, retry) # {} <=> level < 32 /\ logical < 8192 /\ retry < 8
        /\ \A c \in ElasticCounter(level, logical, retry) :
             ElasticCounterLevel(c) = level /\ Lane(c, 3, 13) = logical /\ Lane(c, 0, 3) = retry
        /\ \A domain, other \in FunnelDomain :
             \A c \in FunnelCounter(domain, level, logical, retry) :
               /\ Lane(c, 8, 8) = logical /\ Lane(c, 0, 8) = retry
               /\ domain = "ordinary" => Lane(c, 16, FunnelLevelBits) = level
               /\ c \in FunnelCounter(other, level, logical, retry) => domain = other

(* The lifecycle word is the epoch: packing loses nothing, and each operation
   on the word does what EpochState says, saturation included, and touches no
   neighbouring lane. *)
WordIsEpoch ==
  Asked("epoch") =>
    LET w == Pack(input)
    IN  /\ Unpack(w, input.deletions) = input
        /\ Unpack(NoteDeleteWord(w), SaturatingSucc(input.deletions, DelMax)) = NoteDelete(input)
        /\ Unpack(NoteRecoveryWord(w), input.deletions) = NotePlacementRecovery(input)
        /\ \A t \in Transition :
             /\ Unpack(StartWord(w, t), 0) = StartOf(input, t)
             /\ Unpack(StartWord(NoteRecoveryWord(w), t), 0) = StartWithPlacementRecovery(input, t)
==============================================================================
