---------------------------- MODULE ProbeEncoding ----------------------------
(***************************************************************************)
(* The bit-level code behind the probe sequences: the two encoders of phi  *)
(* and the decoder, the counters a probe feeds to the mixer, and the       *)
(* tables Elastic derives from phi (exact/probe.rs, elastic.rs).  A        *)
(* function that can fail answers a set of at most one.                    *)
(***************************************************************************)
EXTENDS ProbeArithmetic, FiniteSets

CONSTANTS
  PhiBits,             \* the exact encoder answers in so many bits (u128)
  EncodedBits, JBits,  \* the narrow one in so many (u64), for a j of so many (u16)
  FunnelLevelBits,     \* the lane of an ordinary level in a Funnel counter
  UniformSearchCap, QueryPositionCap, QueryProbeLimit

ASSUME EncodingAssumption ==
  /\ PhiBits \in Nat /\ EncodedBits \in 0..64 /\ EncodedBits <= PhiBits /\ JBits \in 0..16
  /\ FunnelLevelBits \in 0..46
  /\ UniformSearchCap \in Nat /\ QueryPositionCap \in Nat /\ QueryProbeLimit \in Nat

------------------------------------------------------------------------------
(* phi.                                                                    *)

(* append_bit: overflow is for good. *)
AppendBit(prefix, bit) == {x \in {2 * x + bit : x \in prefix} : x < Pow2[PhiBits]}

(* elastic_phi, bit by bit: a marker before each bit of j, the delimiter, i. *)
CheckedPairs[j \in Nat] ==
  IF j = 0 THEN {0} ELSE AppendBit(AppendBit(CheckedPairs[j \div 2], 1), j % 2)

ElasticPhiChecked(i, j) ==
  LET code[y \in 0..i] ==
        IF y = 0 THEN AppendBit(CheckedPairs[j], 0) ELSE AppendBit(code[y \div 2], y % 2)
  IN  IF i = 0 \/ j = 0 THEN {} ELSE code[i]

(* spread_low_16: the bits of x move apart, to the even places.  The first
   mask is 0x00ff00ff, the last 0x55555555. *)
SpreadLow16(x) ==
  LET mask(k) == {b \in 0..31 : b % (2 * k) < k}
      s8 == (x \cup ShiftLeft(x, 8)) \cap mask(8)
      s4 == (s8 \cup ShiftLeft(s8, 4)) \cap mask(4)
      s2 == (s4 \cup ShiftLeft(s4, 2)) \cap mask(2)
  IN  (s2 \cup ShiftLeft(s2, 1)) \cap mask(1)

(* 0xaaaaaaaa & pair_mask. *)
Markers(pairBits) == {b \in 0..31 : b % 2 = 1} \cap 0..(pairBits - 1)

(* Mutant: no room for the delimiter. *)
ElasticPhiBoundedTight(i, j) ==
  LET pairBits == 2 * BitLength(j)
  IN  IF i = 0 \/ j = 0 \/ j >= Pow2[JBits] \/ pairBits + 1 + BitLength(i) > EncodedBits THEN {}
      ELSE {Number(ShiftLeft(SpreadLow16(Ones(j)) \cup Markers(pairBits), BitLength(i)) \cup Ones(i))}

(* elastic_phi_bounded, in one go: the spread bits, the markers in the odd
   places, and i behind the delimiter. *)
ElasticPhiBounded(i, j) ==
  LET pairBits == 2 * BitLength(j)
  IN  IF i = 0 \/ j = 0 \/ j >= Pow2[JBits] \/ pairBits + 1 + BitLength(i) > EncodedBits THEN {}
      ELSE {Number(ShiftLeft(SpreadLow16(Ones(j)) \cup Markers(pairBits), BitLength(i) + 1) \cup Ones(i))}

(* elastic_phi_inverse: take marked bits until the delimiter; the rest is i,
   accepted if encoding it answers the code again. *)
DataBits(code) ==
  LET length == BitLength(code)
      data[b \in 0..(length \div 2)] ==
        IF b = 0 THEN 0 ELSE 2 * data[b - 1] + Bit(code, length - 2 * b)
  IN  data

(* The numbers of marked bits at which the delimiter is met. *)
Delimiters(code) ==
  LET length == BitLength(code)
      unmarked == {b \in 0..(length \div 2) : 2 * b < length /\ Bit(code, length - 2 * b - 1) = 0}
  IN  {b \in unmarked : \A a \in unmarked : b <= a}

ElasticPhiInverse(code) ==
  LET rest(b) == BitLength(code) - 2 * b - 1
      decoded == {<<code % Pow2[rest(b)], DataBits(code)[b]>> :
                    b \in {b \in Delimiters(code) : rest(b) > 0}}
  IN  {c \in decoded : ElasticPhiChecked(c[1], c[2]) = {code}}

------------------------------------------------------------------------------
(* Elastic's query tables.  Levels count from 0 here, the paper's from 1.  *)

(* Mutant: the probe at the position itself is taken again. *)
PastPositionInclusive(level, probe, position) == ElasticPhi(level + 1, probe) >= position

PastPosition(level, probe, position) == ElasticPhi(level + 1, probe) > position

(* first_paper_probe_after: the first probe of a level past a position, by
   halving what it can be among. *)
Narrowed(level, position, range) ==
  LET middle == range.lower + (range.upper - range.lower) \div 2
  IN  IF range.lower >= range.upper THEN range
      ELSE IF PastPosition(level, middle, position) THEN [range EXCEPT !.upper = middle]
      ELSE [range EXCEPT !.lower = middle + 1]

FirstProbeAfter(level, position) ==
  LET halvings == BitLength(UniformSearchCap)
      range[k \in 0..halvings] ==
        IF k = 0 THEN [lower |-> 1, upper |-> UniformSearchCap + 1]
        ELSE Narrowed(level, position, range[k - 1])
  IN  range[halvings].lower

(* for_each_phi_route: the probes of a level in order, from the first one up
   to the first past a position. *)
ProbesUpTo(level, first, position) ==
  LET past == {p \in first..UniformSearchCap : PastPosition(level, p, position)}
  IN  {p \in first..UniformSearchCap : \A q \in past : p < q}

(* LEVEL_PROBE_LIMIT and level_route_count. *)
LevelProbeLimit(level) == Cardinality(ProbesUpTo(level, 1, QueryPositionCap))

(* extend_probe_schedule: the routes of the first levels past the high water
   so far, up to the new one, without the first probe of level 0. *)
ScheduleExtension(levels, prior, highWater) ==
  UNION {{l} \X ProbesUpTo(l, IF l = 0 /\ FirstProbeAfter(l, prior) = 1 THEN 2
                              ELSE FirstProbeAfter(l, prior), highWater) :
           l \in 0..(levels - 1)}

------------------------------------------------------------------------------
(* Counters.                                                               *)

(* Mutant: a probe index too large bleeds into the level. *)
ElasticCounterUnguarded(level, logical, retry) ==
  IF level >= Pow2[5] \/ retry >= Pow2[3] THEN {}
  ELSE {ShiftLeft(Ones(level), 16) \cup ShiftLeft(Ones(logical), 3) \cup Ones(retry)}

(* try_pack_elastic_counter: level, logical probe and retry in lanes of 5, 13
   and 3 bits; what does not fit is refused. *)
ElasticCounter(level, logical, retry) ==
  IF level >= Pow2[5] \/ logical >= Pow2[13] \/ retry >= Pow2[3] THEN {}
  ELSE {ShiftLeft(Ones(level), 16) \cup ShiftLeft(Ones(logical), 3) \cup Ones(retry)}

ElasticCounterLevel(counter) == Lane(counter, 16, 5)

(* try_pack_funnel_counter: two tag bits tell the domains apart, then the
   level of an ordinary one, and eight bits each. *)
Tag == [ordinary |-> 0, primary |-> 1, fallbackA |-> 2, fallbackB |-> 3]
FunnelDomain == DOMAIN Tag

FunnelCounter(domain, level, logical, retry) ==
  LET lane == IF domain = "ordinary" THEN level ELSE 0
  IN  IF logical >= Pow2[8] \/ retry >= Pow2[8] \/ lane >= Pow2[FunnelLevelBits] THEN {}
      ELSE {ShiftLeft(Ones(Tag[domain]), 16 + FunnelLevelBits) \cup ShiftLeft(Ones(lane), 16)
              \cup ShiftLeft(Ones(logical), 8) \cup Ones(retry)}
==============================================================================
