--------------------------- MODULE MCElasticTable ----------------------------
(***************************************************************************)
(* Small instances of ElasticTable.  The shapes double InitialCapacity;    *)
(* their limits, levels and batches are the ones the geometry plans for so *)
(* many slots.  The routes are chosen: keys collide within the levels, and *)
(* some range reductions fail (0).                                         *)
(***************************************************************************)
EXTENDS ElasticTable, TLC

CONSTANTS a, b, c, InitialCapacity

Paper == INSTANCE ElasticGeometry

MCSlotCount == [sh \in Shapes |-> IF sh = 0 THEN 0 ELSE InitialCapacity * 2^(sh - 1)]
MCMaxInsertions == [sh \in Shapes |-> InsertionLimit(MCSlotCount[sh], Exponent)]

(* Two slots are one level; four are two levels of two, and the batch of the
   second ends at the limit. *)
MCBatches ==
  [sh \in Shapes |-> SubSeq(<<2, MCMaxInsertions[sh]>>, 1, MCSlotCount[sh] \div 2)]
MCLevelOf ==
  [sh \in Shapes |->
     [s \in 1..MCSlotCount[LastShape] |-> IF 2 < s /\ s <= MCSlotCount[sh] THEN 1 ELSE 0]]

(* These are the levels and the batches that the geometry plans. *)
ASSUME PlannedAssumption ==
  \A sh \in Shapes \ {0} :
    LET slots   == MCSlotCount[sh]
        lengths == Paper!LevelLengths(slots)
    IN  /\ MCBatches[sh] = BatchEnds(Paper!BatchQuotas(slots, Exponent))
        /\ \A l \in 1..slots :
             Cardinality({s \in 1..slots : MCLevelOf[sh][s] + 1 = l}) =
               IF l \in DOMAIN lengths THEN lengths[l] ELSE 0

MCPhi == [l \in Level |-> [p \in 1..SearchCap |-> ElasticPhi(l + 1, p)]]

PerKey(x, y, z) == [k \in Keys |-> IF k = a THEN x ELSE IF k = b THEN y ELSE z]

(* Two slots in one level, then two levels of two.  Keys a and b start on the
   same slots; c's second probe of level 1 fails. *)
MCPairRoute ==
  (0 :> PerKey(<<>>, <<>>, <<>>)) @@
  (1 :> PerKey((0 :> <<1, 2>>), (0 :> <<1, 1>>), (0 :> <<2, 1>>))) @@
  (2 :> PerKey((0 :> <<1, 1>>) @@ (1 :> <<3, 4>>),
               (0 :> <<1, 2>>) @@ (1 :> <<3, 3>>),
               (0 :> <<2, 0>>) @@ (1 :> <<4, 0>>)))

(* The same levels with fewer probes: where a is, b has no slot left. *)
MCTightRoute ==
  (0 :> PerKey(<<>>, <<>>, <<>>)) @@
  (1 :> PerKey((0 :> <<1, 2>>), (0 :> <<1, 1>>), (0 :> <<2, 1>>))) @@
  (2 :> PerKey((0 :> <<1, 2>>) @@ (1 :> <<3, 4>>),
               (0 :> <<1, 1>>) @@ (1 :> <<0, 0>>),
               (0 :> <<2, 1>>) @@ (1 :> <<3, 4>>)))

(* Four slots from the start. *)
MCFourRoute == [sh \in Shapes |-> MCTightRoute[2 * sh]]

MCFilterBits ==
  [sh \in Shapes |-> IF sh = 0 THEN PerKey({}, {}, {}) ELSE PerKey({1, 2}, {2, 3}, {1, 3})]

(* One filter bit and one bin: the filter answers only that it is empty. *)
MCSharedBits == [sh \in Shapes |-> PerKey({1}, {1}, {1})]
MCSharedBin == [sh \in Shapes |-> PerKey(1, 1, 1)]

MCBinOf == [sh \in Shapes |-> PerKey(1, 1, 2)]

(* No guard and no invariant reads the transition of the epoch, and none the
   last event but a running bulk removal, which call names too; an action
   property is checked on every step.  States that differ only there are one. *)
View == <<table, previous, call, epoch.recoveries>>
==============================================================================
