---------------------------- MODULE MCFunnelTable ----------------------------
(***************************************************************************)
(* Small instances of FunnelTable.  Shape 1 has two levels of one bucket   *)
(* and one special slot.  Shape 2 has two buckets in level 0, a primary    *)
(* special slot and two fallback buckets.  Under seeds 0 and 1 every walk  *)
(* is cut short by a range failure, so that walks are exhausted below the  *)
(* limit, in an insert under seed 0 and even in a rebuild under seed 1;    *)
(* seed 2 recovers.  Keys share filter bits and bins, so that the filter   *)
(* and the bins have false positives.                                      *)
(***************************************************************************)
EXTENDS FunnelTable, TLC

CONSTANTS a, b, c

MCSlotCount == (0 :> 0) @@ (1 :> 3) @@ (2 :> 5)
MCMaxInsertions == (0 :> 0) @@ (1 :> 2) @@ (2 :> 4)

MCLevelOf == (0 :> <<2, 2, 2, 2, 2>>) @@ (1 :> <<0, 1, 2, 2, 2>>)
          @@ (2 :> <<0, 0, 2, 2, 2>>)

PerKey(x, y, z) == [k \in Keys |-> IF k = a THEN x ELSE IF k = b THEN y ELSE z]

Everywhere(w) == [p \in Seeds |-> PerKey(w, w, w)]

Walks(w0, w1, w2) ==
  (0 :> Everywhere(<<>>)) @@ (1 :> Everywhere(<<1, 2, 3>>)) @@
  (2 :> ((0 :> PerKey(w0, w0, w0)) @@ (1 :> w1) @@ (2 :> w2)))

MCWalk == Walks(<<1, 3>>, PerKey(<<2>>, <<2>>, <<2>>),
                PerKey(<<1, 3, 4, 4>>, <<1, 3, 4, 5>>, <<2, 3, 5, 4>>))

(* Two keys are enough to exhaust a walk, in an insert and in a rebuild. *)
MCTightWalk == Walks(<<1>>, PerKey(<<2>>, <<2>>, <<2>>),
                     PerKey(<<1, 3, 4, 4>>, <<2, 3, 4, 5>>, <<2, 3, 5, 4>>))

(* Two seeds; no rebuild is exhausted, a reseed recovers key b and leaves a
   and c stuck. *)
MCStuckWalk == Walks(<<1, 3>>, PerKey(<<2, 3>>, <<2, 3, 4>>, <<2, 3>>), <<>>)

MCFilterBits ==
  (0 :> PerKey({}, {}, {})) @@ (1 :> PerKey({1, 2}, {2, 3}, {1, 3})) @@
  (2 :> PerKey({1, 2}, {2, 3}, {4}))

MCBinOf ==
  (0 :> PerKey(1, 1, 1)) @@ (1 :> PerKey(1, 1, 2)) @@ (2 :> PerKey(1, 2, 1))

(* One filter bit and one bin for all keys. *)
MCSharedBits == [sh \in Shapes |-> PerKey({1}, {1}, {1})]
MCSharedBin == [sh \in Shapes |-> PerKey(1, 1, 1)]
==============================================================================
