--------------------------- MODULE BatchScheduler ----------------------------
(***************************************************************************)
(* The batch scheduler of an Elastic table.  The active batch is a         *)
(* function of the live count: batch i covers the counts from the end of   *)
(* batch i-1 up to its own end.  The scheduler caches the window of the    *)
(* batch it answered last and searches again only when the count has left  *)
(* it.                                                                     *)
(*                                                                         *)
(* Batch 0 is the bootstrap batch, which fills level 0; batch i > 0 has    *)
(* the level pair (i-1, i) as its target.  A target is therefore the index *)
(* of its batch.                                                           *)
(***************************************************************************)
EXTENDS Naturals, Sequences, FiniteSets

CONSTANT Unbounded   \* usize::MAX, the window end of an empty plan

ASSUME UnboundedAssumption == Unbounded \in Nat

Scheduler == [index : Nat, start : Nat, end : Nat]

(* The exclusive end of each batch: the prefix sums of the quotas, sequence
   index i + 1 for batch i.  (No plan's sum comes near saturation.) *)
BatchEnds(plan) ==
  LET ends[i \in 0..Len(plan)] == IF i = 0 THEN 0 ELSE ends[i - 1] + plan[i]
  IN  [i \in 1..Len(plan) |-> ends[i]]

(* partition_point: how many batches have ended at the count. *)
Ended(ends, count) == Cardinality({i \in DOMAIN ends : ends[i] <= count})

(* Move the window to the batch that covers the count; past the last end the
   last batch stays active. *)
Sync(ends, sch, count) ==
  IF ends = <<>> THEN sch
  ELSE LET past  == Ended(ends, count)
           index == IF past < Len(ends) THEN past ELSE Len(ends) - 1
       IN  [index |-> index,
            start |-> IF index = 0 THEN 0 ELSE ends[index],
            end   |-> ends[index + 1]]

NewScheduler(ends) == Sync(ends, [index |-> 0, start |-> 0, end |-> Unbounded], 0)

(* Mutant: the count only ever grows past a window. *)
TargetForwardOnly(ends, sch, count) == IF count >= sch.end THEN Sync(ends, sch, count) ELSE sch

(* target(len) moves the window if the count has left it; the target is the
   index of the scheduler it leaves. *)
Target(ends, sch, count) ==
  IF count >= sch.end \/ count < sch.start THEN Sync(ends, sch, count) ELSE sch

(* The definition the cache stands for: the first batch whose end lies past
   the count, else the last batch. *)
ActiveBatch(ends, count) ==
  LET open == {i \in DOMAIN ends : count < ends[i]}
  IN  IF ends = <<>> THEN 0
      ELSE IF open = {} THEN Len(ends) - 1
      ELSE (CHOOSE i \in open : \A j \in open : i <= j) - 1
==============================================================================
