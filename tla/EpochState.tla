----------------------------- MODULE EpochState ------------------------------
(***************************************************************************)
(* The lifecycle counters of one table (epoch.rs).  An epoch begins at     *)
(* every rebuild and every clear.  The lifecycle word packs the fields;    *)
(* here they are the fields of a record, and the widths of the saturating  *)
(* ones are constants.                                                     *)
(***************************************************************************)
EXTENDS Naturals

CONSTANTS GenMax,   \* u32::MAX, where generation saturates
          RecMax,   \* 2^28 - 1, where placement_recoveries saturates
          DelMax    \* usize::MAX, where deletions saturates

ASSUME WidthAssumption == GenMax \in Nat /\ RecMax \in Nat /\ DelMax \in Nat

Transition == {"Initial", "Growth", "TombstoneCleanup", "ExplicitResize",
               "Clear", "PlacementRecovery"}

Epoch == [generation : 0..GenMax, recoveries : 0..RecMax, deletions : 0..DelMax,
          hadDelete : BOOLEAN, transition : Transition]

SaturatingSucc(x, max) == IF x < max THEN x + 1 ELSE max

InitialEpoch == [generation |-> 0, recoveries |-> 0, deletions |-> 0,
                 hadDelete |-> FALSE, transition |-> "Initial"]

(* Mutant: a delete sets the flag and is not counted. *)
NoteDeleteUncounted(e) == [e EXCEPT !.hadDelete = TRUE]

NoteDelete(e) ==
  [e EXCEPT !.deletions = SaturatingSucc(@, DelMax), !.hadDelete = TRUE]

(* A new epoch keeps nothing of the last one but the recovery count. *)
StartOf(e, transition) ==
  [generation |-> SaturatingSucc(e.generation, GenMax),
   recoveries |-> e.recoveries,
   deletions  |-> 0,
   hadDelete  |-> FALSE,
   transition |-> transition]

NotePlacementRecovery(e) ==
  [e EXCEPT !.recoveries = SaturatingSucc(@, RecMax)]

StartWithPlacementRecovery(e, transition) ==
  StartOf(NotePlacementRecovery(e), transition)

StartEpoch(e, transition, recovered) ==
  IF recovered THEN StartWithPlacementRecovery(e, transition)
               ELSE StartOf(e, transition)

(* EpochSnapshot.distinct_insertions, for a table of live entries. *)
DistinctInsertions(e, live) == live + e.deletions
==============================================================================
