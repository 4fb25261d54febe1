------------------------------ MODULE EpochWord ------------------------------
(***************************************************************************)
(* The lifecycle word in which a table packs its epoch (epoch.rs): from    *)
(* the low end the generation, the recovery count, three bits for the      *)
(* transition and one for the delete flag.  Deletions have a word of their *)
(* own.  EpochState is what the word stands for.                           *)
(***************************************************************************)
EXTENDS EpochState, BitSets, Sequences

CONSTANTS GenBits, RecBits   \* 32 and 28

ASSUME LaneAssumption ==
  /\ GenBits \in Nat /\ RecBits \in Nat /\ GenBits + RecBits + 4 <= 64
  /\ GenMax = Pow2[GenBits] - 1 /\ RecMax = Pow2[RecBits] - 1

(* The discriminants of EpochTransition. *)
Discriminants == <<"Growth", "TombstoneCleanup", "ExplicitResize", "Clear", "PlacementRecovery">>
Code(transition) ==
  IF transition = "Initial" THEN 0
  ELSE CHOOSE c \in DOMAIN Discriminants : Discriminants[c] = transition
TransitionFromBits(bits) == IF bits \in DOMAIN Discriminants THEN Discriminants[bits] ELSE "Initial"

RecoveryShift == GenBits
TransitionShift == GenBits + RecBits
GenerationMask == 0..(GenBits - 1)
RecoveryMask == RecoveryShift..(RecoveryShift + RecBits - 1)
TransitionMask == TransitionShift..(TransitionShift + 2)
HadDeleteMask == {TransitionShift + 3}

Generation(w) == Number(w \cap GenerationMask)
Recoveries(w) == Number(ShiftRight(w \cap RecoveryMask, RecoveryShift))

(* snapshot: the fields back out of the word. *)
Unpack(w, deletions) ==
  [generation |-> Generation(w), recoveries |-> Recoveries(w), deletions |-> deletions,
   hadDelete |-> w \cap HadDeleteMask # {},
   transition |-> TransitionFromBits(Number(ShiftRight(w \cap TransitionMask, TransitionShift)))]

Pack(e) ==
  Ones(e.generation) \cup ShiftLeft(Ones(e.recoveries), RecoveryShift)
    \cup ShiftLeft(Ones(Code(e.transition)), TransitionShift)
    \cup (IF e.hadDelete THEN HadDeleteMask ELSE {})

NoteDeleteWord(w) == w \cup HadDeleteMask

StartWord(w, transition) ==
  (w \cap RecoveryMask) \cup Ones(SaturatingSucc(Generation(w), GenMax))
    \cup ShiftLeft(Ones(Code(transition)), TransitionShift)

(* Mutant: the count is not held at its width. *)
NoteRecoveryWordCarries(w) ==
  (w \ RecoveryMask) \cup ShiftLeft(Ones(Recoveries(w) + 1), RecoveryShift)

NoteRecoveryWord(w) ==
  (w \ RecoveryMask) \cup ShiftLeft(Ones(SaturatingSucc(Recoveries(w), RecMax)), RecoveryShift)
==============================================================================
