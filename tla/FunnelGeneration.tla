-------------------------- MODULE FunnelGeneration ---------------------------
(***************************************************************************)
(* One generation of a Funnel table: the fields a resize replaces as a     *)
(* unit, the walks over them, and the writes that keep slots, counters,    *)
(* membership filter and level bins in step.                               *)
(*                                                                         *)
(* Hashing is abstracted to what a generation makes of it.  A shape fixes  *)
(* the slots and their levels; a shape, a probe seed and a key fix the     *)
(* walk, the sequence of slots an exact search visits: the key's bucket in *)
(* each ordinary level, then the primary probes and the two interleaved    *)
(* fallback buckets of the special arrays (a range failure cuts the walk   *)
(* short).  A shape and a key fix the filter bits and the level bin.  A    *)
(* control byte and the key comparison behind it are one: a control is     *)
(* EMPTY, TOMBSTONE or the key stored in the slot.                         *)
(***************************************************************************)
EXTENDS MapEvents, Integers, FiniteSets, Sequences

CONSTANTS
  EMPTY, TOMBSTONE,  \* the two free controls
  LastShape,         \* shapes are 0..LastShape, 0 the one without slots
  SlotCount,         \* shape -> its number of slots n
  MaxInsertions,     \* shape -> its live-entry limit
  LevelOf,           \* shape -> slot -> level; SpecialLevel for the special arrays
  SpecialLevel,
  OverflowLevel,     \* levels from here on share one level-bin bit
  SeedCount,         \* probe seeds are 0..SeedCount-1
  Walk,              \* shape -> seed -> key -> sequence of slots
  Bits,              \* the filter bits of all words
  FilterBits,        \* shape -> key -> its bits in its word
  Bins,              \* the level bins of all words
  BinOf,             \* shape -> key -> its bin in its word
  WordSize,          \* 2^64, where usize counters wrap in a release build
  GroupSize          \* SIMD lanes, for the cleanup threshold

Shapes == 0..LastShape
MaxSlots == SlotCount[LastShape]
Slot == 1..MaxSlots
Seeds == 0..(SeedCount - 1)
Level == 0..SpecialLevel
Control == Keys \cup {EMPTY, TOMBSTONE}

ASSUME FreeAssumption ==
  /\ EMPTY \notin Keys /\ TOMBSTONE \notin Keys /\ EMPTY # TOMBSTONE
  /\ None \notin Vals
ASSUME ShapeAssumption ==
  /\ LastShape \in Nat
  /\ SlotCount \in [Shapes -> Nat] /\ MaxInsertions \in [Shapes -> Nat]
  /\ SlotCount[0] = 0 /\ MaxInsertions[0] = 0
  /\ \A sh \in Shapes \ {0} : MaxInsertions[sh] < SlotCount[sh]
  /\ \A sh \in Shapes : SlotCount[sh] <= MaxSlots
  /\ MaxSlots < WordSize    \* usize counts every slot
ASSUME HashAssumption ==
  /\ SeedCount \in Nat \ {0} /\ WordSize \in Nat \ {0} /\ GroupSize \in Nat
  /\ SpecialLevel \in Nat /\ OverflowLevel \in 0..SpecialLevel
  /\ LevelOf \in [Shapes -> [Slot -> Level]]
  /\ FilterBits \in [Shapes -> [Keys -> SUBSET Bits]]
  /\ BinOf \in [Shapes -> [Keys -> Bins]]
  /\ \A sh \in Shapes, p \in Seeds, k \in Keys :
        Walk[sh][p][k] \in Seq(1..SlotCount[sh])

Generation ==
  [shape : Shapes, ctrl : [Slot -> Control], data : [Slot -> Vals \cup {None}],
   len : Nat, tombstones : Nat, exceptional : BOOLEAN, seed : Seeds,
   filter : SUBSET Bits, bins : SUBSET (Bins \X Level), stale : Nat]

(* An arena as allocated: controls and filter words are zeroed. *)
Fresh(shape, seed) ==
  [shape |-> shape, ctrl |-> [s \in Slot |-> EMPTY], data |-> [s \in Slot |-> None],
   len |-> 0, tombstones |-> 0, exceptional |-> FALSE, seed |-> seed,
   filter |-> {}, bins |-> {}, stale |-> 0]

------------------------------------------------------------------------------
(* Searches.  Each answers a set of at most one slot.                      *)

(* The least member of a set of naturals, as a set: {} for {}. *)
First(S) == {x \in S : \A y \in S : x <= y}

Free(g, s) == g.ctrl[s] \in {EMPTY, TOMBSTONE}
Live(g) == {s \in Slot : g.ctrl[s] \in Keys}
SlotsOf(g) == 1..SlotCount[g.shape]

(* The level-bin bit of a slot: its level, the deep ones sharing one. *)
LevelBit(g, s) ==
  LET level == LevelOf[g.shape][s]
  IN  IF level < OverflowLevel THEN level ELSE OverflowLevel

GatePasses(g, k) == g.shape # 0 /\ FilterBits[g.shape][k] \subseteq g.filter

(* The exact walk: it ends at the first EMPTY slot or at the key. *)
ExactStop(g, p, k) ==
  LET w == Walk[g.shape][p][k]
  IN  First({i \in DOMAIN w : g.ctrl[w[i]] \in {EMPTY, k}})

ExactHit(g, p, k) ==
  LET w == Walk[g.shape][p][k]
  IN  {w[i] : i \in {j \in ExactStop(g, p, k) : g.ctrl[w[j]] = k}}

(* Mutant: the clean scan is taken although there are tombstones. *)
ScanReportsClean(g, s, clean) == g.ctrl[s] = EMPTY

(* The scan of an exact walk reports the slot as vacant.  The clean scan,
   chosen while the tombstone counter is zero, does not see tombstones in
   ordinary buckets. *)
ScanReports(g, s, clean) ==
  \/ g.ctrl[s] = EMPTY
  \/ /\ g.ctrl[s] = TOMBSTONE
     /\ ~clean \/ LevelOf[g.shape][s] = SpecialLevel

(* The slot a missed exact walk reports: its first tombstone, else the EMPTY
   it stopped at, else none. *)
ExactVacancy(g, p, k, clean) ==
  LET w    == Walk[g.shape][p][k]
      stop == ExactStop(g, p, k)
  IN  {w[i] : i \in First({i \in DOMAIN w : /\ \A j \in stop : i <= j
                                            /\ ScanReports(g, w[i], clean)})}

(* The placement walk of an absent key: the first free slot. *)
SearchVacancy(g, p, k) ==
  LET w == Walk[g.shape][p][k]
  IN  {w[i] : i \in First({j \in DOMAIN w : Free(g, w[j])})}

(* The read-side walk: only the levels recorded in the key's bin, past
   tombstones, up to the first EMPTY slot or the key. *)
LookupRecordedLevels(g, k) ==
  LET w    == Walk[g.shape][g.seed][k]
      stop == {i \in DOMAIN w : /\ <<BinOf[g.shape][k], LevelBit(g, w[i])>> \in g.bins
                                /\ g.ctrl[w[i]] \in {EMPTY, k}}
  IN  {w[i] : i \in {j \in First(stop) : g.ctrl[w[j]] = k}}

FullScan(g, k) == First({s \in SlotsOf(g) : g.ctrl[s] = k})

(* Mutant: the last resort overlooks tombstones. *)
FirstFreeGlobalEmpty(g) == First({s \in SlotsOf(g) : g.ctrl[s] = EMPTY})

FirstFreeGlobal(g) == First({s \in SlotsOf(g) : Free(g, s)})

(* get, contains_key and remove: filter gate, recorded levels, and the full
   scan of an epoch that placed a key outside its walk. *)
FindLocation(g, k) ==
  LET found == LookupRecordedLevels(g, k)
  IN  IF ~GatePasses(g, k) THEN {}
      ELSE IF found = {} /\ g.exceptional THEN FullScan(g, k)
      ELSE found

(* Mutant: insert forgets that a key may lie outside its walk. *)
LocateOnWalkOnly(g, k) ==
  IF GatePasses(g, k) THEN ExactHit(g, g.seed, k) ELSE {}

(* insert and entry: the same around the exact walk. *)
Locate(g, k) ==
  LET found == ExactHit(g, g.seed, k)
  IN  IF ~GatePasses(g, k) THEN {}
      ELSE IF found = {} /\ g.exceptional THEN FullScan(g, k)
      ELSE found

------------------------------------------------------------------------------
(* Writes.                                                                 *)

(* Release arithmetic wraps, either way. *)
Decrement(x) == (x - 1) % WordSize
Increment(x) == (x + 1) % WordSize

(* Mutant: nothing is recorded for a key whose filter bits are set. *)
RecordMembershipOnce(g, k, s) ==
  IF FilterBits[g.shape][k] \subseteq g.filter THEN g
  ELSE [g EXCEPT !.filter = @ \cup FilterBits[g.shape][k],
                 !.bins = @ \cup {<<BinOf[g.shape][k], LevelBit(g, s)>>}]

(* A key stored in slot s is recorded: its filter bits, its level's bin bit. *)
RecordMembership(g, k, s) ==
  [g EXCEPT !.filter = @ \cup FilterBits[g.shape][k],
            !.bins = @ \cup {<<BinOf[g.shape][k], LevelBit(g, s)>>}]

(* Mutant: a placement outside the walk leaves the flag alone. *)
PlaceNewEntryUnflagged(g, s, k, v, outside) ==
  [RecordMembership(g, k, s) EXCEPT
     !.ctrl[s] = k, !.data[s] = v, !.len = @ + 1,
     !.tombstones = IF g.ctrl[s] = TOMBSTONE THEN Decrement(@) ELSE @]

(* place_new_entry: write the slot, record the key, count it. *)
PlaceNewEntry(g, s, k, v, outside) ==
  [RecordMembership(g, k, s) EXCEPT
     !.ctrl[s] = k,
     !.data[s] = v,
     !.len = @ + 1,
     !.tombstones = IF g.ctrl[s] = TOMBSTONE THEN Decrement(@) ELSE @,
     !.exceptional = @ \/ outside]

(* Mutant: a removed slot is free for lookups to stop at. *)
TombstoneSlotEmpty(g, s) == [g EXCEPT !.ctrl[s] = EMPTY, !.data[s] = None]

(* tombstone_slot: the slot only, as a drain leaves it. *)
TombstoneSlot(g, s) == [g EXCEPT !.ctrl[s] = TOMBSTONE, !.data[s] = None]

(* extract_finish: the slot and the counters. *)
ExtractFinish(g, s) ==
  [TombstoneSlot(g, s) EXCEPT
     !.len = Decrement(@), !.tombstones = Increment(@), !.stale = @ + 1]

(* Mutant: clear counts a slot only once its value has dropped. *)
ClearSlotUncounted(g, s) == TombstoneSlot(g, s)

(* One slot of clear: taken and counted before its value drops. *)
ClearSlot(g, s) ==
  [TombstoneSlot(g, s) EXCEPT !.len = Decrement(@), !.tombstones = Increment(@)]

ClearMembership(g) == [g EXCEPT !.filter = {}, !.bins = {}, !.stale = 0]

(* wipe_all: every control, every counter and the filter. *)
WipeAll(g) ==
  [ClearMembership(g) EXCEPT
     !.ctrl = [s \in Slot |-> EMPTY], !.data = [s \in Slot |-> None],
     !.len = 0, !.tombstones = 0, !.exceptional = FALSE]

------------------------------------------------------------------------------
(* Limits.                                                                 *)

(* tombstone_cleanup_threshold: half the slots plus four groups, kept
   between half and three quarters. *)
CleanupThreshold(n) ==
  LET half    == n \div 2
      quarter == (3 * n) \div 4
      capped  == IF half + 4 * GroupSize < quarter THEN half + 4 * GroupSize ELSE quarter
  IN  IF capped < half THEN half ELSE capped

NeedsCleanup(g) == g.tombstones > CleanupThreshold(SlotCount[g.shape])
NeedsRefresh(g) == g.stale > MaxInsertions[g.shape]

(* for_insert_budget: the smallest shape that admits so many entries, none
   when the request overflows. *)
ForInsertBudget(requested) == First({sh \in Shapes : MaxInsertions[sh] >= requested})

(* next_growth_slots: at least double the limit. *)
NextGrowthShape(g, needed) ==
  ForInsertBudget(IF needed < 2 * MaxInsertions[g.shape]
                  THEN 2 * MaxInsertions[g.shape] ELSE needed)
==============================================================================
