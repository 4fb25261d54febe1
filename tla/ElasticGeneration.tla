-------------------------- MODULE ElasticGeneration --------------------------
(***************************************************************************)
(* One generation of an Elastic table: the fields a resize replaces as a   *)
(* unit, the choice of a slot for a new key, the lookup, and the writes    *)
(* that keep slots, counters, batch scheduler, probe schedule, membership  *)
(* filter and level summary in step.                                       *)
(*                                                                         *)
(* A shape fixes the slots, their levels and the batches; slots are        *)
(* numbered through the levels in order.  Hashing is abstracted to what a  *)
(* generation makes of it: a shape and a key fix the slot of every probe   *)
(* of every level (or that its range reduction fails), the filter bits and *)
(* the summary bin.  A control byte and the key comparison behind it are   *)
(* one: a control is EMPTY, TOMBSTONE or the key stored in the slot.       *)
(***************************************************************************)
EXTENDS MapEvents, Capacity, BatchScheduler, ProbeArithmetic

CONSTANTS
  EMPTY, TOMBSTONE,  \* the two free controls
  LastShape,         \* shapes are 0..LastShape, 0 without slots; each doubles the last
  SlotCount,         \* shape -> its number of slots
  MaxInsertions,     \* shape -> its live-entry limit
  Batches,           \* shape -> the ends of its batches, one batch per level
  LevelOf,           \* shape -> slot -> level
  SummaryLevel,      \* levels from here on share one summary bit
  Exponent,          \* d, the reserve fraction is 1/2^d
  SearchCap,         \* most probes any level's search visits
  Phi,               \* level -> probe -> its position in the paper's order
  PositionCap,       \* largest position a placement may take
  Route,             \* shape -> key -> level -> probe -> slot, 0 if the reduction fails
  Bits, FilterBits,  \* the filter bits; shape -> key -> its bits in its word
  Bins, BinOf,       \* the summary bins; shape -> key -> its bin in its word
  GroupSize          \* SIMD lanes, for the cleanup threshold

Shapes == 0..LastShape
MaxSlots == SlotCount[LastShape]
Slot == 1..MaxSlots
Levels(shape) == 0..(Len(Batches[shape]) - 1)
Level == Levels(LastShape)
Control == Keys \cup {EMPTY, TOMBSTONE}

(* The probes of a level a search visits: those whose position a placement may
   take. *)
Probes == [l \in Level |-> {p \in 1..SearchCap : Phi[l][p] <= PositionCap}]

ASSUME FreeAssumption ==
  /\ EMPTY \notin Keys /\ TOMBSTONE \notin Keys /\ EMPTY # TOMBSTONE
  /\ None \notin Vals
ASSUME ShapeAssumption ==
  /\ LastShape \in Nat \ {0} /\ SlotCount \in [Shapes -> Nat]
  /\ MaxInsertions \in [Shapes -> Nat]
  /\ SlotCount[0] = 0 /\ MaxInsertions[0] = 0 /\ Batches[0] = <<>>
  /\ \A sh \in Shapes :
       /\ SlotCount[sh] <= MaxSlots /\ MaxInsertions[sh] <= SlotCount[sh]
       /\ Batches[sh] \in Seq(Nat) /\ Levels(sh) \subseteq Level
       /\ sh # 0 => Batches[sh] # <<>>
       /\ \A i, j \in DOMAIN Batches[sh] : i <= j => Batches[sh][i] <= Batches[sh][j]
  /\ LevelOf \in [Shapes -> [Slot -> Level]]
  /\ MaxSlots < Word
ASSUME LevelOrderAssumption ==   \* slots are numbered through the levels in order
  \A sh \in Shapes : \A s, t \in 1..SlotCount[sh] : s <= t => LevelOf[sh][s] <= LevelOf[sh][t]
ASSUME GrowthAssumption ==       \* doubling the slots raises the limit
  \A sh \in Shapes \ {LastShape} : MaxInsertions[sh] < MaxInsertions[sh + 1]
ASSUME HashAssumption ==
  /\ Exponent \in Nat \ {0} /\ SearchCap \in Nat /\ PositionCap \in Nat
  /\ GroupSize \in Nat /\ SummaryLevel \in Nat
  /\ Phi \in [Level -> [1..SearchCap -> Nat \ {0}]] /\ 1 \in Probes[0]
  /\ FilterBits \in [Shapes -> [Keys -> SUBSET Bits]]
  /\ BinOf \in [Shapes -> [Keys -> Bins]]
  /\ \A sh \in Shapes, k \in Keys : \A l \in Levels(sh) : \A p \in Probes[l] :
       \/ Route[sh][k][l][p] = 0
       \/ /\ Route[sh][k][l][p] \in 1..SlotCount[sh]
          /\ LevelOf[sh][Route[sh][k][l][p]] = l

Generation ==
  [shape : Shapes, ctrl : [Slot -> Control], data : [Slot -> Vals \cup {None}],
   len : Nat, levelLen : [Level -> Nat], tombstones : [Level -> Nat],
   scheduler : Scheduler, highWater : Nat, exceptional : BOOLEAN,
   schedule : SUBSET (Level \X (1..SearchCap)),
   filter : SUBSET Bits, bins : SUBSET (Bins \X Nat), stale : Nat]

(* An arena as allocated: controls and filter words are zeroed. *)
Fresh(shape) ==
  [shape |-> shape, ctrl |-> [s \in Slot |-> EMPTY], data |-> [s \in Slot |-> None],
   len |-> 0, levelLen |-> [l \in Level |-> 0], tombstones |-> [l \in Level |-> 0],
   scheduler |-> NewScheduler(Batches[shape]), highWater |-> 0, exceptional |-> FALSE,
   schedule |-> {}, filter |-> {}, bins |-> {}, stale |-> 0]

------------------------------------------------------------------------------
(* The least member of a set of naturals, as a set: {} for {}. *)
First(S) == {x \in S : \A y \in S : x <= y}

Free(g, s) == g.ctrl[s] \in {EMPTY, TOMBSTONE}
Live(g) == {s \in Slot : g.ctrl[s] \in Keys}
SlotsOf(g) == 1..SlotCount[g.shape]
LevelSlots == [sh \in Shapes |-> [l \in Level |->
                {s \in 1..SlotCount[sh] : LevelOf[sh][s] = l}]]
Capacities == [sh \in Shapes |-> [l \in Level |-> Cardinality(LevelSlots[sh][l])]]
LevelCapacity(g, l) == Capacities[g.shape][l]
LevelAt(g, s) == LevelOf[g.shape][s]
SlotOn(g, k, l, p) == Route[g.shape][k][l][p]

------------------------------------------------------------------------------
(* The choice of a slot for an absent key.  A placement is a level and a   *)
(* probe of it; a choice answers a set of at most one.                     *)

Placement(l, probes) == {[level |-> l, probe |-> p] : p \in probes}

FreeSlots(g, l) ==
  IF g.levelLen[l] < LevelCapacity(g, l) THEN LevelCapacity(g, l) - g.levelLen[l] ELSE 0

(* uniform_vacancy, or the search of a budget: the first probe of the level,
   among so many, whose slot is free. *)
VacancyWithin(g, k, l, budget) ==
  Placement(l, First({p \in Probes[l] : /\ p <= budget
                                        /\ SlotOn(g, k, l, p) # 0
                                        /\ Free(g, SlotOn(g, k, l, p))}))
UniformVacancy(g, k, l) == VacancyWithin(g, k, l, SearchCap)

(* The paper's cases for the pair (current, current + 1): the next level if
   the current one is down to half its reserve, the current one if the next
   is three quarters full, else the current one within a budget and the
   next after it. *)
PairVacancy(g, k, current) ==
  LET next   == current + 1
      free   == FreeSlots(g, current)
      within == VacancyWithin(g, k, current,
                   ElasticProbeBudget(free, LevelCapacity(g, current), Exponent))
  IN  IF next \notin Levels(g.shape) THEN {}
      ELSE IF free <= FloorHalfReserved(LevelCapacity(g, current), Exponent)
        THEN UniformVacancy(g, k, next)
      ELSE IF 4 * FreeSlots(g, next) <= LevelCapacity(g, next)
        THEN UniformVacancy(g, k, current)
      ELSE IF within # {} THEN within ELSE UniformVacancy(g, k, next)

(* choose_slot_for_new_key for a target: 0 the bootstrap, t the pair (t-1, t). *)
ChooseSlot(g, k, target) ==
  IF g.shape = 0 THEN {}
  ELSE IF target = 0 THEN UniformVacancy(g, k, 0) ELSE PairVacancy(g, k, target - 1)

(* The choice of the first target that has one. *)
FirstChoice(choices) ==
  UNION {choices[t] : t \in First({t \in DOMAIN choices : choices[t] # {}})}

(* choose_slot_on_other_targets: the shallowest other target with room by
   its counters that has a slot for the key. *)
ChooseSlotOnOtherTargets(g, k, target) ==
  LET room(t) == \E l \in {t - 1, t} \cap Levels(g.shape) : FreeSlots(g, l) > 0
      others  == {t \in Levels(g.shape) : t # target /\ room(t)}
  IN  FirstChoice([t \in others |-> ChooseSlot(g, k, t)])

(* Mutant: tombstones are not reused. *)
FirstFreeSlotEmpty(g) == First({s \in SlotsOf(g) : g.ctrl[s] = EMPTY})

(* The last resort: the first free slot anywhere. *)
FirstFreeSlot(g) == First({s \in SlotsOf(g) : Free(g, s)})

------------------------------------------------------------------------------
(* The lookup.                                                             *)

FullScan(g, k) == First({s \in SlotsOf(g) : g.ctrl[s] = k})

LevelBit(l) == IF l < SummaryLevel THEN l ELSE SummaryLevel
MaybePresent(g, k) == FilterBits[g.shape][k] \subseteq g.filter
MayHold(g, k, l) == <<BinOf[g.shape][k], LevelBit(l)>> \in g.bins

(* The routes of the schedule in the levels the summary leaves: the first, in
   the order of phi, whose reduction fails or whose slot holds the key. *)
ScheduleStop(g, k) ==
  LET stops == {r \in g.schedule : /\ MayHold(g, k, r[1])
                                   /\ \/ SlotOn(g, k, r[1], r[2]) = 0
                                      \/ g.ctrl[SlotOn(g, k, r[1], r[2])] = k}
  IN  {r \in stops : \A q \in stops : Phi[r[1]][r[2]] <= Phi[q[1]][q[2]]}

(* Mutant: an exhausted schedule ends the lookup. *)
FindOnScheduleOnly(g, k) ==
  LET h11 == SlotOn(g, k, 0, 1)
  IN  IF g.len = 0 \/ g.shape = 0 THEN {}
      ELSE IF h11 = 0 THEN FullScan(g, k)
      ELSE IF g.ctrl[h11] = k THEN {h11}
      ELSE UNION {IF SlotOn(g, k, r[1], r[2]) = 0 THEN FullScan(g, k)
                  ELSE {SlotOn(g, k, r[1], r[2])} :
                     r \in {q \in ScheduleStop(g, k) : MaybePresent(g, k)}}

(* find_by_exact_schedule: the first probe of level 0, then the filter, then
   the schedule, and the full scan when a reduction fails or when the
   generation placed a key outside its routes. *)
Find(g, k) ==
  LET h11 == SlotOn(g, k, 0, 1)
  IN  IF g.len = 0 \/ g.shape = 0 THEN {}
      ELSE IF h11 = 0 THEN FullScan(g, k)
      ELSE IF g.ctrl[h11] = k THEN {h11}
      ELSE IF ~MaybePresent(g, k) THEN {}
      ELSE IF ScheduleStop(g, k) = {} THEN IF g.exceptional THEN FullScan(g, k) ELSE {}
      ELSE UNION {IF SlotOn(g, k, r[1], r[2]) = 0 THEN FullScan(g, k)
                  ELSE {SlotOn(g, k, r[1], r[2])} : r \in ScheduleStop(g, k)}

------------------------------------------------------------------------------
(* Writes.                                                                 *)

(* Release arithmetic wraps, either way. *)
Decrement(x) == (x - 1) % Word
Increment(x) == (x + 1) % Word

(* The scheduler answers for the live count, moving its window. *)
Synced(g) == [g EXCEPT !.scheduler = Target(Batches[g.shape], @, g.len)]

(* A key stored in level l is recorded: its filter bits, its summary bit. *)
RecordMembership(g, k, l) ==
  [g EXCEPT !.filter = @ \cup FilterBits[g.shape][k],
            !.bins = @ \cup {<<BinOf[g.shape][k], LevelBit(l)>>}]

(* write_new_entry: the slot, its level's counters, the filter, the count. *)
WriteNewEntry(g, s, k, v) ==
  LET l == LevelAt(g, s)
  IN  [RecordMembership(g, k, l) EXCEPT
         !.ctrl[s] = k, !.data[s] = v, !.len = @ + 1, !.levelLen[l] = @ + 1,
         !.tombstones[l] = IF g.ctrl[s] = TOMBSTONE THEN Decrement(@) ELSE @]

(* The routes after position from up to position to, less the first probe of
   level 0, which lookups try ahead of the schedule. *)
Routes == [sh \in Shapes |-> (UNION {{l} \X Probes[l] : l \in Levels(sh)}) \ {<<0, 1>>}]
RoutesBetween(shape, from, to) ==
  {r \in Routes[shape] : Phi[r[1]][r[2]] > from /\ Phi[r[1]][r[2]] <= to}

(* Mutant: only the route placed on joins the schedule. *)
ExtendScheduleByOne(g, p) ==
  IF Phi[p.level][p.probe] <= g.highWater THEN g
  ELSE [g EXCEPT !.schedule = @ \cup ({<<p.level, p.probe>>} \ {<<0, 1>>}),
                 !.highWater = Phi[p.level][p.probe]]

(* extend_probe_schedule: every route of every level up to the placement's
   position, so that the schedule stays a prefix of the paper's order. *)
ExtendProbeSchedule(g, p) ==
  LET position == Phi[p.level][p.probe]
  IN  IF position <= g.highWater THEN g
      ELSE [g EXCEPT !.schedule = @ \cup RoutesBetween(g.shape, g.highWater, position),
                     !.highWater = position]

(* place_new_entry. *)
PlaceNewEntry(g, p, k, v) ==
  WriteNewEntry(ExtendProbeSchedule(g, p), SlotOn(g, k, p.level, p.probe), k, v)

(* Mutant: a placement outside the routes leaves the flag alone. *)
PlaceExceptionalUnflagged(g, s, k, v) == WriteNewEntry(g, s, k, v)

(* place_exceptional_entry. *)
PlaceExceptional(g, s, k, v) ==
  [WriteNewEntry(g, s, k, v) EXCEPT !.exceptional = TRUE]

(* tombstone_slot: the slot only, as a drain leaves it. *)
TombstoneSlot(g, s) == [g EXCEPT !.ctrl[s] = TOMBSTONE, !.data[s] = None]

(* Mutant: the level's live count is left alone. *)
ExtractFinishTableOnly(g, s) ==
  [TombstoneSlot(g, s) EXCEPT
     !.len = Decrement(@), !.tombstones[LevelAt(g, s)] = Increment(@), !.stale = @ + 1]

(* extract_finish: the slot, the counters of its level and of the table. *)
ExtractFinish(g, s) ==
  [TombstoneSlot(g, s) EXCEPT
     !.len = Decrement(@), !.levelLen[LevelAt(g, s)] = Decrement(@),
     !.tombstones[LevelAt(g, s)] = Increment(@), !.stale = @ + 1]

(* Levels drain_reset has come to the end of: their tombstones go. *)
ResetLevels(g, L) ==
  [g EXCEPT !.ctrl = [s \in Slot |-> IF s \in SlotsOf(g) /\ LevelAt(g, s) \in L
                                     THEN EMPTY ELSE @[s]],
            !.tombstones = [l \in Level |-> IF l \in L THEN 0 ELSE @[l]]]

(* One entry of drain_reset: taken and counted before its value drops, after
   the levels before its own were reset. *)
DrainResetEntry(g, s) ==
  [ResetLevels(g, {l \in Level : l < LevelAt(g, s)}) EXCEPT
     !.ctrl[s] = EMPTY, !.data[s] = None,
     !.len = Decrement(@), !.levelLen[LevelAt(g, s)] = Decrement(@)]

ClearMembership(g) == [g EXCEPT !.filter = {}, !.bins = {}, !.stale = 0]

(* reset_after_clear: scheduler, schedule and filter start over. *)
ResetAfterClear(g) ==
  [ClearMembership(g) EXCEPT
     !.scheduler = Sync(Batches[g.shape], @, 0),
     !.highWater = 0, !.exceptional = FALSE, !.schedule = {}]

(* clear, once nothing is left: the counters are where the drops left them. *)
FinishClear(g) == ResetAfterClear(ResetLevels(g, Level))

(* wipe_all: every control and every counter. *)
WipeAll(g) ==
  ResetAfterClear([g EXCEPT
     !.ctrl = [s \in Slot |-> EMPTY], !.data = [s \in Slot |-> None], !.len = 0,
     !.levelLen = [l \in Level |-> 0], !.tombstones = [l \in Level |-> 0]])

------------------------------------------------------------------------------
(* Limits.                                                                 *)

LevelNeedsCleanup(g, l) ==
  g.tombstones[l] > CleanupThreshold(LevelCapacity(g, l), GroupSize)
NeedsRefresh(g) == g.stale > MaxInsertions[g.shape]

(* The smallest shape from one on that admits so many entries, none when the
   request overflows; for_insert_budget, grow_capacity_for and shrink_to. *)
ShapeFor(from, needed) == First({sh \in from..LastShape : MaxInsertions[sh] >= needed})
==============================================================================
