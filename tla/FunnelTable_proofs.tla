------------------------- MODULE FunnelTable_proofs --------------------------
(***************************************************************************)
(* Theorems about FunnelTable, for every set of keys and values, every     *)
(* geometry, every walk, filter and bin a hasher may give the keys.        *)
(***************************************************************************)
EXTENDS FunnelTable, Common_proofs, SequenceTheorems, TLAPS

------------------------------------------------------------------------------
(* Types of epochs and of events.                                          *)

LEMMA EpochFacts ==
  /\ InitialEpoch \in Epoch
  /\ \A e \in Epoch : /\ NoteDelete(e) \in Epoch
                      /\ NotePlacementRecovery(e) \in Epoch
  /\ \A e \in Epoch, tr \in Transition :
        /\ StartOf(e, tr) \in Epoch
        /\ StartWithPlacementRecovery(e, tr) \in Epoch
        /\ \A recovered \in BOOLEAN : StartEpoch(e, tr, recovered) \in Epoch
<1>1. /\ \A x \in 0..GenMax : SaturatingSucc(x, GenMax) \in 0..GenMax
      /\ \A x \in 0..RecMax : SaturatingSucc(x, RecMax) \in 0..RecMax
      /\ \A x \in 0..DelMax : SaturatingSucc(x, DelMax) \in 0..DelMax
  BY WidthAssumption DEF SaturatingSucc
<1>2. InitialEpoch \in Epoch
  BY WidthAssumption DEF InitialEpoch, Epoch, Transition
<1>3. \A e \in Epoch : NoteDelete(e) \in Epoch /\ NotePlacementRecovery(e) \in Epoch
  BY <1>1 DEF NoteDelete, NotePlacementRecovery, Epoch
<1>4. \A e \in Epoch, tr \in Transition : StartOf(e, tr) \in Epoch
  BY <1>1, WidthAssumption DEF StartOf, Epoch
<1>5. \A e \in Epoch, tr \in Transition : StartWithPlacementRecovery(e, tr) \in Epoch
  BY <1>3, <1>4 DEF StartWithPlacementRecovery
<1> QED BY <1>2, <1>3, <1>4, <1>5 DEF StartEpoch

LEMMA EventFacts ==
  /\ Quiet \in Event
  /\ \A op \in Bulk : Bulky(op) \in Event
  /\ \A op \in {"get", "insert", "remove"}, k \in Keys,
        v \in Vals \cup {None}, answer \in Vals \cup {None} :
           Answered(op, k, v, answer) \in Event
BY DEF Quiet, Bulky, Answered, Event, Bulk

------------------------------------------------------------------------------
(* What the searches answer.                                               *)

LEMMA SlotFacts ==
  /\ MaxSlots \in Nat
  /\ Slot \subseteq Nat
  /\ \A sh \in Shapes : 1..SlotCount[sh] \subseteq Slot
  /\ 0 \in Shapes /\ LastShape \in Shapes
  /\ 0 \in Seeds
<1>1. 0 \in Shapes /\ LastShape \in Shapes
  BY ShapeAssumption DEF Shapes
<1>2. MaxSlots \in Nat
  BY <1>1, ShapeAssumption DEF MaxSlots
<1>3. \A sh \in Shapes : SlotCount[sh] \in Nat /\ SlotCount[sh] <= MaxSlots
  BY ShapeAssumption
<1>4. \A sh \in Shapes : 1..SlotCount[sh] \subseteq Slot
  BY <1>2, <1>3 DEF Slot
<1>5. 0 \in Seeds
  BY HashAssumption DEF Seeds
<1> QED BY <1>1, <1>2, <1>4, <1>5 DEF Slot

LEMMA WalkFacts ==
  ASSUME NEW g \in Generation, NEW p \in Seeds, NEW k \in Keys,
         NEW i \in DOMAIN Walk[g.shape][p][k]
  PROVE  /\ i \in Nat
         /\ Walk[g.shape][p][k][i] \in SlotsOf(g)
         /\ Walk[g.shape][p][k][i] \in Slot
<1>1. g.shape \in Shapes
  BY DEF Generation
<1>2. Walk[g.shape][p][k] \in Seq(1..SlotCount[g.shape])
  BY <1>1, HashAssumption
<1> DEFINE w == Walk[g.shape][p][k]
           n == SlotCount[g.shape]
<1>3. w \in Seq(1..n) /\ i \in DOMAIN w
  BY <1>2
<1> HIDE DEF w, n
<1>4. i \in 1..Len(w) /\ Len(w) \in Nat
  BY <1>3, LenProperties
<1>5. w[i] \in 1..n
  BY <1>3, <1>4, ElementOfSeq
<1> QED BY <1>1, <1>4, <1>5, SlotFacts DEF SlotsOf, w, n

(* A vacancy is a free slot of the table. *)
LEMMA VacancyIsFree ==
  ASSUME NEW g \in Generation, NEW p \in Seeds, NEW k \in Keys
  PROVE  /\ \A s \in SearchVacancy(g, p, k) : s \in SlotsOf(g) /\ Free(g, s)
         /\ \A clean \in BOOLEAN : \A s \in ExactVacancy(g, p, k, clean) :
              s \in SlotsOf(g) /\ Free(g, s)
         /\ \A s \in FirstFreeGlobal(g) : s \in SlotsOf(g) /\ Free(g, s)
         /\ SlotsOf(g) \subseteq Slot
<1>1. SlotsOf(g) \subseteq Slot
  BY SlotFacts DEF SlotsOf, Generation
<1>2. \A s \in SearchVacancy(g, p, k) : s \in SlotsOf(g) /\ Free(g, s)
  BY WalkFacts DEF SearchVacancy, First
<1>3. \A clean \in BOOLEAN : \A s \in ExactVacancy(g, p, k, clean) :
        s \in SlotsOf(g) /\ Free(g, s)
  BY WalkFacts DEF ExactVacancy, ScanReports, First, Free
<1>4. \A s \in FirstFreeGlobal(g) : s \in SlotsOf(g) /\ Free(g, s)
  BY DEF FirstFreeGlobal, First
<1> QED BY <1>1, <1>2, <1>3, <1>4

(* What a lookup finds is a slot that holds the key. *)
LEMMA HitHoldsKey ==
  ASSUME NEW g \in Generation, NEW k \in Keys
  PROVE  \A s \in FindLocation(g, k) \cup Locate(g, k) :
           s \in Slot /\ g.ctrl[s] = k
<1>1. g.seed \in Seeds /\ SlotsOf(g) \subseteq Slot
  BY SlotFacts DEF Generation, SlotsOf
<1>2. \A s \in ExactHit(g, g.seed, k) : s \in Slot /\ g.ctrl[s] = k
  BY <1>1, WalkFacts DEF ExactHit, ExactStop, First
<1>3. \A s \in LookupRecordedLevels(g, k) : s \in Slot /\ g.ctrl[s] = k
  BY <1>1, WalkFacts DEF LookupRecordedLevels, First
<1>4. \A s \in FullScan(g, k) : s \in Slot /\ g.ctrl[s] = k
  BY <1>1 DEF FullScan, First
<1> QED BY <1>2, <1>3, <1>4 DEF FindLocation, Locate

------------------------------------------------------------------------------
(* What the writes do to the fields a lookup reads.                        *)

(* h is g with key k recorded at slot s. *)
Recording(g, h, s, k) ==
  /\ h \in Generation
  /\ h.shape = g.shape /\ h.seed = g.seed
  /\ h.filter = g.filter \cup FilterBits[g.shape][k]
  /\ h.bins = g.bins \cup {<<BinOf[g.shape][k], LevelBit(g, s)>>}
  /\ h.exceptional = g.exceptional

(* h is g with key k stored in slot s. *)
Stored(g, h, s, k) ==
  /\ h \in Generation
  /\ h.shape = g.shape /\ h.seed = g.seed
  /\ h.ctrl = [g.ctrl EXCEPT ![s] = k]
  /\ h.filter = g.filter \cup FilterBits[g.shape][k]
  /\ h.bins = g.bins \cup {<<BinOf[g.shape][k], LevelBit(g, s)>>}

(* h is g with slot s emptied. *)
Emptied(g, h, s) ==
  /\ h \in Generation
  /\ h.shape = g.shape /\ h.seed = g.seed
  /\ h.ctrl = [g.ctrl EXCEPT ![s] = TOMBSTONE]
  /\ h.filter = g.filter /\ h.bins = g.bins
  /\ h.exceptional = g.exceptional

LEMMA LevelBitType ==
  ASSUME NEW g \in Generation, NEW s \in Slot
  PROVE  LevelBit(g, s) \in Level
<1>1. LevelOf[g.shape][s] \in Level
  BY HashAssumption DEF Generation
<1>2. OverflowLevel \in Level
  BY HashAssumption DEF Level
<1> QED BY <1>1, <1>2 DEF LevelBit

LEMMA CounterType == \A x \in Nat : Decrement(x) \in Nat /\ Increment(x) \in Nat
BY HashAssumption DEF Decrement, Increment

LEMMA RecordFacts ==
  ASSUME NEW g \in Generation, NEW s \in Slot, NEW k \in Keys
  PROVE  /\ Recording(g, RecordMembership(g, k, s), s, k)
         /\ RecordMembership(g, k, s).ctrl = g.ctrl
         /\ RecordMembership(g, k, s).data = g.data
<1> DEFINE filter == g.filter \cup FilterBits[g.shape][k]
           bins == g.bins \cup {<<BinOf[g.shape][k], LevelBit(g, s)>>}
           h == RecordMembership(g, k, s)
<1>1. h = [g EXCEPT !.filter = filter, !.bins = bins]
  BY DEF RecordMembership
<1>2. g.shape \in Shapes /\ FilterBits[g.shape][k] \subseteq Bits
  BY HashAssumption DEF Generation
<1>3. <<BinOf[g.shape][k], LevelBit(g, s)>> \in Bins \X Level
  BY <1>2, LevelBitType, HashAssumption
<1>4. filter \in SUBSET Bits /\ bins \in SUBSET (Bins \X Level)
  BY <1>2, <1>3 DEF Generation
<1> HIDE DEF filter, bins, h
<1>5. h \in Generation
  BY <1>1, <1>4 DEF Generation
<1>6. /\ h.shape = g.shape /\ h.seed = g.seed /\ h.ctrl = g.ctrl /\ h.data = g.data
      /\ h.filter = filter /\ h.bins = bins /\ h.exceptional = g.exceptional
  BY <1>1 DEF Generation
<1> QED BY <1>5, <1>6 DEF h, filter, bins, Recording

LEMMA PlaceFacts ==
  ASSUME NEW g \in Generation, NEW s \in Slot, NEW k \in Keys,
         NEW v \in Vals \cup {None}, NEW outside \in BOOLEAN
  PROVE  /\ Stored(g, PlaceNewEntry(g, s, k, v, outside), s, k)
         /\ PlaceNewEntry(g, s, k, v, outside).exceptional = (g.exceptional \/ outside)
<1> DEFINE r == RecordMembership(g, k, s)
           h == PlaceNewEntry(g, s, k, v, outside)
           ctrl == [g.ctrl EXCEPT ![s] = k]
           data == [g.data EXCEPT ![s] = v]
           fewer == IF g.ctrl[s] = TOMBSTONE THEN Decrement(r.tombstones) ELSE r.tombstones
           flag == r.exceptional \/ outside
<1>1. /\ r \in Generation
      /\ r.shape = g.shape /\ r.seed = g.seed /\ r.ctrl = g.ctrl /\ r.data = g.data
      /\ r.filter = g.filter \cup FilterBits[g.shape][k]
      /\ r.bins = g.bins \cup {<<BinOf[g.shape][k], LevelBit(g, s)>>}
      /\ r.exceptional = g.exceptional
  BY RecordFacts DEF Recording
<1>2. fewer \in Nat
  BY <1>1, CounterType DEF Generation
<1>3. ctrl \in [Slot -> Control] /\ data \in [Slot -> Vals \cup {None}]
  BY DEF Generation, Control
<1>4. r.len + 1 \in Nat /\ flag \in BOOLEAN /\ (flag = (g.exceptional \/ outside))
  BY <1>1 DEF Generation
<1>5. h = [r EXCEPT !.ctrl = ctrl, !.data = data, !.len = r.len + 1,
                    !.tombstones = fewer, !.exceptional = flag]
  BY <1>1 DEF PlaceNewEntry
<1> HIDE DEF r, h, ctrl, data, fewer, flag
<1>6. h \in Generation
  BY <1>1, <1>2, <1>3, <1>4, <1>5 DEF Generation
<1>7. h.exceptional = flag /\ h.ctrl = ctrl
      /\ h.shape = r.shape /\ h.seed = r.seed /\ h.filter = r.filter /\ h.bins = r.bins
  BY <1>1, <1>5 DEF Generation
<1>8. Stored(g, h, s, k)
  BY <1>1, <1>6, <1>7 DEF Stored, ctrl
<1> QED BY <1>4, <1>7, <1>8 DEF h

LEMMA RemoveFacts ==
  ASSUME NEW g \in Generation, NEW s \in Slot
  PROVE  /\ Emptied(g, TombstoneSlot(g, s), s)
         /\ Emptied(g, ExtractFinish(g, s), s)
         /\ Emptied(g, ClearSlot(g, s), s)
<1> DEFINE t == TombstoneSlot(g, s)
           ctrl == [g.ctrl EXCEPT ![s] = TOMBSTONE]
           data == [g.data EXCEPT ![s] = None]
           fewer == Decrement(t.len)
           more == Increment(t.tombstones)
<1>1. t = [g EXCEPT !.ctrl = ctrl, !.data = data]
  BY DEF TombstoneSlot
<1>2. ctrl \in [Slot -> Control] /\ data \in [Slot -> Vals \cup {None}]
  BY DEF Control, Generation
<1> HIDE DEF t, ctrl, data, fewer, more
<1>3. t \in Generation
  BY <1>1, <1>2 DEF Generation
<1>4. /\ t.shape = g.shape /\ t.seed = g.seed /\ t.ctrl = ctrl
      /\ t.filter = g.filter /\ t.bins = g.bins /\ t.exceptional = g.exceptional
  BY <1>1 DEF Generation
<1>5. fewer \in Nat /\ more \in Nat /\ t.stale + 1 \in Nat
  BY <1>3, CounterType DEF Generation, fewer, more
<1>6. Emptied(g, [t EXCEPT !.len = fewer, !.tombstones = more,
                           !.stale = t.stale + 1], s)
  <2> DEFINE h == [t EXCEPT !.len = fewer, !.tombstones = more,
                            !.stale = t.stale + 1]
  <2>1. h \in Generation
    BY <1>3, <1>5 DEF Generation
  <2>2. /\ h.shape = t.shape /\ h.seed = t.seed /\ h.ctrl = t.ctrl
        /\ h.filter = t.filter /\ h.bins = t.bins /\ h.exceptional = t.exceptional
    BY <1>3 DEF Generation
  <2> QED BY <1>4, <2>1, <2>2 DEF Emptied, ctrl
<1>7. Emptied(g, [t EXCEPT !.len = fewer, !.tombstones = more], s)
  <2> DEFINE h == [t EXCEPT !.len = fewer, !.tombstones = more]
  <2>1. h \in Generation
    BY <1>3, <1>5 DEF Generation
  <2>2. /\ h.shape = t.shape /\ h.seed = t.seed /\ h.ctrl = t.ctrl
        /\ h.filter = t.filter /\ h.bins = t.bins /\ h.exceptional = t.exceptional
    BY <1>3 DEF Generation
  <2> QED BY <1>4, <2>1, <2>2 DEF Emptied, ctrl
<1> QED BY <1>3, <1>4, <1>6, <1>7 DEF ExtractFinish, ClearSlot, Emptied, t, ctrl, fewer, more

LEMMA ResetFacts ==
  /\ \A sh \in Shapes, p \in Seeds :
       /\ Fresh(sh, p) \in Generation
       /\ Live(Fresh(sh, p)) = {}
       /\ Fresh(sh, p).shape = sh /\ Fresh(sh, p).seed = p
  /\ \A g \in Generation :
       /\ WipeAll(g) \in Generation
       /\ Live(WipeAll(g)) = {}
       /\ ClearMembership(g) \in Generation
       /\ ClearMembership(g).ctrl = g.ctrl
       /\ ClearMembership(g).shape = g.shape /\ ClearMembership(g).seed = g.seed
       /\ ClearMembership(g).exceptional = g.exceptional
<1>1. EMPTY \in Control /\ EMPTY \notin Keys
  BY FreeAssumption DEF Control
<1>2. ASSUME NEW sh \in Shapes, NEW p \in Seeds
      PROVE  /\ Fresh(sh, p) \in Generation
             /\ Live(Fresh(sh, p)) = {}
             /\ Fresh(sh, p).shape = sh /\ Fresh(sh, p).seed = p
  BY <1>1 DEF Fresh, Generation, Live
<1>3. ASSUME NEW g \in Generation
      PROVE  /\ ClearMembership(g) \in Generation
             /\ ClearMembership(g).ctrl = g.ctrl
             /\ ClearMembership(g).shape = g.shape /\ ClearMembership(g).seed = g.seed
             /\ ClearMembership(g).exceptional = g.exceptional
  BY DEF ClearMembership, Generation
<1>4. ASSUME NEW g \in Generation
      PROVE  WipeAll(g) \in Generation /\ Live(WipeAll(g)) = {}
  BY <1>1, <1>3 DEF WipeAll, Generation, Live
<1> QED BY <1>2, <1>3, <1>4

------------------------------------------------------------------------------
(* Type correctness.                                                       *)

(* An insert that waits for its rebuild or its placement has a key; after
   growth its probe is the seed the table still has. *)
PendingKey ==
  /\ call.at = "place" => call.then # "return"
  /\ call.at \in {"place", "rebuild"} /\ call.then # "return" => call.key \in Keys

PendingProbe ==
  call.at \in {"place", "rebuild"} /\ call.then = "grown" => call.probe = table.seed

TypeInv == TypeOK /\ PendingKey /\ PendingProbe

LEMMA CallFacts ==
  /\ Idle \in Call /\ Idle.at = "idle"
  /\ \A at \in At : /\ Scanning(at) \in Call
                    /\ Scanning(at).at = at /\ Scanning(at).then = "return"
                    /\ Scanning(at).cursor = 0
<1>1. Idle \in Call /\ Idle.at = "idle"
  BY SlotFacts DEF Idle, Call, At, Then, Transition
<1>2. ASSUME NEW at \in At
      PROVE  /\ Scanning(at) \in Call
             /\ Scanning(at).at = at /\ Scanning(at).then = "return"
             /\ Scanning(at).cursor = 0
  BY SlotFacts DEF Scanning, Idle, Call, Then, Transition
<1> QED BY <1>1, <1>2

LEMMA SearchesAreShapes ==
  /\ \A n : ForInsertBudget(n) \subseteq Shapes
  /\ \A g, n : NextGrowthShape(g, n) \subseteq Shapes
BY DEF NextGrowthShape, ForInsertBudget, First

LEMMA NextSeed == \A p \in Seeds : (p + 1) % SeedCount \in Seeds
BY HashAssumption DEF Seeds

(* What StartRebuild leaves behind. *)
LEMMA StartRebuildFacts ==
  ASSUME NEW old \in Generation, NEW shape \in Shapes, NEW tr \in Transition,
         NEW rest \in Call, StartRebuild(old, shape, tr, rest)
  PROVE  /\ previous' = old
         /\ table' \in Generation
         /\ Live(table)' = {}
         /\ tr # "PlacementRecovery" => table'.seed = old.seed
         /\ call' \in Call
         /\ call'.at = "rebuild" /\ call'.then = rest.then /\ call'.key = rest.key
         /\ call'.probe = rest.probe /\ call'.cursor = rest.cursor
<1> DEFINE seed == IF tr = "PlacementRecovery" THEN (old.seed + 1) % SeedCount
                                               ELSE old.seed
<1>1. seed \in Seeds
  BY NextSeed DEF Generation
<1>2. table' = Fresh(shape, seed)
  BY DEF StartRebuild
<1>3. call' = [rest EXCEPT !.at = "rebuild", !.transition = tr]
  BY DEF StartRebuild
<1>4. "rebuild" \in At
  BY DEF At, FaultPoints
<1>5. /\ call' \in Call
      /\ call'.at = "rebuild" /\ call'.then = rest.then /\ call'.key = rest.key
      /\ call'.probe = rest.probe /\ call'.cursor = rest.cursor
  BY <1>3, <1>4 DEF Call
<1> HIDE DEF seed
<1>6. /\ table' \in Generation /\ table'.seed = seed
      /\ Live(Fresh(shape, seed)) = {}
  BY <1>1, <1>2, ResetFacts
<1>7. Live(table)' = {}
  BY <1>2, <1>6 DEF Live
<1> QED BY <1>5, <1>6, <1>7 DEF StartRebuild, seed

------------------------------------------------------------------------------
(* What a step of an insert or of a removal does to the table and the call. *)

(* h holds what g holds, for every search. *)
Same(g, h) ==
  /\ h \in Generation
  /\ h.shape = g.shape /\ h.seed = g.seed /\ h.ctrl = g.ctrl
  /\ h.filter = g.filter /\ h.bins = g.bins /\ h.exceptional = g.exceptional

(* Slot s is on the walk of k, with no EMPTY slot and not itself before. *)
FirstOnWalk(g, k, s) ==
  LET w == Walk[g.shape][g.seed][k]
  IN  \E i \in DOMAIN w : /\ w[i] = s
                          /\ \A j \in 1..(i - 1) : w[j] # s /\ g.ctrl[w[j]] # EMPTY

(* A vacancy a walk may report for k. *)
Vacancy(g, k, s) == s \in SlotsOf(g) /\ Free(g, s) /\ FirstOnWalk(g, k, s)

(* h is g with k placed in a vacancy of its walk, or elsewhere and flagged. *)
Placed(g, h, s, k) ==
  /\ s \in SlotsOf(g) /\ Free(g, s)
  /\ Stored(g, h, s, k)
  /\ g.exceptional => h.exceptional
  /\ h.exceptional \/ FirstOnWalk(g, k, s)

(* A rebuild of old has begun. *)
Rebuilding(old) ==
  /\ previous' = old
  /\ Live(table)' = {}
  /\ call'.at = "rebuild" /\ call'.cursor = 0

(* An insert of the absent key k goes on. *)
Inserted(k) ==
  \/ call' = Idle /\ \E s \in Slot : Placed(table, table', s, k)
  \/ Rebuilding(table) /\ call'.key = k /\ call'.then # "return"

LEMMA VacancyFacts ==
  ASSUME NEW g \in Generation, NEW k \in Keys
  PROVE  /\ \A s \in SearchVacancy(g, g.seed, k) : Vacancy(g, k, s)
         /\ \A clean \in BOOLEAN : \A s \in ExactVacancy(g, g.seed, k, clean) :
              Vacancy(g, k, s)
<1> DEFINE w == Walk[g.shape][g.seed][k]
<1>1. g.seed \in Seeds
  BY DEF Generation
<1>2. /\ \A i \in DOMAIN w : i \in Nat /\ \A j \in 1..(i - 1) : j \in DOMAIN w /\ j < i
      /\ \A i \in DOMAIN w : w[i] \in Slot
  <2>1. w \in Seq(1..SlotCount[g.shape])
    BY <1>1, HashAssumption DEF Generation
  <2>2. DOMAIN w = 1..Len(w) /\ Len(w) \in Nat
    BY <2>1, LenProperties
  <2> QED BY <1>1, <2>2, WalkFacts
<1>3. ASSUME NEW s \in SearchVacancy(g, g.seed, k)
      PROVE  FirstOnWalk(g, k, s)
  <2>1. PICK i \in DOMAIN w : /\ w[i] = s /\ Free(g, w[i])
                              /\ \A j \in DOMAIN w : Free(g, w[j]) => i <= j
    BY <1>3 DEF SearchVacancy, First
  <2>2. \A j \in 1..(i - 1) : ~Free(g, w[j])
    BY <1>2, <2>1
  <2> QED BY <2>1, <2>2 DEF FirstOnWalk, Free
<1>4. ASSUME NEW clean \in BOOLEAN, NEW s \in ExactVacancy(g, g.seed, k, clean)
      PROVE  FirstOnWalk(g, k, s)
  <2> DEFINE stop == ExactStop(g, g.seed, k)
             reported(i) == /\ \A j \in stop : i <= j
                            /\ ScanReports(g, w[i], clean)
  <2>1. PICK i \in DOMAIN w : /\ w[i] = s /\ reported(i)
                              /\ \A j \in DOMAIN w : reported(j) => i <= j
    BY <1>4 DEF ExactVacancy, First
  <2>2. stop \subseteq DOMAIN w
    BY DEF ExactStop, First
  <2>3. \A j \in 1..(i - 1) : ~ScanReports(g, w[j], clean)
    BY <1>2, <2>1, <2>2
  <2> QED BY <2>1, <2>3 DEF FirstOnWalk, ScanReports
<1> QED BY <1>1, <1>3, <1>4, VacancyIsFree DEF Vacancy

LEMMA PlaceNewEntryFacts ==
  ASSUME NEW g \in Generation, NEW k \in Keys, NEW v \in Vals \cup {None},
         NEW vacancy, \A s \in vacancy : Vacancy(g, k, s),
         NEW s \in ResolveVacancy(g, vacancy)
  PROVE  s \in Slot /\ Placed(g, PlaceNewEntry(g, s, k, v, vacancy = {}), s, k)
<1>1. s \in Slot /\ s \in SlotsOf(g) /\ Free(g, s)
  BY VacancyIsFree, SlotFacts DEF ResolveVacancy, Vacancy, Generation
<1>2. vacancy # {} => FirstOnWalk(g, k, s)
  BY DEF ResolveVacancy, Vacancy
<1> DEFINE outside == vacancy = {}
<1>3. outside \in BOOLEAN
  OBVIOUS
<1> HIDE DEF outside
<1>4. /\ Stored(g, PlaceNewEntry(g, s, k, v, outside), s, k)
      /\ PlaceNewEntry(g, s, k, v, outside).exceptional = (g.exceptional \/ outside)
  BY <1>1, <1>3, PlaceFacts
<1> QED BY <1>1, <1>2, <1>4 DEF Placed, outside

LEMMA PlaceResolvedFacts ==
  ASSUME TypeInv, call.at \in {"idle", "place"},
         NEW k \in Keys, NEW v \in Vals \cup {None}, NEW rebuilt \in BOOLEAN,
         NEW vacancy, \A s \in vacancy : Vacancy(table, k, s),
         PlaceResolved(k, v, vacancy, rebuilt)
  PROVE  TypeInv' /\ Inserted(k)
<1>1. /\ table \in Generation /\ epoch \in Epoch /\ previous = None
      /\ call' = Idle /\ previous' = previous
      /\ event' = Answered("insert", k, v, None)
  BY DEF TypeInv, TypeOK, PlaceResolved
<1>2. PICK s \in ResolveVacancy(table, vacancy) :
         table' = PlaceNewEntry(table, s, k, v, vacancy = {})
  BY DEF PlaceResolved
<1>3. s \in Slot /\ Placed(table, table', s, k)
  BY <1>1, <1>2, PlaceNewEntryFacts
<1>4. table' \in Generation
  BY <1>3 DEF Placed, Stored
<1>5. epoch' \in Epoch
  BY <1>1, EpochFacts DEF PlaceResolved, Transition
<1>6. event' \in Event
  BY <1>1, EventFacts
<1>7. TypeInv'
  BY <1>1, <1>4, <1>5, <1>6, CallFacts DEF TypeInv, TypeOK, PendingKey, PendingProbe
<1> QED BY <1>1, <1>3, <1>7 DEF Inserted

(* A rebuild begun for an insert, or for a call that is over when it ends. *)
LEMMA BeginRebuildFacts ==
  ASSUME NEW old \in Generation, NEW shape \in Shapes, NEW tr \in Transition,
         NEW rest \in Call, StartRebuild(old, shape, tr, rest),
         rest.cursor = 0,
         rest.then # "return" => rest.key \in Keys,
         rest.then = "grown" => rest.probe = old.seed /\ tr # "PlacementRecovery",
         epoch' \in Epoch, event' \in Event
  PROVE  /\ TypeInv' /\ Rebuilding(old)
         /\ call'.key = rest.key /\ call'.then = rest.then
BY StartRebuildFacts DEF TypeInv, TypeOK, PendingKey, PendingProbe, Rebuilding

LEMMA PlaceAbsentFacts ==
  ASSUME TypeInv, call.at \in {"idle", "place"},
         NEW k \in Keys, NEW v \in Vals \cup {None},
         NEW vacancy, \A s \in vacancy : Vacancy(table, k, s),
         PlaceAbsent(k, v, vacancy)
  PROVE  TypeInv' /\ Inserted(k)
<1> DEFINE rest == [Idle EXCEPT !.then = "recovered", !.key = k, !.val = v]
<1>1. rest \in Call /\ rest.cursor = 0 /\ rest.then = "recovered" /\ rest.key = k
  BY SlotFacts DEF Idle, Call, At, Then, Transition
<1>2. table \in Generation /\ table.shape \in Shapes /\ epoch \in Epoch
  BY DEF TypeInv, TypeOK, Generation
<1> HIDE DEF rest
<1>3. CASE /\ StartRebuild(table, table.shape, "PlacementRecovery", rest)
           /\ event' = Quiet /\ UNCHANGED epoch
  <2>1. "PlacementRecovery" \in Transition /\ epoch' \in Epoch /\ event' \in Event
    BY <1>2, <1>3, EventFacts DEF Transition
  <2> QED BY <1>1, <1>2, <1>3, <2>1, BeginRebuildFacts DEF Inserted
<1>4. CASE PlaceResolved(k, v, vacancy, FALSE)
  BY <1>4, PlaceResolvedFacts
<1> QED BY <1>3, <1>4 DEF PlaceAbsent, rest

LEMMA InsertAbsentFacts ==
  ASSUME TypeInv, call = Idle,
         NEW k \in Keys, NEW v \in Vals,
         NEW vacancy, \A s \in vacancy : Vacancy(table, k, s),
         InsertAbsent(k, v, vacancy)
  PROVE  TypeInv' /\ Inserted(k)
<1> DEFINE rest == [Idle EXCEPT !.then = "grown", !.key = k, !.val = v,
                                !.probe = table.seed]
<1>1. table \in Generation /\ table.seed \in Seeds /\ epoch \in Epoch
  BY DEF TypeInv, TypeOK, Generation
<1>2. /\ rest \in Call /\ rest.cursor = 0 /\ rest.then = "grown" /\ rest.key = k
      /\ rest.probe = table.seed
  BY <1>1 DEF Idle, Call, At, Then, Transition
<1> HIDE DEF rest
<1>3. ASSUME NEW shape \in NextGrowthShape(table, table.len + 1),
             StartRebuild(table, shape, "Growth", rest),
             event' = Quiet, UNCHANGED epoch
      PROVE  TypeInv' /\ Inserted(k)
  <2>1. /\ shape \in Shapes /\ "Growth" \in Transition
        /\ epoch' \in Epoch /\ event' \in Event
    BY <1>1, <1>3, SearchesAreShapes, EventFacts DEF Transition
  <2> QED BY <1>1, <1>2, <1>3, <2>1, BeginRebuildFacts DEF Inserted
<1>4. CASE PlaceAbsent(k, v, vacancy)
  BY <1>4, CallFacts, PlaceAbsentFacts
<1> QED BY <1>3, <1>4 DEF InsertAbsent, rest

LEMMA InsertFacts ==
  ASSUME TypeInv, NEW k \in Keys, NEW v \in Vals, Insert(k, v) \/ EntryOrInsert(k, v)
  PROVE  /\ TypeInv' /\ call = Idle
         /\ \/ Locate(table, k) = {} /\ Inserted(k)
            \/ Same(table, table') /\ UNCHANGED <<previous, call>>
<1> DEFINE hit == Locate(table, k)
<1>1. table \in Generation /\ table.seed \in Seeds /\ call = Idle
  BY DEF TypeInv, TypeOK, Generation, Insert, EntryOrInsert
<1>2. \A s \in hit : s \in Slot /\ table.data[s] \in Vals \cup {None}
  BY <1>1, HitHoldsKey DEF Generation
<1>3. ASSUME NEW s \in hit, table' = [table EXCEPT !.data[s] = v],
             event' = Answered("insert", k, v, table.data[s]),
             UNCHANGED <<previous, call, epoch>>
      PROVE  TypeInv' /\ Same(table, table')
  <2> DEFINE data == [table.data EXCEPT ![s] = v]
  <2>1. data \in [Slot -> Vals \cup {None}] /\ table' = [table EXCEPT !.data = data]
    BY <1>1, <1>2, <1>3 DEF Generation
  <2> HIDE DEF data
  <2>2. Same(table, table')
    BY <1>1, <2>1 DEF Generation, Same
  <2>3. event' \in Event
    BY <1>2, <1>3, EventFacts
  <2> QED BY <1>1, <1>3, <2>2, <2>3
          DEF TypeInv, TypeOK, PendingKey, PendingProbe, Same
<1>4. ASSUME NEW s \in hit, event' = Answered("get", k, None, table.data[s]),
             UNCHANGED <<table, previous, call, epoch>>
      PROVE  TypeInv' /\ Same(table, table')
  <2>1. event' \in Event
    BY <1>2, <1>4, EventFacts
  <2> QED BY <1>1, <1>4, <2>1 DEF TypeInv, TypeOK, PendingKey, PendingProbe, Same
<1>5. ASSUME hit = {}, NEW clean \in BOOLEAN,
             InsertAbsent(k, v, IF GatePasses(table, k)
                                THEN ExactVacancy(table, table.seed, k, clean)
                                ELSE SearchVacancy(table, table.seed, k))
      PROVE  TypeInv' /\ Inserted(k)
  BY <1>1, <1>5, VacancyFacts, InsertAbsentFacts
<1>6. (table.tombstones = 0) \in BOOLEAN /\ FALSE \in BOOLEAN
  OBVIOUS
<1>7. CASE Insert(k, v)
  BY <1>1, <1>3, <1>5, <1>6, <1>7 DEF Insert
<1>8. CASE EntryOrInsert(k, v)
  BY <1>1, <1>4, <1>5, <1>6, <1>8 DEF EntryOrInsert
<1> QED BY <1>7, <1>8

LEMMA ResumePlaceFacts ==
  ASSUME TypeInv, ResumePlace
  PROVE  TypeInv' /\ call.at = "place" /\ Inserted(call.key)
<1>1. /\ call.at = "place" /\ call.key \in Keys /\ call.val \in Vals \cup {None}
      /\ table \in Generation
      /\ call.then = "grown" => call.probe = table.seed
  BY DEF TypeInv, TypeOK, PendingKey, PendingProbe, ResumePlace, Call
<1>2. \A s \in SearchVacancy(table, table.seed, call.key) : Vacancy(table, call.key, s)
  BY <1>1, VacancyFacts
<1>3. CASE /\ call.then = "grown"
           /\ PlaceAbsent(call.key, call.val, SearchVacancy(table, call.probe, call.key))
  BY <1>1, <1>2, <1>3, PlaceAbsentFacts
<1>4. CASE PlaceResolved(call.key, call.val,
                         SearchVacancy(table, table.seed, call.key), TRUE)
  BY <1>1, <1>2, <1>4, PlaceResolvedFacts
<1> QED BY <1>1, <1>3, <1>4 DEF ResumePlace

LEMMA SettleFacts ==
  ASSUME TypeInv, call.at # "rebuild", NEW g \in Generation, Settle(g),
         epoch' \in Epoch, event' \in Event
  PROVE  /\ TypeInv'
         /\ \/ Rebuilding(g) /\ call'.then = "return"
            \/ table' = ClearMembership(g) /\ call' = Scanning("refresh")
            \/ table' = g /\ call' = Idle
<1>1. previous = None /\ g.shape \in Shapes
  BY DEF TypeInv, TypeOK, Generation
<1>2. CASE StartRebuild(g, g.shape, "TombstoneCleanup", Idle)
  <2>1. /\ "TombstoneCleanup" \in Transition
        /\ Idle \in Call /\ Idle.cursor = 0 /\ Idle.then = "return"
    BY CallFacts DEF Transition, Idle
  <2> QED BY <1>1, <1>2, <2>1, BeginRebuildFacts
<1>3. CASE /\ table' = ClearMembership(g) /\ call' = Scanning("refresh")
           /\ UNCHANGED previous
  <2>1. "refresh" \in At
    BY DEF At, FaultPoints
  <2>2. table' \in Generation
    BY <1>3, ResetFacts
  <2> QED BY <1>1, <1>3, <2>1, <2>2, CallFacts
          DEF TypeInv, TypeOK, PendingKey, PendingProbe
<1>4. CASE table' = g /\ call' = Idle /\ UNCHANGED previous
  BY <1>1, <1>4, CallFacts DEF TypeInv, TypeOK, PendingKey, PendingProbe
<1> QED BY <1>2, <1>3, <1>4 DEF Settle

LEMMA NextLiveFacts ==
  ASSUME NEW g \in Generation, call \in Call, NEW s \in NextLive(g)
  PROVE  /\ s \in Live(g) /\ s \in Slot /\ g.ctrl[s] \in Keys
         /\ s \in Nat /\ s > call.cursor
         /\ \A t \in Live(g) : t > call.cursor => s <= t
BY SlotFacts DEF NextLive, First, Live

LEMMA RebuildStepFacts ==
  ASSUME TypeInv, RebuildStep
  PROVE  /\ TypeInv' /\ call.at = "rebuild" /\ previous' = previous
         /\ call'.at = "rebuild" /\ call'.then = call.then /\ call'.key = call.key
         /\ \E s \in NextLive(previous), t \in Slot :
               /\ call'.cursor = s
               /\ Placed(table, table', t, previous.ctrl[s])
<1>1. /\ call.at = "rebuild" /\ call \in Call
      /\ table \in Generation /\ previous \in Generation
      /\ UNCHANGED <<previous, epoch, event>>
  BY DEF RebuildStep, TypeInv, TypeOK
<1> DEFINE k(s) == previous.ctrl[s]
           vacancy(s) == SearchVacancy(table, table.seed, k(s))
<1>2. PICK s \in NextLive(previous) : \E t \in ResolveVacancy(table, vacancy(s)) :
        /\ table' = PlaceNewEntry(table, t, k(s), previous.data[s], vacancy(s) = {})
        /\ call' = [call EXCEPT !.cursor = s, !.recovered = @ \/ vacancy(s) = {}]
  BY DEF RebuildStep
<1>3. s \in Nat /\ k(s) \in Keys /\ previous.data[s] \in Vals \cup {None}
  BY <1>1, NextLiveFacts DEF Generation
<1>4. \E t \in Slot : Placed(table, table', t, k(s))
  BY <1>1, <1>2, <1>3, VacancyFacts, PlaceNewEntryFacts
<1> DEFINE recovered == call.recovered \/ vacancy(s) = {}
<1>5. recovered \in BOOLEAN /\ call' = [call EXCEPT !.cursor = s, !.recovered = recovered]
  BY <1>2
<1> HIDE DEF recovered
<1>6. /\ call' \in Call
      /\ call'.at = "rebuild" /\ call'.then = call.then /\ call'.key = call.key
      /\ call'.probe = call.probe /\ call'.cursor = s
  BY <1>1, <1>3, <1>5 DEF Call
<1>7. table' \in Generation /\ table'.seed = table.seed
  BY <1>4 DEF Placed, Stored
<1>8. TypeInv'
  BY <1>1, <1>6, <1>7 DEF TypeInv, TypeOK, PendingKey, PendingProbe
<1> QED BY <1>1, <1>2, <1>4, <1>6, <1>8

(* The state of a call between its steps, and of the variables no search
   reads, keep their types through every step that ends or continues a call
   without a rebuild. *)
LEMMA PlainStepType ==
  ASSUME TypeInv, call.at # "rebuild", table' \in Generation,
         call' \in Call, call'.at \notin {"rebuild", "place"},
         UNCHANGED previous, epoch' \in Epoch, event' \in Event
  PROVE  TypeInv'
BY DEF TypeInv, TypeOK, PendingKey, PendingProbe

LEMMA TypeInit == Init => TypeInv
<1> SUFFICES ASSUME Init PROVE TypeInv
  OBVIOUS
<1>1. PICK shape \in Shapes : table = Fresh(shape, 0)
  BY DEF Init
<1>2. table \in Generation
  BY <1>1, SlotFacts, ResetFacts
<1> QED BY <1>2, CallFacts, EpochFacts, EventFacts
        DEF Init, TypeInv, TypeOK, PendingKey, PendingProbe

LEMMA TypeNext == TypeInv /\ [Next]_vars => TypeInv'
<1> SUFFICES ASSUME TypeInv, [Next]_vars PROVE TypeInv'
  OBVIOUS
<1>1. /\ table \in Generation /\ call \in Call /\ epoch \in Epoch /\ event \in Event
      /\ call.at # "rebuild" => previous = None
      /\ call.at = "rebuild" => previous \in Generation
  BY DEF TypeInv, TypeOK
<1>2. Idle \in Call /\ Idle.at = "idle" /\ Quiet \in Event
  BY CallFacts, EventFacts
<1>3. ASSUME NEW k \in Keys, NEW v \in Vals, Insert(k, v) \/ EntryOrInsert(k, v)
      PROVE  TypeInv'
  BY <1>3, InsertFacts
<1>4. ASSUME NEW k \in Keys, Get(k) PROVE TypeInv'
  <2> DEFINE answer == LET found == FindLocation(table, k)
                       IN  IF found = {} THEN None
                           ELSE table.data[CHOOSE s \in found : TRUE]
  <2>1. answer \in Vals \cup {None}
    BY <1>1, HitHoldsKey DEF Generation
  <2>2. event' = Answered("get", k, None, answer)
    BY <1>4 DEF Get
  <2> HIDE DEF answer
  <2>3. event' \in Event
    BY <2>1, <2>2, EventFacts
  <2> QED BY <1>1, <1>2, <1>4, <2>3, PlainStepType DEF Get
<1>5. ASSUME NEW k \in Keys, Remove(k) PROVE TypeInv'
  <2>1. call = Idle
    BY <1>5 DEF Remove
  <2>2. ASSUME NEW s \in FindLocation(table, k) \cup Locate(table, k),
               event' = Answered("remove", k, None, table.data[s]),
               epoch' = NoteDelete(epoch), Settle(ExtractFinish(table, s))
        PROVE  TypeInv'
    <3>1. s \in Slot /\ table.data[s] \in Vals \cup {None}
      BY <1>1, HitHoldsKey DEF Generation
    <3>2. ExtractFinish(table, s) \in Generation
      BY <1>1, <3>1, RemoveFacts DEF Emptied
    <3>3. event' \in Event /\ epoch' \in Epoch
      BY <1>1, <2>2, <3>1, EventFacts, EpochFacts
    <3> QED BY <1>2, <2>1, <2>2, <3>2, <3>3, SettleFacts
  <2>3. CASE /\ event' = Answered("remove", k, None, None)
             /\ UNCHANGED <<table, previous, call, epoch>>
    <3>1. event' \in Event
      BY <2>3, EventFacts
    <3> QED BY <1>1, <1>2, <2>1, <2>3, <3>1, PlainStepType
  <2> QED BY <1>5, <2>2, <2>3 DEF Remove
<1>6. ASSUME NEW at \in {"clear", "drain", "extract"}, StartScan(at) PROVE TypeInv'
  <2>1. at \in At /\ at \in Bulk /\ at \notin {"rebuild", "place"}
    BY DEF At, FaultPoints, Bulk
  <2>2. call' \in Call /\ call'.at = at /\ event' \in Event
    BY <1>6, <2>1, CallFacts, EventFacts DEF StartScan
  <2> QED BY <1>1, <1>2, <1>6, <2>1, <2>2, PlainStepType DEF StartScan
<1>7. ASSUME NEW n \in 0..MaxInsertions[LastShape], Reserve(n) \/ ShrinkTo(n)
      PROVE  TypeInv'
  <2>1. PICK shape \in Shapes : StartRebuild(table, shape, "ExplicitResize", Idle)
    BY <1>7, SearchesAreShapes DEF Reserve, ShrinkTo
  <2>2. "ExplicitResize" \in Transition /\ Idle.cursor = 0 /\ Idle.then = "return"
    BY DEF Transition, Idle
  <2>3. epoch' \in Epoch /\ event' \in Event
    BY <1>1, <1>2, <1>7 DEF Reserve, ShrinkTo
  <2> QED BY <1>1, <1>2, <2>1, <2>2, <2>3, BeginRebuildFacts
<1>8. CASE RebuildStep
  BY <1>8, RebuildStepFacts
<1>9. CASE RebuildPanic
  BY <1>1, <1>2, <1>9 DEF RebuildPanic, TypeInv, TypeOK, PendingKey, PendingProbe
<1>10. CASE RebuildCommit
  <2>1. epoch' \in Epoch
    BY <1>1, <1>10, EpochFacts DEF RebuildCommit, Call
  <2>2. CASE call.then = "return"
    BY <1>1, <1>2, <1>10, <2>1, <2>2
       DEF RebuildCommit, TypeInv, TypeOK, PendingKey, PendingProbe
  <2>3. CASE call.then # "return"
    <3>1. call' = [call EXCEPT !.at = "place"] /\ "place" \in At
      BY <1>10, <2>3 DEF RebuildCommit, At
    <3>2. /\ call' \in Call /\ call'.at = "place" /\ call'.then = call.then
          /\ call'.key = call.key /\ call'.probe = call.probe
      BY <1>1, <3>1 DEF Call
    <3> QED BY <1>1, <1>10, <2>1, <2>3, <3>2
            DEF RebuildCommit, TypeInv, TypeOK, PendingKey, PendingProbe
  <2> QED BY <2>2, <2>3
<1>11. CASE ResumePlace
  BY <1>11, ResumePlaceFacts
<1>12. CASE RefreshStep
  <2>1. PICK s \in NextLive(table) : /\ table' = RecordMembership(table, table.ctrl[s], s)
                                     /\ call' = [call EXCEPT !.cursor = s]
    BY <1>12 DEF RefreshStep
  <2>2. s \in Slot /\ s \in Nat /\ table.ctrl[s] \in Keys
    BY <1>1, NextLiveFacts
  <2>3. table' \in Generation /\ call' \in Call /\ call'.at = call.at
    BY <1>1, <2>1, <2>2, RecordFacts DEF Recording, Call
  <2> QED BY <1>1, <1>12, <2>3, PlainStepType DEF RefreshStep
<1>13. CASE RefreshDone \/ RefreshPanic \/ DrainAbandon \/ ExtractForget
  BY <1>1, <1>2, <1>13, PlainStepType
     DEF RefreshDone, RefreshPanic, DrainAbandon, ExtractForget
<1>14. CASE ClearStep \/ DrainStep
  <2>1. PICK s \in NextLive(table) : table' \in {ClearSlot(table, s), TombstoneSlot(table, s)}
    BY <1>14 DEF ClearStep, DrainStep
  <2>2. table' \in Generation
    BY <1>1, <2>1, NextLiveFacts, RemoveFacts DEF Emptied
  <2> QED BY <1>1, <1>2, <1>14, <2>2, PlainStepType DEF ClearStep, DrainStep
<1>15. CASE Wipe
  <2>1. table' \in Generation /\ epoch' \in Epoch
    BY <1>1, <1>15, ResetFacts, EpochFacts DEF Wipe, Transition
  <2> QED BY <1>1, <1>2, <1>15, <2>1, PlainStepType DEF Wipe
<1>16. CASE ExtractStep
  <2>1. PICK s \in NextLive(table) :
          /\ call' = [call EXCEPT !.cursor = s]
          /\ \/ UNCHANGED <<table, epoch>>
             \/ table' = ExtractFinish(table, s) /\ epoch' = NoteDelete(epoch)
    BY <1>16 DEF ExtractStep
  <2>2. s \in Slot /\ s \in Nat
    BY <1>1, NextLiveFacts
  <2>3. call' \in Call /\ call'.at = call.at
    BY <1>1, <2>1, <2>2 DEF Call
  <2>4. table' \in Generation /\ epoch' \in Epoch
    BY <1>1, <2>1, <2>2, RemoveFacts, EpochFacts DEF Emptied
  <2> QED BY <1>1, <1>16, <2>3, <2>4, PlainStepType DEF ExtractStep
<1>17. CASE ExtractEnd
  BY <1>1, <1>2, <1>17, SettleFacts DEF ExtractEnd
<1>18. CASE UNCHANGED vars
  BY <1>18 DEF vars, TypeInv, TypeOK, PendingKey, PendingProbe
<1> QED BY <1>3, <1>4, <1>5, <1>6, <1>7, <1>8, <1>9, <1>10, <1>11, <1>12, <1>13,
           <1>14, <1>15, <1>16, <1>17, <1>18 DEF Next, Begin, Progress, Fault

(* Every reachable state is well typed; an old generation is kept exactly
   while a rebuild runs, and a pending insert knows its key and its probe. *)
THEOREM TypeCorrect == Spec => []TypeOK
<1>1. TypeInv => TypeOK
  BY DEF TypeInv
<1> QED BY <1>1, TypeInit, TypeNext, PTL DEF Spec

(* The same for the strengthened invariant, for later proofs. *)
THEOREM TypeInvariant == Spec => []TypeInv
BY TypeInit, TypeNext, PTL DEF Spec

------------------------------------------------------------------------------
(* No EMPTY slot before a live key, whatever faults happen.                *)

(* Every live key is in the slots of its shape and on its walk, or the
   generation is flagged for full scans. *)
Reach(g) ==
  \A s \in Live(g) : s \in SlotsOf(g) /\ (g.exceptional \/ OnWalk(g, s))

ReachInv == Reach(table) /\ (call.at = "rebuild" => Reach(previous))

LEMMA ReachEmpty == \A g : Live(g) = {} => Reach(g)
BY DEF Reach

(* The slots before one on a walk are slots of the table. *)
LEMMA WalkPrefix ==
  ASSUME NEW g \in Generation, NEW k \in Keys,
         NEW i \in DOMAIN Walk[g.shape][g.seed][k]
  PROVE  /\ i \in Nat
         /\ \A j \in 1..(i - 1) : /\ j \in DOMAIN Walk[g.shape][g.seed][k]
                                  /\ Walk[g.shape][g.seed][k][j] \in Slot
<1> DEFINE w == Walk[g.shape][g.seed][k]
<1>1. g.seed \in Seeds /\ w \in Seq(1..SlotCount[g.shape])
  BY HashAssumption DEF Generation
<1>2. DOMAIN w = 1..Len(w) /\ Len(w) \in Nat
  BY <1>1, LenProperties
<1>3. i \in Nat /\ \A j \in 1..(i - 1) : j \in DOMAIN w
  BY <1>2
<1> QED BY <1>1, <1>3, WalkFacts

(* Only TOMBSTONE ever replaces a key, and nothing becomes EMPTY. *)
LEMMA ReachKept ==
  ASSUME NEW g \in Generation, NEW h \in Generation, Reach(g),
         h.shape = g.shape, h.seed = g.seed, h.exceptional = g.exceptional,
         \A s \in Slot : h.ctrl[s] = g.ctrl[s] \/ h.ctrl[s] = TOMBSTONE
  PROVE  Reach(h)
<1> SUFFICES ASSUME NEW s \in Live(h)
             PROVE  s \in SlotsOf(h) /\ (h.exceptional \/ OnWalk(h, s))
  BY DEF Reach
<1>1. s \in Slot /\ h.ctrl[s] = g.ctrl[s] /\ g.ctrl[s] \in Keys /\ s \in Live(g)
  BY FreeAssumption DEF Live
<1>2. s \in SlotsOf(h) /\ (h.exceptional \/ OnWalk(g, s))
  BY <1>1 DEF Reach, SlotsOf
<1>3. ASSUME OnWalk(g, s) PROVE OnWalk(h, s)
  <2> DEFINE w == Walk[g.shape][g.seed][g.ctrl[s]]
  <2>1. PICK i \in DOMAIN w :
          w[i] = s /\ \A j \in 1..(i - 1) : w[j] # s /\ g.ctrl[w[j]] # EMPTY
    BY <1>3 DEF OnWalk
  <2>2. \A j \in 1..(i - 1) : h.ctrl[w[j]] # EMPTY
    BY <1>1, <2>1, WalkPrefix, FreeAssumption
  <2> QED BY <1>1, <2>1, <2>2 DEF OnWalk
<1> QED BY <1>2, <1>3

(* A placement keeps every other key where it was, and takes no EMPTY slot
   out of order. *)
LEMMA ReachPlaced ==
  ASSUME NEW g \in Generation, NEW h, NEW s \in Slot, NEW k \in Keys,
         Reach(g), Placed(g, h, s, k)
  PROVE  h \in Generation /\ Reach(h)
<1>1. /\ h \in Generation
      /\ h.shape = g.shape /\ h.seed = g.seed
      /\ g.exceptional => h.exceptional
      /\ s \in SlotsOf(g) /\ Free(g, s)
      /\ h.exceptional \/ FirstOnWalk(g, k, s)
  BY DEF Placed, Stored
<1>2. /\ h.ctrl[s] = k
      /\ \A t \in Slot : t # s => h.ctrl[t] = g.ctrl[t]
      /\ \A t \in Slot : g.ctrl[t] # EMPTY => h.ctrl[t] # EMPTY
  BY FreeAssumption DEF Placed, Stored, Generation
<1>3. ASSUME NEW t \in Live(h), t # s, ~h.exceptional
      PROVE  t \in SlotsOf(h) /\ OnWalk(h, t)
  <2>1. t \in Slot /\ h.ctrl[t] = g.ctrl[t] /\ g.ctrl[t] \in Keys /\ t \in Live(g)
    BY <1>2, <1>3 DEF Live
  <2>2. t \in SlotsOf(g) /\ OnWalk(g, t)
    BY <1>1, <1>3, <2>1 DEF Reach
  <2> DEFINE w == Walk[g.shape][g.seed][g.ctrl[t]]
  <2>3. PICK i \in DOMAIN w :
          w[i] = t /\ \A j \in 1..(i - 1) : w[j] # t /\ g.ctrl[w[j]] # EMPTY
    BY <2>2 DEF OnWalk
  <2>4. \A j \in 1..(i - 1) : h.ctrl[w[j]] # EMPTY
    BY <1>2, <2>1, <2>3, WalkPrefix
  <2>5. OnWalk(h, t)
    <3>1. Walk[h.shape][h.seed][h.ctrl[t]] = w
      BY <1>1, <2>1
    <3> QED BY <2>3, <2>4, <3>1 DEF OnWalk
  <2> QED BY <1>1, <2>2, <2>5 DEF SlotsOf
<1>4. ASSUME ~h.exceptional PROVE OnWalk(h, s)
  <2> DEFINE w == Walk[g.shape][g.seed][k]
  <2>1. PICK i \in DOMAIN w :
          w[i] = s /\ \A j \in 1..(i - 1) : w[j] # s /\ g.ctrl[w[j]] # EMPTY
    BY <1>1, <1>4 DEF FirstOnWalk
  <2>2. \A j \in 1..(i - 1) : h.ctrl[w[j]] # EMPTY
    BY <1>2, <2>1, WalkPrefix
  <2> QED BY <1>1, <1>2, <2>1, <2>2 DEF OnWalk
<1>5. ASSUME NEW t \in Live(h)
      PROVE  t \in SlotsOf(h)
  <2>1. CASE t = s
    BY <1>1, <2>1 DEF SlotsOf
  <2>2. CASE t # s
    BY <1>1, <1>2, <1>5, <2>2 DEF Reach, Live, SlotsOf
  <2> QED BY <2>1, <2>2
<1> QED BY <1>1, <1>3, <1>4, <1>5 DEF Reach

LEMMA ReachInit == Init => ReachInv
<1> SUFFICES ASSUME Init PROVE ReachInv
  OBVIOUS
<1>1. PICK shape \in Shapes : table = Fresh(shape, 0)
  BY DEF Init
<1>2. Live(table) = {}
  BY <1>1, SlotFacts, ResetFacts
<1> QED BY <1>2, ReachEmpty, CallFacts DEF Init, ReachInv

(* A rebuild of a table that keeps the invariant begins. *)
LEMMA ReachRebuilding ==
  ASSUME NEW g, Reach(g), Rebuilding(g)
  PROVE  ReachInv'
<1>1. Reach(table)'
  BY DEF Rebuilding, Reach
<1> QED BY <1>1 DEF Rebuilding, ReachInv, Reach

LEMMA ReachInserted ==
  ASSUME TypeInv, ReachInv, NEW k \in Keys, Inserted(k)
  PROVE  ReachInv'
<1>1. CASE call' = Idle /\ \E s \in Slot : Placed(table, table', s, k)
  BY <1>1, ReachPlaced, CallFacts DEF ReachInv, TypeInv, TypeOK
<1>2. CASE Rebuilding(table)
  BY <1>2, ReachRebuilding DEF ReachInv
<1> QED BY <1>1, <1>2 DEF Inserted

(* The table after a removal, or as it stands, goes into its maintenance. *)
LEMMA ReachSettle ==
  ASSUME TypeInv, call.at # "rebuild", NEW g \in Generation, Reach(g), Settle(g),
         epoch' \in Epoch, event' \in Event
  PROVE  ReachInv'
<1>1. CASE Rebuilding(g)
  BY <1>1, ReachRebuilding
<1>2. CASE table' = ClearMembership(g) /\ call' = Scanning("refresh")
  <2>1. Reach(ClearMembership(g))
    BY ResetFacts, ReachKept
  <2>2. call'.at = "refresh"
    BY <1>2, CallFacts DEF At, FaultPoints
  <2> QED BY <1>2, <2>1, <2>2 DEF ReachInv
<1>3. CASE table' = g /\ call' = Idle
  BY <1>3, CallFacts DEF ReachInv
<1> QED BY <1>1, <1>2, <1>3, SettleFacts

LEMMA ReachNext == TypeInv /\ ReachInv /\ [Next]_vars => ReachInv'
<1> SUFFICES ASSUME TypeInv, ReachInv, [Next]_vars PROVE ReachInv'
  OBVIOUS
<1>1. /\ table \in Generation /\ call \in Call /\ epoch \in Epoch /\ event \in Event
      /\ call.at = "rebuild" => previous \in Generation
      /\ Reach(table)
      /\ call.at = "rebuild" => Reach(previous)
      /\ TypeInv'
  BY TypeNext DEF TypeInv, TypeOK, ReachInv
<1>2. Idle.at = "idle" /\ Quiet \in Event
  BY CallFacts, EventFacts
<1>3. ASSUME call'.at # "rebuild", NEW g \in Generation, Reach(g),
             table'.shape = g.shape, table'.seed = g.seed,
             table'.exceptional = g.exceptional,
             \A s \in Slot : table'.ctrl[s] = g.ctrl[s] \/ table'.ctrl[s] = TOMBSTONE
      PROVE  ReachInv'
  <2>1. table' \in Generation
    BY <1>1 DEF TypeInv, TypeOK
  <2>2. Reach(table')
    BY <1>3, <2>1, ReachKept
  <2> QED BY <1>3, <2>2 DEF ReachInv
<1>4. ASSUME NEW s \in Slot, NEW h \in Generation, Emptied(table, h, s)
      PROVE  /\ h.shape = table.shape /\ h.seed = table.seed
             /\ h.exceptional = table.exceptional
             /\ \A t \in Slot : h.ctrl[t] = table.ctrl[t] \/ h.ctrl[t] = TOMBSTONE
  BY <1>1, <1>4 DEF Emptied, Generation
<1>5. ASSUME NEW k \in Keys, NEW v \in Vals, Insert(k, v) \/ EntryOrInsert(k, v)
      PROVE  ReachInv'
  <2>1. CASE Inserted(k)
    BY <2>1, ReachInserted
  <2>2. CASE Same(table, table') /\ UNCHANGED <<previous, call>> /\ call = Idle
    BY <1>1, <1>2, <1>3, <2>2 DEF Same
  <2> QED BY <1>5, <2>1, <2>2, InsertFacts
<1>6. ASSUME NEW k \in Keys, Get(k) PROVE ReachInv'
  BY <1>1, <1>2, <1>6 DEF Get, ReachInv
<1>7. ASSUME NEW k \in Keys, Remove(k) PROVE ReachInv'
  <2>1. call = Idle
    BY <1>7 DEF Remove
  <2>2. ASSUME NEW s \in FindLocation(table, k) \cup Locate(table, k),
               Settle(ExtractFinish(table, s))
        PROVE  ReachInv'
    <3>1. s \in Slot
      BY <1>1, HitHoldsKey
    <3>2. Emptied(table, ExtractFinish(table, s), s)
      BY <1>1, <3>1, RemoveFacts
    <3>3. ExtractFinish(table, s) \in Generation
      BY <3>2 DEF Emptied
    <3>4. Reach(ExtractFinish(table, s))
      BY <1>1, <1>4, <3>1, <3>2, <3>3, ReachKept
    <3>5. epoch' \in Epoch /\ event' \in Event
      BY <1>1 DEF TypeInv, TypeOK
    <3> QED BY <1>2, <2>1, <2>2, <3>3, <3>4, <3>5, ReachSettle
  <2>3. CASE UNCHANGED <<table, previous, call, epoch>>
    BY <1>1, <2>3 DEF ReachInv
  <2> QED BY <1>7, <2>2, <2>3 DEF Remove
<1>8. ASSUME NEW at \in {"clear", "drain", "extract"}, StartScan(at) PROVE ReachInv'
  <2>1. call'.at = at
    BY <1>8, CallFacts DEF StartScan, At, FaultPoints
  <2> QED BY <1>1, <1>8, <2>1 DEF StartScan, ReachInv
<1>9. ASSUME NEW n \in 0..MaxInsertions[LastShape], Reserve(n) \/ ShrinkTo(n)
      PROVE  ReachInv'
  <2>1. PICK shape \in Shapes : StartRebuild(table, shape, "ExplicitResize", Idle)
    BY <1>9, SearchesAreShapes DEF Reserve, ShrinkTo
  <2>2. "ExplicitResize" \in Transition /\ Idle.cursor = 0 /\ Idle.then = "return"
    BY DEF Transition, Idle
  <2>3. epoch' \in Epoch /\ event' \in Event
    BY <1>1 DEF TypeInv, TypeOK
  <2>4. Rebuilding(table)
    BY <1>1, <2>1, <2>2, <2>3, CallFacts, BeginRebuildFacts
  <2> QED BY <1>1, <2>4, ReachRebuilding
<1>10. CASE RebuildStep
  <2>1. PICK s \in NextLive(previous), t \in Slot :
          Placed(table, table', t, previous.ctrl[s])
    BY <1>10, RebuildStepFacts
  <2>2. call.at = "rebuild" /\ previous' = previous
    BY <1>10 DEF RebuildStep
  <2>3. previous.ctrl[s] \in Keys
    BY <1>1, <2>1, <2>2, NextLiveFacts
  <2>4. Reach(table')
    BY <1>1, <2>1, <2>3, ReachPlaced
  <2> QED BY <1>1, <2>2, <2>4 DEF ReachInv
<1>11. CASE RebuildPanic
  BY <1>1, <1>2, <1>11 DEF RebuildPanic, ReachInv
<1>12. CASE RebuildCommit
  <2>1. call'.at # "rebuild"
    BY <1>1, <1>2, <1>12 DEF RebuildCommit, Call
  <2> QED BY <1>1, <1>12, <2>1 DEF RebuildCommit, ReachInv
<1>13. CASE ResumePlace
  <2>1. Inserted(call.key) /\ call.at = "place" /\ call.key \in Keys
    BY <1>13, ResumePlaceFacts DEF TypeInv, PendingKey
  <2> QED BY <2>1, ReachInserted
<1>14. CASE RefreshStep
  <2>1. PICK s \in NextLive(table) : /\ table' = RecordMembership(table, table.ctrl[s], s)
                                     /\ call' = [call EXCEPT !.cursor = s]
    BY <1>14 DEF RefreshStep
  <2>2. s \in Slot /\ table.ctrl[s] \in Keys /\ call'.at # "rebuild"
    BY <1>1, <1>14, <2>1, NextLiveFacts DEF RefreshStep, Call
  <2>3. /\ Recording(table, table', s, table.ctrl[s]) /\ table'.ctrl = table.ctrl
    BY <1>1, <2>1, <2>2, RecordFacts
  <2> QED BY <1>1, <1>3, <2>2, <2>3 DEF Recording
<1>15. CASE RefreshDone \/ RefreshPanic \/ DrainAbandon \/ ExtractForget
  BY <1>1, <1>2, <1>15 DEF RefreshDone, RefreshPanic, DrainAbandon, ExtractForget, ReachInv
<1>16. CASE ClearStep \/ DrainStep
  <2>1. PICK s \in NextLive(table) : table' \in {ClearSlot(table, s), TombstoneSlot(table, s)}
    BY <1>16 DEF ClearStep, DrainStep
  <2>2. s \in Slot /\ call'.at # "rebuild"
    BY <1>1, <1>2, <1>16, NextLiveFacts DEF ClearStep, DrainStep
  <2>3. Emptied(table, table', s) /\ table' \in Generation
    BY <1>1, <2>1, <2>2, RemoveFacts DEF Emptied
  <2> QED BY <1>1, <1>3, <1>4, <2>2, <2>3
<1>17. CASE Wipe
  <2>1. table' = WipeAll(table) /\ call'.at = "idle"
    BY <1>2, <1>17 DEF Wipe
  <2>2. Live(WipeAll(table)) = {}
    BY <1>1, ResetFacts
  <2> QED BY <2>1, <2>2, ReachEmpty DEF ReachInv
<1>18. CASE ExtractStep
  <2>1. PICK s \in NextLive(table) :
          /\ call' = [call EXCEPT !.cursor = s]
          /\ table' = table \/ table' = ExtractFinish(table, s)
    BY <1>18 DEF ExtractStep
  <2>2. s \in Slot /\ call'.at # "rebuild"
    BY <1>1, <1>18, <2>1, NextLiveFacts DEF ExtractStep, Call
  <2>3. CASE table' = table
    BY <1>1, <2>2, <2>3 DEF ReachInv
  <2>4. CASE table' = ExtractFinish(table, s)
    <3>1. Emptied(table, table', s) /\ table' \in Generation
      BY <1>1, <2>2, <2>4, RemoveFacts DEF Emptied
    <3> QED BY <1>1, <1>3, <1>4, <2>2, <3>1
  <2> QED BY <2>1, <2>3, <2>4
<1>19. CASE ExtractEnd
  <2>1. epoch' \in Epoch /\ event' \in Event /\ call.at # "rebuild"
    BY <1>1, <1>19 DEF TypeInv, TypeOK, ExtractEnd
  <2> QED BY <1>1, <1>19, <2>1, ReachSettle DEF ExtractEnd
<1>20. CASE UNCHANGED vars
  BY <1>20 DEF vars, ReachInv
<1> QED BY <1>5, <1>6, <1>7, <1>8, <1>9, <1>10, <1>11, <1>12, <1>13, <1>14, <1>15,
           <1>16, <1>17, <1>18, <1>19, <1>20 DEF Next, Begin, Progress, Fault

(* Whatever user code does, unwinding out of hashers and drops or forgetting
   drains, no slot of a live key's walk before the key is EMPTY, or the
   generation is flagged: lookups may stop at EMPTY. *)
THEOREM NoEmptyBeforeKeyHolds == Spec => []NoEmptyBeforeKey
<1>1. ReachInv => NoEmptyBeforeKey
  BY DEF ReachInv, Reach, NoEmptyBeforeKey
<1> QED BY <1>1, TypeInit, TypeNext, ReachInit, ReachNext, PTL DEF Spec

------------------------------------------------------------------------------
(* What lookups answer.                                                    *)
(*                                                                         *)
(* The searches of a Funnel map find every live key at its slot and no key *)
(* is stored twice, as long as no hasher panics inside a filter refresh:   *)
(* a refresh that is cut short leaves live keys the filter denies, and     *)
(* then an insert stores such a key again.  Every other fault is allowed.  *)

(* No key is in two slots of g. *)
Distinct(g) == \A s, t \in Live(g) : g.ctrl[s] = g.ctrl[t] => s = t

(* Filter and bins know every live key of g. *)
Covered(g) == \A s \in Live(g) : Recorded(g, s)

Holds(g, k) == \E s \in Live(g) : g.ctrl[s] = k

(* A refresh has recorded the keys it has passed; otherwise all are. *)
Membership ==
  IF call.at = "refresh"
  THEN \A s \in Live(table) : s <= call.cursor => Recorded(table, s)
  ELSE Covered(table)

(* A rebuild has placed only keys it has passed in the old generation. *)
Moved ==
  \A t \in Live(table) : \E s \in Live(previous) :
     s <= call.cursor /\ previous.ctrl[s] = table.ctrl[t]

(* The key of a pending insert is in no generation it may be placed in. *)
PendingAbsent ==
  /\ call.at = "place" => ~Holds(table, call.key)
  /\ call.at = "rebuild" /\ call.then # "return" => ~Holds(previous, call.key)

MapInv ==
  /\ Distinct(table) /\ Membership
  /\ call.at = "rebuild" => Distinct(previous) /\ Covered(previous) /\ Moved
  /\ PendingAbsent

------------------------------------------------------------------------------
(* Completeness of the searches.                                           *)

(* In a generation whose keys are distinct, reachable and recorded, both
   searches answer exactly the slot of a live key. *)
LEMMA SearchesComplete ==
  ASSUME NEW g \in Generation, Reach(g), Distinct(g), NEW s \in Live(g),
         Recorded(g, s)
  PROVE  /\ FindLocation(g, g.ctrl[s]) = {s}
         /\ Locate(g, g.ctrl[s]) = {s}
<1> DEFINE k == g.ctrl[s]
           w == Walk[g.shape][g.seed][k]
<1>1. s \in Slot /\ k \in Keys /\ g.seed \in Seeds /\ g.shape \in Shapes
  BY DEF Live, Generation
<1>2. s \in SlotsOf(g) /\ (g.exceptional \/ OnWalk(g, s))
  BY DEF Reach
<1>3. GatePasses(g, k)
  <2>1. g.shape # 0
    BY <1>2, ShapeAssumption DEF SlotsOf
  <2> QED BY <2>1 DEF GatePasses, Recorded
<1>4. \A t \in Slot : g.ctrl[t] = k => t = s
  BY <1>1 DEF Distinct, Live
<1>5. \A t \in FindLocation(g, k) \cup Locate(g, k) : t = s
  BY <1>1, <1>4, HitHoldsKey
<1>6. CASE OnWalk(g, s)
  <2>1. PICK i \in DOMAIN w :
          w[i] = s /\ \A j \in 1..(i - 1) : w[j] # s /\ g.ctrl[w[j]] # EMPTY
    BY <1>6 DEF OnWalk
  <2>2. /\ i \in Nat
        /\ \A j \in 1..(i - 1) : w[j] \in Slot /\ g.ctrl[w[j]] \notin {EMPTY, k}
    BY <1>1, <1>4, <2>1, WalkPrefix
  <2>3. DOMAIN w \subseteq Nat \ {0}
    <3>1. w \in Seq(1..SlotCount[g.shape])
      BY <1>1, HashAssumption
    <3>2. DOMAIN w = 1..Len(w) /\ Len(w) \in Nat
      BY <3>1, LenProperties
    <3> QED BY <3>2
  <2>4. \A j \in DOMAIN w : g.ctrl[w[j]] \in {EMPTY, k} => i <= j
    BY <2>2, <2>3
  <2>5. i \in ExactStop(g, g.seed, k)
    BY <2>1, <2>4 DEF ExactStop, First
  <2>6. s \in ExactHit(g, g.seed, k)
    BY <2>1, <2>5 DEF ExactHit
  <2>7. s \in LookupRecordedLevels(g, k)
    BY <2>1, <2>4 DEF LookupRecordedLevels, First, Recorded
  <2> QED BY <1>3, <1>5, <2>6, <2>7 DEF FindLocation, Locate
<1>7. CASE g.exceptional
  <2>1. SlotsOf(g) \subseteq Slot /\ s \in Nat
    BY <1>1, SlotFacts DEF SlotsOf
  <2>2. s \in FullScan(g, k)
    BY <1>2, <1>4, <2>1 DEF FullScan, First
  <2>3. s \in FindLocation(g, k) /\ s \in Locate(g, k)
    <3>1. \A t \in LookupRecordedLevels(g, k) : t = s
      <4>1. LookupRecordedLevels(g, k) # {} =>
              LookupRecordedLevels(g, k) \subseteq FindLocation(g, k)
        BY <1>3 DEF FindLocation
      <4> QED BY <1>5, <4>1
    <3>2. \A t \in ExactHit(g, g.seed, k) : t = s
      <4>1. ExactHit(g, g.seed, k) # {} => ExactHit(g, g.seed, k) \subseteq Locate(g, k)
        BY <1>3 DEF Locate
      <4> QED BY <1>5, <4>1
    <3> QED BY <1>3, <1>7, <2>2, <3>1, <3>2 DEF FindLocation, Locate
  <2> QED BY <1>5, <2>3
<1> QED BY <1>2, <1>6, <1>7

------------------------------------------------------------------------------
(* What the writes keep.                                                   *)

LEMMA RecordedKept ==
  ASSUME NEW g, NEW h, NEW s, Recorded(g, s), h.shape = g.shape,
         h.ctrl[s] = g.ctrl[s], g.filter \subseteq h.filter, g.bins \subseteq h.bins
  PROVE  Recorded(h, s)
BY DEF Recorded, LevelBit

(* Slots keep their keys or lose them to TOMBSTONE; the filter keeps all. *)
LEMMA MapKept ==
  ASSUME NEW g \in Generation, NEW h,
         h.shape = g.shape, h.filter = g.filter, h.bins = g.bins,
         \A s \in Slot : h.ctrl[s] = g.ctrl[s] \/ h.ctrl[s] = TOMBSTONE
  PROVE  /\ \A s \in Live(h) : s \in Live(g) /\ h.ctrl[s] = g.ctrl[s]
         /\ Distinct(g) => Distinct(h)
         /\ Covered(g) => Covered(h)
<1>1. \A s \in Live(h) : s \in Live(g) /\ h.ctrl[s] = g.ctrl[s]
  BY FreeAssumption DEF Live
<1> QED BY <1>1, RecordedKept DEF Distinct, Covered

(* An absent key is placed: it is recorded, and still the only one. *)
LEMMA MapPlaced ==
  ASSUME NEW g \in Generation, NEW h, NEW s \in Slot, NEW k \in Keys,
         Distinct(g), Covered(g), ~Holds(g, k), Placed(g, h, s, k)
  PROVE  /\ Distinct(h) /\ Covered(h)
         /\ \A t \in Live(h) : \/ t = s /\ h.ctrl[t] = k
                               \/ t \in Live(g) /\ h.ctrl[t] = g.ctrl[t]
<1>1. /\ h.ctrl[s] = k
      /\ \A t \in Slot : t # s => h.ctrl[t] = g.ctrl[t]
  BY DEF Placed, Stored, Generation
<1>2. /\ h.shape = g.shape
      /\ h.filter = g.filter \cup FilterBits[g.shape][k]
      /\ h.bins = g.bins \cup {<<BinOf[g.shape][k], LevelBit(g, s)>>}
  BY DEF Placed, Stored
<1>3. \A t \in Live(h) : t # s => t \in Live(g) /\ h.ctrl[t] = g.ctrl[t]
  BY <1>1 DEF Live
<1>4. Recorded(h, s)
  BY <1>1, <1>2 DEF Recorded, LevelBit
<1>5. Covered(h)
  BY <1>2, <1>3, <1>4, RecordedKept DEF Covered
<1>6. Distinct(h)
  BY <1>1, <1>3 DEF Distinct, Holds
<1> QED BY <1>1, <1>3, <1>5, <1>6

LEMMA MapEmpty == \A g : Live(g) = {} => Distinct(g) /\ Covered(g)
BY DEF Distinct, Covered

(* A rebuild of a sound generation begins; a pending key is not in it. *)
LEMMA MapRebuilding ==
  ASSUME NEW g, Distinct(g), Covered(g), Rebuilding(g),
         call'.then # "return" => ~Holds(g, call'.key)
  PROVE  MapInv'
<1>1. /\ previous' = g /\ call'.at = "rebuild" /\ Live(table') = {}
  BY DEF Rebuilding, Live
<1>2. Distinct(table') /\ Covered(table')
  BY <1>1, MapEmpty
<1>3. Moved'
  BY <1>1 DEF Moved
<1> QED BY <1>1, <1>2, <1>3 DEF MapInv, Membership, PendingAbsent

(* A call is over, or a scan that is no refresh goes on. *)
LEMMA MapPlain ==
  ASSUME Distinct(table'), Covered(table'), call'.at \notin {"refresh", "rebuild", "place"}
  PROVE  MapInv'
BY DEF MapInv, Membership, PendingAbsent

LEMMA MapInserted ==
  ASSUME TypeInv, NEW k \in Keys, Distinct(table), Covered(table), ~Holds(table, k),
         Inserted(k)
  PROVE  MapInv'
<1>1. CASE call' = Idle /\ \E s \in Slot : Placed(table, table', s, k)
  <2>1. Distinct(table') /\ Covered(table')
    BY <1>1, MapPlaced DEF TypeInv, TypeOK
  <2> QED BY <1>1, <2>1, MapPlain, CallFacts
<1>2. CASE Rebuilding(table) /\ call'.key = k
  BY <1>2, MapRebuilding
<1> QED BY <1>1, <1>2 DEF Inserted

LEMMA MapSettle ==
  ASSUME TypeInv, call.at # "rebuild", NEW g \in Generation, Distinct(g), Covered(g),
         Settle(g), epoch' \in Epoch, event' \in Event
  PROVE  MapInv'
<1>1. CASE Rebuilding(g) /\ call'.then = "return"
  BY <1>1, MapRebuilding
<1>2. CASE table' = ClearMembership(g) /\ call' = Scanning("refresh")
  <2>1. call'.at = "refresh" /\ call'.cursor = 0
    BY <1>2, CallFacts DEF At, FaultPoints
  <2>2. Live(table') = Live(g) /\ table'.ctrl = g.ctrl
    BY <1>2, ResetFacts DEF Live
  <2>3. Distinct(table')
    BY <2>2 DEF Distinct
  <2>4. \A s \in Live(table') : ~(s <= 0)
    BY SlotFacts DEF Live, Slot
  <2> QED BY <2>1, <2>3, <2>4 DEF MapInv, Membership, PendingAbsent
<1>3. CASE table' = g /\ call' = Idle
  BY <1>3, MapPlain, CallFacts
<1> QED BY <1>1, <1>2, <1>3, SettleFacts

LEMMA MapInit == Init => MapInv
<1> SUFFICES ASSUME Init PROVE MapInv
  OBVIOUS
<1>1. PICK shape \in Shapes : table = Fresh(shape, 0)
  BY DEF Init
<1>2. Live(table) = {}
  BY <1>1, SlotFacts, ResetFacts
<1> QED BY <1>2, MapEmpty, CallFacts DEF Init, MapInv, Membership, PendingAbsent

LEMMA MapNext ==
  ASSUME "refresh" \notin Faults
  PROVE  TypeInv /\ ReachInv /\ MapInv /\ [Next]_vars => MapInv'
<1> SUFFICES ASSUME TypeInv, ReachInv, MapInv, [Next]_vars PROVE MapInv'
  OBVIOUS
<1>1. /\ table \in Generation /\ call \in Call /\ epoch \in Epoch /\ event \in Event
      /\ call.at = "rebuild" => previous \in Generation
      /\ Reach(table) /\ Distinct(table)
      /\ call.at # "refresh" => Covered(table)
      /\ TypeInv'
  BY TypeNext DEF TypeInv, TypeOK, ReachInv, MapInv, Membership
<1>2. /\ Idle.at = "idle" /\ Idle.cursor = 0 /\ Idle.then = "return"
      /\ epoch' \in Epoch /\ event' \in Event
  BY <1>1, CallFacts DEF Idle, TypeInv, TypeOK
<1>3. ASSUME NEW s \in Slot, NEW h \in Generation, Emptied(table, h, s), Covered(table)
      PROVE  Distinct(h) /\ Covered(h)
  <2>1. \A t \in Slot : h.ctrl[t] = table.ctrl[t] \/ h.ctrl[t] = TOMBSTONE
    BY <1>1, <1>3 DEF Emptied, Generation
  <2> QED BY <1>1, <1>3, <2>1, MapKept DEF Emptied
<1>4. ASSUME NEW k \in Keys, NEW v \in Vals, Insert(k, v) \/ EntryOrInsert(k, v)
      PROVE  MapInv'
  <2>1. call = Idle /\ Covered(table)
    BY <1>1, <1>2, <1>4, InsertFacts
  <2>2. CASE Locate(table, k) = {} /\ Inserted(k)
    <3>1. ASSUME NEW s \in Live(table), table.ctrl[s] = k PROVE FALSE
      BY <1>1, <2>1, <2>2, <3>1, SearchesComplete DEF Covered
    <3> QED BY <1>1, <2>1, <2>2, <3>1, MapInserted DEF Holds
  <2>3. CASE Same(table, table') /\ UNCHANGED <<previous, call>>
    <3>1. Distinct(table') /\ Covered(table')
      BY <1>1, <2>1, <2>3, MapKept DEF Same
    <3> QED BY <1>2, <2>1, <2>3, <3>1, MapPlain
  <2> QED BY <1>4, <2>2, <2>3, InsertFacts
<1>5. ASSUME NEW k \in Keys, Get(k) PROVE MapInv'
  BY <1>1, <1>2, <1>5, MapPlain DEF Get
<1>6. ASSUME NEW k \in Keys, Remove(k) PROVE MapInv'
  <2>1. call = Idle /\ Covered(table)
    BY <1>1, <1>2, <1>6 DEF Remove
  <2>2. ASSUME NEW s \in FindLocation(table, k) \cup Locate(table, k),
               Settle(ExtractFinish(table, s))
        PROVE  MapInv'
    <3>1. s \in Slot
      BY <1>1, HitHoldsKey
    <3>2. Emptied(table, ExtractFinish(table, s), s)
      BY <1>1, <3>1, RemoveFacts
    <3>3. ExtractFinish(table, s) \in Generation
      BY <3>2 DEF Emptied
    <3>4. Distinct(ExtractFinish(table, s)) /\ Covered(ExtractFinish(table, s))
      BY <1>3, <2>1, <3>1, <3>2, <3>3
    <3> QED BY <1>2, <2>1, <2>2, <3>3, <3>4, MapSettle
  <2>3. CASE UNCHANGED <<table, previous, call, epoch>>
    BY <1>1, <1>2, <2>1, <2>3, MapPlain
  <2> QED BY <1>6, <2>2, <2>3 DEF Remove
<1>7. ASSUME NEW at \in {"clear", "drain", "extract"}, StartScan(at) PROVE MapInv'
  <2>1. call'.at = at /\ call = Idle /\ table' = table
    BY <1>7, CallFacts DEF StartScan, At, FaultPoints
  <2> QED BY <1>1, <1>2, <2>1, MapPlain
<1>8. ASSUME NEW n \in 0..MaxInsertions[LastShape], Reserve(n) \/ ShrinkTo(n)
      PROVE  MapInv'
  <2>1. PICK shape \in Shapes : StartRebuild(table, shape, "ExplicitResize", Idle)
    BY <1>8, SearchesAreShapes DEF Reserve, ShrinkTo
  <2>2. "ExplicitResize" \in Transition /\ call = Idle
    BY <1>8 DEF Transition, Reserve, ShrinkTo
  <2>3. Rebuilding(table) /\ call'.then = "return"
    BY <1>1, <1>2, <2>1, <2>2, CallFacts, BeginRebuildFacts
  <2> QED BY <1>1, <1>2, <2>2, <2>3, MapRebuilding
<1>9. CASE RebuildStep
  <2>1. PICK s \in NextLive(previous), t \in Slot :
          /\ call'.cursor = s
          /\ Placed(table, table', t, previous.ctrl[s])
    BY <1>9, RebuildStepFacts
  <2>2. /\ call.at = "rebuild" /\ previous' = previous
        /\ call'.at = "rebuild" /\ call'.then = call.then /\ call'.key = call.key
    BY <1>9, RebuildStepFacts
  <2>3. /\ previous \in Generation /\ Distinct(previous) /\ Covered(previous) /\ Moved
        /\ Covered(table)
    BY <1>1, <2>2 DEF MapInv
  <2>4. /\ s \in Live(previous) /\ previous.ctrl[s] \in Keys
        /\ s \in Nat /\ s > call.cursor
    BY <1>1, <2>1, <2>3, NextLiveFacts
  <2>5. Live(previous) \subseteq Nat /\ call.cursor \in Nat
    BY <1>1, SlotFacts DEF Live, Call
  <2>6. ~Holds(table, previous.ctrl[s])
    BY <2>3, <2>4, <2>5 DEF Holds, Moved, Distinct
  <2>7. /\ Distinct(table') /\ Covered(table')
        /\ \A x \in Live(table') : \/ x = t /\ table'.ctrl[x] = previous.ctrl[s]
                                   \/ x \in Live(table) /\ table'.ctrl[x] = table.ctrl[x]
    BY <1>1, <2>1, <2>3, <2>4, <2>6, MapPlaced
  <2>8. \A x \in Live(table') : \E y \in Live(previous) :
          y <= s /\ previous.ctrl[y] = table'.ctrl[x]
    <3> SUFFICES ASSUME NEW x \in Live(table')
                 PROVE  \E y \in Live(previous) :
                          y <= s /\ previous.ctrl[y] = table'.ctrl[x]
      OBVIOUS
    <3>1. CASE table'.ctrl[x] = previous.ctrl[s]
      BY <2>4, <3>1
    <3>2. CASE x \in Live(table) /\ table'.ctrl[x] = table.ctrl[x]
      <4>1. PICK y \in Live(previous) : y <= call.cursor /\ previous.ctrl[y] = table.ctrl[x]
        BY <2>3, <3>2 DEF Moved
      <4>2. y <= s
        BY <2>4, <2>5, <4>1
      <4> QED BY <3>2, <4>1, <4>2
    <3> QED BY <2>7, <3>1, <3>2
  <2>9. Moved'
    BY <2>1, <2>2, <2>8 DEF Moved
  <2> QED BY <2>2, <2>3, <2>7, <2>9 DEF MapInv, Membership, PendingAbsent
<1>10. CASE RebuildPanic
  <2>1. Distinct(previous) /\ Covered(previous) /\ table' = previous /\ call' = Idle
    BY <1>10 DEF RebuildPanic, MapInv
  <2> QED BY <1>2, <2>1, MapPlain
<1>11. CASE RebuildCommit
  <2>1. /\ call.at = "rebuild" /\ table' = table /\ Moved /\ Covered(table)
    BY <1>1, <1>11 DEF RebuildCommit, MapInv
  <2>2. CASE call.then = "return"
    BY <1>1, <1>2, <1>11, <2>1, <2>2, MapPlain DEF RebuildCommit
  <2>3. CASE call.then # "return"
    <3>1. call'.at = "place" /\ call'.key = call.key
      BY <1>1, <1>11, <2>3 DEF RebuildCommit, Call
    <3>2. ~Holds(table, call.key)
      BY <2>1, <2>3 DEF MapInv, PendingAbsent, Moved, Holds
    <3> QED BY <1>1, <2>1, <3>1, <3>2 DEF MapInv, Membership, PendingAbsent, Holds, Live
  <2> QED BY <2>2, <2>3
<1>12. CASE ResumePlace
  <2>1. /\ Inserted(call.key) /\ call.at = "place" /\ call.key \in Keys
        /\ ~Holds(table, call.key)
    BY <1>12, ResumePlaceFacts DEF TypeInv, PendingKey, MapInv, PendingAbsent
  <2> QED BY <1>1, <2>1, MapInserted
<1>13. CASE RefreshStep
  <2>1. PICK s \in NextLive(table) : /\ table' = RecordMembership(table, table.ctrl[s], s)
                                     /\ call' = [call EXCEPT !.cursor = s]
    BY <1>13 DEF RefreshStep
  <2>2. /\ s \in Slot /\ table.ctrl[s] \in Keys /\ s \in Nat
        /\ \A t \in Live(table) : t > call.cursor => s <= t
    BY <1>1, <2>1, NextLiveFacts
  <2>3. call'.at = "refresh" /\ call'.cursor = s /\ call.at = "refresh"
    BY <1>1, <1>13, <2>1 DEF RefreshStep, Call
  <2>4. Recording(table, table', s, table.ctrl[s]) /\ table'.ctrl = table.ctrl
    BY <1>1, <2>1, <2>2, RecordFacts
  <2>5. Live(table') = Live(table) /\ Distinct(table')
    BY <1>1, <2>4 DEF Live, Distinct
  <2>6. Recorded(table', s)
    BY <2>4 DEF Recorded, Recording, LevelBit
  <2>7. ASSUME NEW t \in Live(table), t <= s PROVE Recorded(table', t)
    <3>1. t \in Nat /\ call.cursor \in Nat
      BY <1>1, SlotFacts DEF Live, Call
    <3>2. t <= call.cursor \/ t = s
      BY <2>2, <2>7, <3>1
    <3>3. t <= call.cursor => Recorded(table, t)
      BY <2>3 DEF MapInv, Membership
    <3> QED BY <2>4, <2>6, <3>2, <3>3, RecordedKept DEF Recording
  <2> QED BY <2>3, <2>5, <2>7 DEF MapInv, Membership, PendingAbsent
<1>14. CASE RefreshDone
  <2>1. Covered(table) /\ table' = table /\ call' = Idle
    BY <1>14 DEF RefreshDone, ScanDone, MapInv, Membership, Covered
  <2> QED BY <1>1, <1>2, <2>1, MapPlain
<1>15. CASE RefreshPanic
  BY <1>15 DEF RefreshPanic
<1>16. CASE DrainAbandon \/ ExtractForget
  <2>1. Covered(table) /\ table' = table /\ call' = Idle
    BY <1>1, <1>16 DEF DrainAbandon, ExtractForget
  <2> QED BY <1>1, <1>2, <2>1, MapPlain
<1>17. CASE ClearStep \/ DrainStep
  <2>1. PICK s \in NextLive(table) : table' \in {ClearSlot(table, s), TombstoneSlot(table, s)}
    BY <1>17 DEF ClearStep, DrainStep
  <2>2. s \in Slot /\ Covered(table) /\ call'.at \notin {"refresh", "rebuild", "place"}
    <3>1. call.at \in {"clear", "drain"} /\ (call' = call \/ call' = Idle)
      BY <1>17 DEF ClearStep, DrainStep
    <3> QED BY <1>1, <1>2, <2>1, <3>1, NextLiveFacts
  <2>3. Emptied(table, ClearSlot(table, s), s) /\ Emptied(table, TombstoneSlot(table, s), s)
    BY <1>1, <2>2, RemoveFacts
  <2>4. Emptied(table, table', s)
    BY <2>1, <2>3
  <2>5. table' \in Generation
    BY <2>4 DEF Emptied
  <2> QED BY <1>3, <2>2, <2>4, <2>5, MapPlain
<1>18. CASE Wipe
  <2>1. table' = WipeAll(table) /\ call'.at = "idle"
    BY <1>2, <1>18 DEF Wipe
  <2> QED BY <1>1, <2>1, ResetFacts, MapEmpty, MapPlain
<1>19. CASE ExtractStep
  <2>1. PICK s \in NextLive(table) :
          /\ call' = [call EXCEPT !.cursor = s]
          /\ table' = table \/ table' = ExtractFinish(table, s)
    BY <1>19 DEF ExtractStep
  <2>2. /\ s \in Slot /\ Covered(table)
        /\ call'.at \notin {"refresh", "rebuild", "place"}
    BY <1>1, <1>19, <2>1, NextLiveFacts DEF ExtractStep, Call
  <2>3. CASE table' = table
    BY <1>1, <2>2, <2>3, MapPlain
  <2>4. CASE table' = ExtractFinish(table, s)
    <3>1. Emptied(table, table', s) /\ table' \in Generation
      BY <1>1, <2>2, <2>4, RemoveFacts DEF Emptied
    <3> QED BY <1>3, <2>2, <3>1, MapPlain
  <2> QED BY <2>1, <2>3, <2>4
<1>20. CASE ExtractEnd
  BY <1>1, <1>2, <1>20, MapSettle DEF ExtractEnd
<1>21. CASE UNCHANGED vars
  BY <1>21 DEF vars, MapInv, Membership, Moved, PendingAbsent
<1> QED BY <1>4, <1>5, <1>6, <1>7, <1>8, <1>9, <1>10, <1>11, <1>12, <1>13, <1>14, <1>15,
           <1>16, <1>17, <1>18, <1>19, <1>20, <1>21 DEF Next, Begin, Progress, Fault

LEMMA MapInvariant ==
  ASSUME "refresh" \notin Faults
  PROVE  Spec => [](TypeInv /\ ReachInv /\ MapInv)
BY TypeInit, TypeNext, ReachInit, ReachNext, MapInit, MapNext, PTL DEF Spec

------------------------------------------------------------------------------
(* No key is stored twice, in any state of any call: an insert stores a key
   only where its search proved it absent, and a rebuild moves each key of
   the old generation once. *)
THEOREM NoDuplicateKeysHolds ==
  ASSUME "refresh" \notin Faults
  PROVE  Spec => []NoDuplicateKeys
<1>1. MapInv => NoDuplicateKeys
  BY DEF MapInv, Distinct, NoDuplicateKeys
<1> QED BY <1>1, MapInvariant, PTL

(* Between calls the filter and the bins know every live key.  The run
   funnel_refresh_panic shows that the assumption is needed. *)
THEOREM FilterCoversLiveKeysHolds ==
  ASSUME "refresh" \notin Faults
  PROVE  Spec => []FilterCoversLiveKeys
<1>1. MapInv => FilterCoversLiveKeys
  BY CallFacts DEF MapInv, Membership, Covered, FilterCoversLiveKeys
<1> QED BY <1>1, MapInvariant, PTL

(* Between calls get, contains_key and remove find every live key, at the
   slot that holds it. *)
THEOREM FindsEveryLiveKeyHolds ==
  ASSUME "refresh" \notin Faults
  PROVE  Spec => []FindsEveryLiveKey
<1>1. TypeInv /\ ReachInv /\ MapInv => FindsEveryLiveKey
  <2> SUFFICES ASSUME TypeInv, ReachInv, MapInv, call = Idle, NEW s \in Live(table)
               PROVE  FindLocation(table, table.ctrl[s]) = {s}
    BY DEF FindsEveryLiveKey
  <2>1. table \in Generation /\ Reach(table) /\ Distinct(table) /\ Recorded(table, s)
    BY CallFacts DEF TypeInv, TypeOK, ReachInv, MapInv, Membership, Covered
  <2> QED BY <2>1, SearchesComplete
<1> QED BY <1>1, MapInvariant, PTL
==============================================================================
