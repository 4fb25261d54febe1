------------------------- MODULE ElasticTable_proofs -------------------------
(***************************************************************************)
(* Theorems about ElasticTable that hold under every fault: types, the     *)
(* target of the live count, the schedule that covers every placement.     *)
(* They are for every set of keys and values, every plan of levels and     *)
(* batches, and every route, filter and bin a hasher may give the keys.    *)
(***************************************************************************)
EXTENDS ElasticTable, Common_proofs, SequenceTheorems, FiniteSetTheorems

------------------------------------------------------------------------------
(* Types of epochs and of events.                                          *)

LEMMA EpochFacts ==
  /\ InitialEpoch \in Epoch
  /\ \A e \in Epoch : /\ NoteDelete(e) \in Epoch
                      /\ NotePlacementRecovery(e) \in Epoch
  /\ \A e \in Epoch, tr \in Transition :
        /\ StartOf(e, tr) \in Epoch
        /\ StartWithPlacementRecovery(e, tr) \in Epoch
        /\ \A recovered \in BOOLEAN : StartEpoch(e, tr, recovered) \in Epoch
<1>1. /\ \A x \in 0..GenMax : SaturatingSucc(x, GenMax) \in 0..GenMax
      /\ \A x \in 0..RecMax : SaturatingSucc(x, RecMax) \in 0..RecMax
      /\ \A x \in 0..DelMax : SaturatingSucc(x, DelMax) \in 0..DelMax
  BY WidthAssumption DEF SaturatingSucc
<1>2. InitialEpoch \in Epoch
  BY WidthAssumption DEF InitialEpoch, Epoch, Transition
<1>3. \A e \in Epoch : NoteDelete(e) \in Epoch /\ NotePlacementRecovery(e) \in Epoch
  BY <1>1 DEF NoteDelete, NotePlacementRecovery, Epoch
<1>4. \A e \in Epoch, tr \in Transition : StartOf(e, tr) \in Epoch
  BY <1>1, WidthAssumption DEF StartOf, Epoch
<1>5. \A e \in Epoch, tr \in Transition : StartWithPlacementRecovery(e, tr) \in Epoch
  BY <1>3, <1>4 DEF StartWithPlacementRecovery
<1> QED BY <1>2, <1>3, <1>4, <1>5 DEF StartEpoch

LEMMA EventFacts ==
  /\ Quiet \in Event
  /\ \A op \in Bulk : Bulky(op) \in Event
  /\ \A op \in {"get", "insert", "remove"}, k \in Keys,
        v \in Vals \cup {None}, answer \in Vals \cup {None} :
           Answered(op, k, v, answer) \in Event
BY DEF Quiet, Bulky, Answered, Event, Bulk

------------------------------------------------------------------------------
(* Slots, levels and routes.                                               *)

LEMMA SlotFacts ==
  /\ MaxSlots \in Nat
  /\ Slot \subseteq Nat \ {0}
  /\ \A sh \in Shapes : 1..SlotCount[sh] \subseteq Slot
  /\ 0 \in Shapes /\ 1 \in Shapes /\ LastShape \in Shapes
<1>1. 0 \in Shapes /\ 1 \in Shapes /\ LastShape \in Shapes
  BY ShapeAssumption DEF Shapes
<1>2. MaxSlots \in Nat
  BY <1>1, ShapeAssumption DEF MaxSlots
<1>3. \A sh \in Shapes : SlotCount[sh] \in Nat /\ SlotCount[sh] <= MaxSlots
  BY ShapeAssumption
<1>4. \A sh \in Shapes : 1..SlotCount[sh] \subseteq Slot
  BY <1>2, <1>3 DEF Slot
<1> QED BY <1>1, <1>2, <1>4 DEF Slot

LEMMA LevelFacts ==
  /\ Level \subseteq Nat
  /\ \A sh \in Shapes : /\ Levels(sh) \subseteq Level
                        /\ \A t \in Levels(sh) : t # 0 => t - 1 \in Levels(sh)
                        /\ sh # 0 => 0 \in Levels(sh)
  /\ 0 \in Level
<1>1. ASSUME NEW sh \in Shapes
      PROVE  /\ Levels(sh) \subseteq Nat
             /\ \A t \in Levels(sh) : t # 0 => t - 1 \in Levels(sh)
             /\ sh # 0 => 0 \in Levels(sh)
  <2>1. Batches[sh] \in Seq(Nat) /\ (sh # 0 => Batches[sh] # <<>>)
    BY ShapeAssumption
  <2> DEFINE n == Len(Batches[sh])
  <2>2. n \in Nat /\ (sh # 0 => n # 0)
    BY <2>1, LenProperties, EmptySeq
  <2> HIDE DEF n
  <2>3. Levels(sh) = 0..(n - 1)
    BY DEF Levels, n
  <2> QED BY <2>2, <2>3
<1>2. LastShape \in Shapes /\ LastShape # 0
  BY SlotFacts, ShapeAssumption
<1>3. Level \subseteq Nat /\ 0 \in Level
  BY <1>1, <1>2 DEF Level
<1> QED BY <1>1, <1>3, ShapeAssumption

LEMMA RouteAssumption ==
  \A sh \in Shapes, k \in Keys : \A l \in Levels(sh) : \A p \in Probes[l] :
    \/ Route[sh][k][l][p] = 0
    \/ /\ Route[sh][k][l][p] \in 1..SlotCount[sh]
       /\ LevelOf[sh][Route[sh][k][l][p]] = l
BY HashAssumption, Zenon

LEMMA RouteIsSlot ==
  ASSUME NEW sh \in Shapes, NEW k \in Keys, NEW l \in Levels(sh), NEW p \in Probes[l]
  PROVE  \/ Route[sh][k][l][p] = 0
         \/ /\ Route[sh][k][l][p] \in 1..SlotCount[sh]
            /\ LevelOf[sh][Route[sh][k][l][p]] = l
BY RouteAssumption

(* A probe of a level either fails or is a slot of the level. *)
LEMMA SlotOnFacts ==
  ASSUME NEW g \in Generation, NEW k \in Keys, NEW l \in Levels(g.shape),
         NEW p \in Probes[l], SlotOn(g, k, l, p) # 0
  PROVE  /\ SlotOn(g, k, l, p) \in SlotsOf(g) /\ SlotOn(g, k, l, p) \in Slot
         /\ LevelAt(g, SlotOn(g, k, l, p)) = l
<1>1. g.shape \in Shapes
  BY DEF Generation
<1>2. \/ Route[g.shape][k][l][p] = 0
      \/ /\ Route[g.shape][k][l][p] \in 1..SlotCount[g.shape]
         /\ LevelOf[g.shape][Route[g.shape][k][l][p]] = l
  BY <1>1, RouteIsSlot
<1> QED BY <1>1, <1>2, SlotFacts DEF SlotOn, SlotsOf, LevelAt

LEMMA ProbeFacts ==
  \A l \in Level : /\ Probes[l] \subseteq 1..SearchCap
                   /\ \A p \in 1..SearchCap : p \in Nat /\ Phi[l][p] \in Nat \ {0}
<1>1. \A l \in Level : Probes[l] = {p \in 1..SearchCap : Phi[l][p] <= PositionCap}
  BY DEF Probes
<1>2. \A l \in Level : \A p \in 1..SearchCap : Phi[l][p] \in Nat \ {0}
  BY HashAssumption
<1> QED BY <1>1, <1>2, HashAssumption

LEMMA RouteFacts ==
  ASSUME NEW sh \in Shapes, NEW r \in Routes[sh]
  PROVE  r[1] \in Levels(sh) /\ r[2] \in Probes[r[1]] /\ r = <<r[1], r[2]>>
         /\ r \in Level \X (1..SearchCap) /\ Phi[r[1]][r[2]] \in Nat \ {0}
<1>1. Routes[sh] = (UNION {{l} \X Probes[l] : l \in Levels(sh)}) \ {<<0, 1>>}
  BY DEF Routes
<1>2. PICK l \in Levels(sh) : r \in {l} \X Probes[l]
  BY <1>1
<1>3. l \in Level /\ Probes[l] \subseteq 1..SearchCap
  BY LevelFacts, ProbeFacts
<1>4. r[1] = l /\ r[2] \in Probes[l] /\ r = <<r[1], r[2]>>
  BY <1>2
<1> QED BY <1>3, <1>4, ProbeFacts

LEMMA RouteExists ==
  ASSUME NEW sh \in Shapes, NEW l \in Levels(sh), NEW p \in Probes[l],
         <<l, p>> # <<0, 1>>
  PROVE  <<l, p>> \in Routes[sh]
<1>1. Routes[sh] = (UNION {{m} \X Probes[m] : m \in Levels(sh)}) \ {<<0, 1>>}
  BY DEF Routes
<1>2. <<l, p>> \in {l} \X Probes[l]
  OBVIOUS
<1>3. <<l, p>> \in UNION {{m} \X Probes[m] : m \in Levels(sh)}
  BY <1>2, Zenon
<1> QED BY <1>1, <1>3

------------------------------------------------------------------------------
(* What the choices answer.                                                *)

(* A choice for k: a probe of a level whose slot is free. *)
Choice(g, k, p) ==
  /\ p.level \in Levels(g.shape) /\ p.probe \in Probes[p.level]
  /\ SlotOn(g, k, p.level, p.probe) # 0
  /\ Free(g, SlotOn(g, k, p.level, p.probe))

LEMMA VacancyFacts ==
  ASSUME NEW g \in Generation, NEW k \in Keys, NEW l \in Levels(g.shape), NEW budget,
         NEW p \in VacancyWithin(g, k, l, budget)
  PROVE  Choice(g, k, p)
<1> DEFINE free == {q \in Probes[l] : /\ q <= budget
                                      /\ SlotOn(g, k, l, q) # 0
                                      /\ Free(g, SlotOn(g, k, l, q))}
<1>1. PICK q \in First(free) : p = [level |-> l, probe |-> q]
  BY DEF VacancyWithin, Placement
<1>2. q \in free
  BY <1>1 DEF First
<1> QED BY <1>1, <1>2 DEF Choice

LEMMA ChooseSlotFacts ==
  ASSUME NEW g \in Generation, NEW k \in Keys, NEW target \in Nat,
         NEW p \in ChooseSlot(g, k, target)
  PROVE  Choice(g, k, p)
<1>1. g.shape \in Shapes /\ g.shape # 0
  BY DEF Generation, ChooseSlot
<1>2. CASE target = 0
  <2>1. p \in VacancyWithin(g, k, 0, SearchCap) /\ 0 \in Levels(g.shape)
    BY <1>1, <1>2, LevelFacts DEF ChooseSlot, UniformVacancy
  <2> QED BY <2>1, VacancyFacts
<1>3. CASE target # 0
  <2> DEFINE current == target - 1
  <2>1. p \in PairVacancy(g, k, current)
    BY <1>1, <1>3 DEF ChooseSlot
  <2>2. current + 1 = target
    OBVIOUS
  <2> HIDE DEF current
  <2>3. target \in Levels(g.shape)
    BY <2>1, <2>2 DEF PairVacancy
  <2>4. current \in Levels(g.shape)
    BY <1>1, <1>3, <2>3, LevelFacts DEF current
  <2>5. \/ p \in UniformVacancy(g, k, target)
        \/ p \in UniformVacancy(g, k, current)
        \/ \E budget : p \in VacancyWithin(g, k, current, budget)
    BY <2>1, <2>2 DEF PairVacancy
  <2> QED BY <2>3, <2>4, <2>5, VacancyFacts DEF UniformVacancy
<1> QED BY <1>2, <1>3

LEMMA OtherTargetFacts ==
  ASSUME NEW g \in Generation, NEW k \in Keys, NEW target,
         NEW p \in ChooseSlotOnOtherTargets(g, k, target)
  PROVE  Choice(g, k, p)
<1>1. \E t \in Levels(g.shape) : p \in ChooseSlot(g, k, t)
  BY DEF ChooseSlotOnOtherTargets, FirstChoice, First
<1>2. Levels(g.shape) \subseteq Nat
  BY LevelFacts DEF Generation
<1> QED BY <1>1, <1>2, ChooseSlotFacts

LEMMA FirstFreeFacts ==
  ASSUME NEW g \in Generation, NEW s \in FirstFreeSlot(g)
  PROVE  s \in SlotsOf(g) /\ s \in Slot /\ Free(g, s)
BY SlotFacts DEF FirstFreeSlot, First, SlotsOf, Generation

(* What a lookup finds is a slot that holds the key. *)
LEMMA FindHoldsKey ==
  ASSUME NEW g \in Generation, NEW k \in Keys,
         g.schedule \subseteq Routes[g.shape], NEW s \in Find(g, k)
  PROVE  s \in Slot /\ g.ctrl[s] = k
<1> DEFINE h11 == SlotOn(g, k, 0, 1)
<1>1. g.shape \in Shapes /\ g.shape # 0 /\ SlotsOf(g) \subseteq Slot
  BY SlotFacts DEF Generation, Find, SlotsOf
<1>2. h11 # 0 => h11 \in Slot
  BY <1>1, LevelFacts, HashAssumption, SlotOnFacts
<1>3. \A t \in FullScan(g, k) : t \in Slot /\ g.ctrl[t] = k
  BY <1>1 DEF FullScan, First
<1>4. ASSUME NEW r \in ScheduleStop(g, k), SlotOn(g, k, r[1], r[2]) # 0
      PROVE  /\ SlotOn(g, k, r[1], r[2]) \in Slot
             /\ g.ctrl[SlotOn(g, k, r[1], r[2])] = k
  <2>1. /\ r \in Routes[g.shape]
        /\ g.ctrl[SlotOn(g, k, r[1], r[2])] = k
    BY <1>4 DEF ScheduleStop
  <2> QED BY <1>1, <1>4, <2>1, RouteFacts, SlotOnFacts
<1>5. \/ s \in FullScan(g, k)
      \/ s = h11 /\ h11 # 0 /\ g.ctrl[h11] = k
      \/ \E r \in ScheduleStop(g, k) : /\ SlotOn(g, k, r[1], r[2]) # 0
                                       /\ s = SlotOn(g, k, r[1], r[2])
  BY DEF Find
<1> QED BY <1>2, <1>3, <1>4, <1>5

------------------------------------------------------------------------------
(* The scheduler's window.                                                 *)

(* The scheduler holds the window of its index: the one batch whose counts
   it answers for.  Without batches it stays at the index 0. *)
Window(ends, sch) ==
  IF ends = <<>> THEN sch.index = 0
  ELSE /\ sch.index \in 0..(Len(ends) - 1)
       /\ sch.start = IF sch.index = 0 THEN 0 ELSE ends[sch.index]
       /\ sch.end = ends[sch.index + 1]

LEMMA CountTo ==
  \A n \in Nat : IsFiniteSet(1..n) /\ Cardinality(1..n) = n
<1>1. ASSUME NEW n \in Nat PROVE IsFiniteSet(1..n) /\ Cardinality(1..n) = n
  <2>1. /\ 1 \in Int /\ n \in Int
        /\ IF 1 > n THEN n = 0 ELSE n - 1 + 1 = n
    OBVIOUS
  <2>2. IsFiniteSet(1..n) /\ Cardinality(1..n) = IF 1 > n THEN 0 ELSE n - 1 + 1
    BY <2>1, FS_Interval
  <2> QED BY <2>1, <2>2
<1> QED BY <1>1

(* The number of batches that have ended at a count, known by the first that
   has not. *)
LEMMA EndedIs ==
  ASSUME NEW ends \in Seq(Nat), NEW count \in Nat, NEW n \in 0..Len(ends),
         \A i \in DOMAIN ends : ends[i] <= count <=> i <= n
  PROVE  Ended(ends, count) = n
<1>1. Len(ends) \in Nat /\ DOMAIN ends = 1..Len(ends)
  BY LenProperties
<1>2. {i \in DOMAIN ends : ends[i] <= count} = 1..n
  BY <1>1
<1>3. Cardinality(1..n) = n
  BY <1>1, CountTo
<1> QED BY <1>2, <1>3 DEF Ended

LEMMA EndedType ==
  ASSUME NEW ends \in Seq(Nat), NEW count \in Nat
  PROVE  Ended(ends, count) \in 0..Len(ends)
<1> DEFINE S == {i \in DOMAIN ends : ends[i] <= count}
<1>1. Len(ends) \in Nat /\ DOMAIN ends = 1..Len(ends)
  BY LenProperties
<1>2. IsFiniteSet(1..Len(ends)) /\ Cardinality(1..Len(ends)) = Len(ends)
  BY <1>1, CountTo
<1>3. S \subseteq 1..Len(ends)
  BY <1>1
<1> HIDE DEF S
<1>4. IsFiniteSet(S) /\ Cardinality(S) <= Len(ends)
  BY <1>2, <1>3, FS_Subset
<1>5. Cardinality(S) \in Nat
  BY <1>4, FS_CardinalityType
<1> QED BY <1>1, <1>4, <1>5 DEF Ended, S

LEMMA SyncFacts ==
  ASSUME NEW ends \in Seq(Nat), NEW sch \in Scheduler, NEW count \in Nat
  PROVE  /\ Sync(ends, sch, count) \in Scheduler
         /\ ends = <<>> => Sync(ends, sch, count) = sch
         /\ ends # <<>> => /\ Window(ends, Sync(ends, sch, count))
                           /\ Sync(ends, sch, count).index =
                                IF Ended(ends, count) < Len(ends) THEN Ended(ends, count)
                                ELSE Len(ends) - 1
<1>1. CASE ends = <<>>
  BY <1>1 DEF Sync
<1>2. CASE ends # <<>>
  <2> DEFINE past == Ended(ends, count)
             index == IF past < Len(ends) THEN past ELSE Len(ends) - 1
             start == IF index = 0 THEN 0 ELSE ends[index]
             end == ends[index + 1]
  <2>1. past \in 0..Len(ends) /\ Len(ends) \in Nat \ {0}
    BY <1>2, EndedType, EmptySeq
  <2>2. Sync(ends, sch, count) = [index |-> index, start |-> start, end |-> end]
    BY <1>2 DEF Sync
  <2> HIDE DEF past
  <2>3. index \in 0..(Len(ends) - 1) /\ index \in Nat
    BY <2>1
  <2> HIDE DEF index
  <2>4. start \in Nat /\ end \in Nat
    BY <2>1, <2>3, ElementOfSeq
  <2> QED BY <1>2, <2>2, <2>3, <2>4 DEF Scheduler, Window, past, index
<1> QED BY <1>1, <1>2

LEMMA TargetFacts ==
  ASSUME NEW ends \in Seq(Nat), NEW sch \in Scheduler, NEW count \in Nat,
         Window(ends, sch)
  PROVE  /\ Target(ends, sch, count) \in Scheduler
         /\ Window(ends, Target(ends, sch, count))
BY SyncFacts DEF Target, Window

(* "The active batch is a function of the live count alone." *)
LEMMA TargetIsActive ==
  ASSUME NEW ends \in Seq(Nat), NEW sch \in Scheduler, NEW count \in Nat,
         Window(ends, sch),
         \A i, j \in DOMAIN ends : i <= j => ends[i] <= ends[j]
  PROVE  Target(ends, sch, count).index = ActiveBatch(ends, count)
<1> DEFINE open == {i \in DOMAIN ends : count < ends[i]}
<1>1. Len(ends) \in Nat /\ DOMAIN ends = 1..Len(ends)
      /\ \A i \in DOMAIN ends : ends[i] \in Nat
  BY LenProperties, ElementOfSeq
<1>2. CASE ends = <<>>
  BY <1>2 DEF Target, Sync, ActiveBatch, Window
<1>3. CASE ends # <<>> /\ open = {}
  <2>1. Len(ends) # 0
    BY <1>3, EmptySeq
  <2>2. \A i \in DOMAIN ends : ends[i] <= count
    BY <1>1, <1>3
  <2>3. Ended(ends, count) = Len(ends)
    <3>1. Len(ends) \in 0..Len(ends) /\ \A i \in DOMAIN ends : ends[i] <= count <=> i <= Len(ends)
      BY <1>1, <2>2
    <3> QED BY <3>1, EndedIs
  <2>4. count >= sch.end
    BY <1>1, <1>3, <2>1, <2>2 DEF Window
  <2>5. Target(ends, sch, count).index = Len(ends) - 1
    BY <1>3, <2>3, <2>4, SyncFacts, <1>1 DEF Target
  <2> QED BY <1>3, <2>5 DEF ActiveBatch
<1>4. CASE ends # <<>> /\ open # {}
  <2>1. open \in SUBSET Nat
    BY <1>1
  <2>2. PICK m \in open : \A j \in open : m <= j
    BY <1>4, <2>1, LeastNat
  <2>3. m \in 1..Len(ends) /\ m \in Nat
    BY <1>1
  <2>4. \A i \in DOMAIN ends : ends[i] <= count <=> i <= m - 1
    <3>1. ASSUME NEW i \in DOMAIN ends PROVE ends[i] <= count <=> i <= m - 1
      <4>1. i \in Nat /\ ends[i] \in Nat /\ ends[m] \in Nat /\ count < ends[m]
        BY <1>1, <2>3
      <4>2. i < m => ~(count < ends[i])
        BY <2>2, <2>3, <4>1
      <4>3. m <= i => ends[m] <= ends[i]
        BY <1>1, <2>3
      <4> QED BY <2>3, <4>1, <4>2, <4>3
    <3> QED BY <3>1
  <2>5. Ended(ends, count) = m - 1
    <3>1. m - 1 \in 0..Len(ends)
      BY <1>1, <2>3
    <3> QED BY <2>4, <3>1, EndedIs
  <2>6. ActiveBatch(ends, count) = m - 1
    <3>1. \A i \in open : (\A j \in open : i <= j) => i = m
      BY <2>1, <2>2
    <3>2. (CHOOSE i \in open : \A j \in open : i <= j) = m
      BY <2>2, <3>1
    <3> QED BY <1>4, <3>2 DEF ActiveBatch
  <2>7. CASE count >= sch.end \/ count < sch.start
    <3>1. Target(ends, sch, count) = Sync(ends, sch, count)
      BY <2>7 DEF Target
    <3>2. Sync(ends, sch, count).index = m - 1
      BY <1>1, <1>4, <2>3, <2>5, SyncFacts
    <3> QED BY <2>6, <3>1, <3>2
  <2>8. CASE ~(count >= sch.end \/ count < sch.start)
    <3>1. Target(ends, sch, count) = sch
      BY <2>8 DEF Target
    <3> DEFINE n == sch.index
    <3>2. /\ n \in 0..(Len(ends) - 1) /\ n \in Nat
          /\ sch.start = (IF n = 0 THEN 0 ELSE ends[n]) /\ sch.end = ends[n + 1]
      BY <1>1, <1>4 DEF Window
    <3> HIDE DEF n
    <3>3. count < ends[n + 1] /\ n + 1 \in DOMAIN ends
      BY <1>1, <2>8, <3>2
    <3>4. m <= n + 1
      BY <2>2, <3>3
    <3>5. ~(m <= n)
      <4>1. ASSUME m <= n PROVE FALSE
        <5>1. n # 0 /\ n \in DOMAIN ends /\ ends[n] \in Nat /\ ends[m] \in Nat
          BY <1>1, <2>3, <3>2, <4>1
        <5>2. ends[n] <= count
          BY <2>8, <3>2, <5>1
        <5>3. ends[m] <= ends[n] /\ count < ends[m]
          BY <1>1, <2>3, <4>1, <5>1
        <5> QED BY <5>1, <5>2, <5>3
      <4> QED BY <4>1
    <3>6. n = m - 1
      BY <2>3, <3>2, <3>4, <3>5
    <3> QED BY <2>6, <3>1, <3>6 DEF n
  <2> QED BY <2>7, <2>8
<1> QED BY <1>2, <1>3, <1>4

------------------------------------------------------------------------------
(* What the writes do to the fields a lookup or a placement reads.         *)

(* A generation as every step keeps it: the scheduler has a window, the
   schedule is the prefix of the paper's order up to the high water, and live
   keys are in the table and on the schedule, or flagged. *)
Scheduled(g) ==
  /\ g.schedule = RoutesBetween(g.shape, 0, g.highWater)
  /\ \A s \in Live(g) : s \in SlotsOf(g) /\ (g.exceptional \/ OnSchedule(g, s))

Good(g) ==
  /\ g \in Generation
  /\ Window(Batches[g.shape], g.scheduler)
  /\ Scheduled(g)

(* h has the shape, the scheduler and the schedule of g. *)
Frame(g, h) ==
  /\ h.shape = g.shape /\ h.scheduler = g.scheduler
  /\ h.schedule = g.schedule /\ h.highWater = g.highWater
  /\ h.exceptional = g.exceptional

(* Filter and bins of h are those of g with key k of slot s added. *)
Records(g, h, s, k) ==
  /\ h.filter = g.filter \cup FilterBits[g.shape][k]
  /\ h.bins = g.bins \cup {<<BinOf[g.shape][k], LevelBit(LevelAt(g, s))>>}

Recording(g, h, s, k) ==
  h \in Generation /\ Frame(g, h) /\ h.ctrl = g.ctrl /\ h.len = g.len /\ Records(g, h, s, k)

(* h is g with key k stored in slot s and counted. *)
Written(g, h, s, k) ==
  h.ctrl = [g.ctrl EXCEPT ![s] = k] /\ h.len = g.len + 1 /\ Records(g, h, s, k)

(* h is g with some slots freed, and one live entry at most counted out. *)
Shrunk(g, h) ==
  /\ h \in Generation /\ Frame(g, h) /\ h.filter = g.filter /\ h.bins = g.bins
  /\ \A s \in Slot : h.ctrl[s] = g.ctrl[s] \/ h.ctrl[s] \in {EMPTY, TOMBSTONE}
  /\ \/ h.len = g.len
     \/ h.len = Decrement(g.len) /\ \E s \in Live(g) : h.ctrl[s] \in {EMPTY, TOMBSTONE}

LEMMA CounterType == \A x \in Nat : Decrement(x) \in Nat /\ Increment(x) \in Nat
BY WordAssumption DEF Decrement, Increment

LEMMA LevelBitType ==
  ASSUME NEW g \in Generation, NEW s \in Slot
  PROVE  LevelAt(g, s) \in Level /\ LevelBit(LevelAt(g, s)) \in Nat
<1>1. LevelAt(g, s) \in Level
  BY ShapeAssumption DEF LevelAt, Generation
<1>2. SummaryLevel \in Nat
  BY HashAssumption
<1> QED BY <1>1, <1>2, LevelFacts DEF LevelBit

LEMMA RecordFacts ==
  ASSUME NEW g \in Generation, NEW s \in Slot, NEW k \in Keys
  PROVE  /\ Recording(g, RecordMembership(g, k, LevelAt(g, s)), s, k)
         /\ RecordMembership(g, k, LevelAt(g, s)).data = g.data
         /\ RecordMembership(g, k, LevelAt(g, s)).levelLen = g.levelLen
         /\ RecordMembership(g, k, LevelAt(g, s)).tombstones = g.tombstones
<1> DEFINE filter == g.filter \cup FilterBits[g.shape][k]
           bins == g.bins \cup {<<BinOf[g.shape][k], LevelBit(LevelAt(g, s))>>}
           h == RecordMembership(g, k, LevelAt(g, s))
<1>1. h = [g EXCEPT !.filter = filter, !.bins = bins]
  BY DEF RecordMembership
<1>2. /\ g.shape \in Shapes /\ FilterBits[g.shape][k] \subseteq Bits
      /\ BinOf[g.shape][k] \in Bins
  BY HashAssumption DEF Generation
<1>3. filter \in SUBSET Bits /\ bins \in SUBSET (Bins \X Nat)
  BY <1>2, LevelBitType DEF Generation
<1> HIDE DEF filter, bins, h
<1>4. h \in Generation
  BY <1>1, <1>3 DEF Generation
<1>5. /\ Frame(g, h) /\ h.ctrl = g.ctrl /\ h.len = g.len /\ h.data = g.data
      /\ h.levelLen = g.levelLen /\ h.tombstones = g.tombstones
      /\ h.filter = filter /\ h.bins = bins
  BY <1>1 DEF Generation, Frame
<1> QED BY <1>4, <1>5 DEF Recording, Records, h, filter, bins

LEMMA WriteFacts ==
  ASSUME NEW g \in Generation, NEW s \in Slot, NEW k \in Keys, NEW v \in Vals \cup {None}
  PROVE  /\ WriteNewEntry(g, s, k, v) \in Generation
         /\ Frame(g, WriteNewEntry(g, s, k, v))
         /\ Written(g, WriteNewEntry(g, s, k, v), s, k)
<1> DEFINE l == LevelAt(g, s)
           r == RecordMembership(g, k, l)
           h == WriteNewEntry(g, s, k, v)
           ctrl == [r.ctrl EXCEPT ![s] = k]
           data == [r.data EXCEPT ![s] = v]
           levelLen == [r.levelLen EXCEPT ![l] = @ + 1]
           fewer == [r.tombstones EXCEPT ![l] = IF g.ctrl[s] = TOMBSTONE
                                                THEN Decrement(@) ELSE @]
<1>1. /\ r \in Generation /\ Frame(g, r) /\ r.ctrl = g.ctrl /\ r.len = g.len
      /\ Records(g, r, s, k) /\ l \in Level
  BY RecordFacts, LevelBitType DEF Recording
<1>2. ctrl \in [Slot -> Control] /\ data \in [Slot -> Vals \cup {None}]
  BY <1>1 DEF Generation, Control
<1>3. levelLen \in [Level -> Nat]
  BY <1>1 DEF Generation
<1>4. fewer \in [Level -> Nat]
  BY <1>1, CounterType DEF Generation
<1>5. h = [r EXCEPT !.ctrl = ctrl, !.data = data, !.len = r.len + 1,
                    !.levelLen = levelLen, !.tombstones = fewer]
  BY <1>1 DEF WriteNewEntry, Generation
<1>6. r.len + 1 \in Nat
  BY <1>1 DEF Generation
<1> HIDE DEF r, h, ctrl, data, levelLen, fewer
<1>7. h \in Generation
  BY <1>1, <1>2, <1>3, <1>4, <1>5, <1>6 DEF Generation
<1>8. Frame(r, h) /\ h.ctrl = ctrl /\ h.len = r.len + 1
      /\ h.filter = r.filter /\ h.bins = r.bins
  BY <1>1, <1>5 DEF Generation, Frame
<1>9. Frame(g, h) /\ Written(g, h, s, k)
  BY <1>1, <1>8 DEF Frame, Written, Records, ctrl
<1> QED BY <1>7, <1>9 DEF h

LEMMA TombstoneFacts ==
  ASSUME NEW g \in Generation, NEW s \in Live(g)
  PROVE  /\ Shrunk(g, TombstoneSlot(g, s))
         /\ TombstoneSlot(g, s).ctrl = [g.ctrl EXCEPT ![s] = TOMBSTONE]
         /\ TombstoneSlot(g, s).len = g.len
<1> DEFINE t == TombstoneSlot(g, s)
           ctrl == [g.ctrl EXCEPT ![s] = TOMBSTONE]
           data == [g.data EXCEPT ![s] = None]
<1>1. t = [g EXCEPT !.ctrl = ctrl, !.data = data]
  BY DEF TombstoneSlot
<1>2. ctrl \in [Slot -> Control] /\ data \in [Slot -> Vals \cup {None}]
  BY DEF Control, Generation
<1>3. \A x \in Slot : ctrl[x] = g.ctrl[x] \/ ctrl[x] \in {EMPTY, TOMBSTONE}
  BY DEF Generation
<1> HIDE DEF t, ctrl, data
<1>4. t \in Generation
  BY <1>1, <1>2 DEF Generation
<1>5. Frame(g, t) /\ t.ctrl = ctrl /\ t.filter = g.filter /\ t.bins = g.bins /\ t.len = g.len
  BY <1>1 DEF Generation, Frame
<1> QED BY <1>3, <1>4, <1>5 DEF Shrunk, t, ctrl

LEMMA ExtractFacts ==
  ASSUME NEW g \in Generation, NEW s \in Live(g)
  PROVE  Shrunk(g, ExtractFinish(g, s))
<1> DEFINE t == TombstoneSlot(g, s)
           h == ExtractFinish(g, s)
           l == LevelAt(g, s)
           levelLen == [t.levelLen EXCEPT ![l] = Decrement(@)]
           tombstones == [t.tombstones EXCEPT ![l] = Increment(@)]
<1>1. /\ t \in Generation /\ Frame(g, t) /\ t.filter = g.filter /\ t.bins = g.bins
      /\ t.ctrl = [g.ctrl EXCEPT ![s] = TOMBSTONE] /\ t.len = g.len
      /\ \A x \in Slot : t.ctrl[x] = g.ctrl[x] \/ t.ctrl[x] \in {EMPTY, TOMBSTONE}
  BY TombstoneFacts DEF Shrunk
<1>2. s \in Slot /\ l \in Level
  BY LevelBitType DEF Live
<1>3. levelLen \in [Level -> Nat]
  BY <1>1, CounterType DEF Generation
<1>4. tombstones \in [Level -> Nat]
  <2>1. t.tombstones \in [Level -> Nat]
    BY <1>1 DEF Generation
  <2> HIDE DEF t
  <2>2. Increment(t.tombstones[l]) \in Nat
    BY <1>2, <2>1, CounterType
  <2> QED BY <2>1, <2>2
<1>5. Decrement(t.len) \in Nat /\ t.stale + 1 \in Nat
  BY <1>1, CounterType DEF Generation
<1>6. h = [t EXCEPT !.len = Decrement(t.len), !.levelLen = levelLen,
                    !.tombstones = tombstones, !.stale = t.stale + 1]
  BY DEF ExtractFinish
<1>7. t.ctrl[s] = TOMBSTONE
  BY <1>1, <1>2 DEF Generation
<1> HIDE DEF t, h, levelLen, tombstones, l
<1>8. h \in Generation
  BY <1>1, <1>3, <1>4, <1>5, <1>6 DEF Generation
<1>9. /\ Frame(t, h) /\ h.ctrl = t.ctrl /\ h.filter = t.filter /\ h.bins = t.bins
      /\ h.len = Decrement(t.len)
  BY <1>1, <1>6 DEF Generation, Frame
<1> QED BY <1>1, <1>2, <1>7, <1>8, <1>9 DEF Shrunk, Frame, h

------------------------------------------------------------------------------
(* What every step keeps.                                                  *)

(* A generation is still good when its schedule has grown along the paper's
   order, and slots kept their keys, lost them, or got one that lookups reach. *)
LEMMA KeepsGood ==
  ASSUME NEW g \in Generation, Good(g), NEW h \in Generation,
         h.shape = g.shape, Window(Batches[h.shape], h.scheduler),
         h.schedule = RoutesBetween(h.shape, 0, h.highWater),
         g.schedule \subseteq h.schedule, g.exceptional => h.exceptional,
         \A s \in Slot : h.ctrl[s] \in Keys =>
            \/ h.ctrl[s] = g.ctrl[s]
            \/ s \in SlotsOf(h) /\ (h.exceptional \/ OnSchedule(h, s))
  PROVE  Good(h)
<1>1. ASSUME NEW s \in Live(h)
      PROVE  s \in SlotsOf(h) /\ (h.exceptional \/ OnSchedule(h, s))
  <2>1. s \in Slot /\ h.ctrl[s] \in Keys
    BY DEF Live
  <2>2. CASE h.ctrl[s] = g.ctrl[s]
    <3>1. s \in SlotsOf(g) /\ (g.exceptional \/ OnSchedule(g, s))
      BY <2>1, <2>2 DEF Good, Scheduled, Live
    <3>2. LevelAt(h, s) = LevelAt(g, s) /\ SlotsOf(h) = SlotsOf(g)
      BY DEF LevelAt, SlotsOf
    <3>3. \A l, p : SlotOn(h, h.ctrl[s], l, p) = SlotOn(g, g.ctrl[s], l, p)
      BY <2>2 DEF SlotOn
    <3>4. OnSchedule(g, s) => OnSchedule(h, s)
      <4>1. SUFFICES ASSUME NEW p \in Probes[LevelAt(g, s)],
                            SlotOn(g, g.ctrl[s], LevelAt(g, s), p) = s,
                            <<LevelAt(g, s), p>> \in g.schedule \cup {<<0, 1>>}
                     PROVE  OnSchedule(h, s)
        BY DEF OnSchedule
      <4>2. <<LevelAt(h, s), p>> \in h.schedule \cup {<<0, 1>>}
        BY <3>2, <4>1
      <4>3. SlotOn(h, h.ctrl[s], LevelAt(h, s), p) = s
        BY <3>2, <3>3, <4>1
      <4> QED BY <3>2, <4>2, <4>3 DEF OnSchedule
    <3> QED BY <3>1, <3>2, <3>4
  <2>3. CASE s \in SlotsOf(h) /\ (h.exceptional \/ OnSchedule(h, s))
    BY <2>3
  <2> QED BY <2>1, <2>2, <2>3
<1> QED BY <1>1 DEF Good, Scheduled

(* The schedule after a further stretch of the paper's order. *)
LEMMA RoutesJoin ==
  ASSUME NEW sh \in Shapes, NEW a \in Nat, NEW b \in Nat, a <= b
  PROVE  RoutesBetween(sh, 0, a) \cup RoutesBetween(sh, a, b) = RoutesBetween(sh, 0, b)
<1>1. \A r \in Routes[sh] : Phi[r[1]][r[2]] \in Nat \ {0}
  BY RouteFacts
<1> QED BY <1>1 DEF RoutesBetween

(* Nothing live, nothing scheduled. *)
LEMMA EmptyIsGood ==
  ASSUME NEW g \in Generation, Window(Batches[g.shape], g.scheduler),
         g.schedule = {}, g.highWater = 0, Live(g) = {}
  PROVE  Good(g)
<1>1. \A r \in Routes[g.shape] : Phi[r[1]][r[2]] \in Nat \ {0}
  BY RouteFacts DEF Generation
<1>2. RoutesBetween(g.shape, 0, 0) = {}
  BY <1>1 DEF RoutesBetween
<1> QED BY <1>2 DEF Good, Scheduled

LEMMA BatchFacts ==
  \A sh \in Shapes :
     /\ Batches[sh] \in Seq(Nat)
     /\ \A i, j \in DOMAIN Batches[sh] : i <= j => Batches[sh][i] <= Batches[sh][j]
     /\ Batches[sh] = <<>> => sh = 0
BY ShapeAssumption

(* The synchronised generation differs in its scheduler alone. *)
Same(g, h) ==
  /\ h.shape = g.shape /\ h.ctrl = g.ctrl /\ h.len = g.len
  /\ h.filter = g.filter /\ h.bins = g.bins

LEMMA SyncedFacts ==
  ASSUME NEW g \in Generation, Good(g)
  PROVE  /\ Good(Synced(g)) /\ Same(g, Synced(g))
         /\ Synced(g).scheduler.index \in Nat
         /\ Synced(g).scheduler.index = ActiveBatch(Batches[g.shape], g.len)
<1> DEFINE ends == Batches[g.shape]
           sch == Target(ends, g.scheduler, g.len)
           h == Synced(g)
<1>1. /\ ends \in Seq(Nat)
      /\ \A i, j \in DOMAIN ends : i <= j => ends[i] <= ends[j]
      /\ g.scheduler \in Scheduler /\ g.len \in Nat /\ Window(ends, g.scheduler)
  BY BatchFacts DEF Good, Generation
<1>2. /\ sch \in Scheduler /\ Window(ends, sch)
      /\ sch.index = ActiveBatch(ends, g.len)
  BY <1>1, TargetFacts, TargetIsActive
<1>3. h = [g EXCEPT !.scheduler = sch]
  BY DEF Synced
<1> HIDE DEF sch, h
<1>4. h \in Generation /\ h.scheduler = sch
  BY <1>2, <1>3 DEF Generation
<1>5. /\ Same(g, h) /\ h.schedule = g.schedule /\ h.highWater = g.highWater
      /\ h.exceptional = g.exceptional
  BY <1>3 DEF Generation, Same
<1>6. Good(h)
  BY <1>2, <1>4, <1>5, KeepsGood DEF Good, Scheduled, Same
<1>7. sch.index \in Nat
  BY <1>2 DEF Scheduler
<1> QED BY <1>2, <1>4, <1>5, <1>6, <1>7 DEF h

LEMMA FrameGood ==
  ASSUME NEW g \in Generation, Good(g), NEW h \in Generation, Frame(g, h),
         \A s \in Slot : h.ctrl[s] = g.ctrl[s] \/ h.ctrl[s] \in {EMPTY, TOMBSTONE}
  PROVE  Good(h)
<1>1. \A s \in Slot : h.ctrl[s] \in Keys => h.ctrl[s] = g.ctrl[s]
  BY FreeAssumption
<1>2. /\ h.shape = g.shape /\ Window(Batches[h.shape], h.scheduler)
      /\ h.schedule = RoutesBetween(h.shape, 0, h.highWater)
      /\ g.schedule \subseteq h.schedule
      /\ g.exceptional => h.exceptional
  BY DEF Frame, Good, Scheduled
<1> QED BY <1>1, <1>2, KeepsGood

LEMMA ShrunkGood ==
  ASSUME NEW g \in Generation, Good(g), NEW h, Shrunk(g, h)
  PROVE  h \in Generation /\ Good(h)
BY FrameGood DEF Shrunk

LEMMA RecordingGood ==
  ASSUME NEW g \in Generation, Good(g), NEW h, NEW s, NEW k, Recording(g, h, s, k)
  PROVE  h \in Generation /\ Good(h)
BY FrameGood DEF Recording

------------------------------------------------------------------------------
(* Placements.                                                             *)

(* h is g with k placed in the free slot s, where lookups reach it. *)
Stores(g, h, s, k) ==
  /\ Free(g, s) /\ h \in Generation /\ Good(h)
  /\ h.shape = g.shape /\ Written(g, h, s, k)

LEMMA WrittenSlot ==
  ASSUME NEW g \in Generation, NEW h, NEW s \in Slot, NEW k, Written(g, h, s, k)
  PROVE  h.ctrl[s] = k /\ \A t \in Slot : t # s => h.ctrl[t] = g.ctrl[t]
BY DEF Written, Generation

LEMMA ExtendFacts ==
  ASSUME NEW g \in Generation, Good(g), NEW p,
         p.level \in Levels(g.shape), p.probe \in Probes[p.level]
  PROVE  LET h == ExtendProbeSchedule(g, p)
         IN  /\ Good(h) /\ Same(g, h) /\ h.exceptional = g.exceptional
             /\ g.schedule \subseteq h.schedule
             /\ <<p.level, p.probe>> \in h.schedule \cup {<<0, 1>>}
<1> DEFINE l == p.level
           q == p.probe
           position == Phi[l][q]
           more == RoutesBetween(g.shape, g.highWater, position)
           schedule == g.schedule \cup more
           h == ExtendProbeSchedule(g, p)
<1>1. /\ g.shape \in Shapes /\ g.highWater \in Nat /\ l \in Level
      /\ q \in 1..SearchCap /\ position \in Nat \ {0}
  <2>1. g.shape \in Shapes /\ g.highWater \in Nat
    BY DEF Generation
  <2>2. l \in Level
    BY <2>1, LevelFacts
  <2> QED BY <2>1, <2>2, ProbeFacts
<1>2. /\ g.schedule = RoutesBetween(g.shape, 0, g.highWater)
      /\ Window(Batches[g.shape], g.scheduler)
  BY DEF Good, Scheduled
<1>3. <<l, q>> # <<0, 1>> => <<l, q>> \in Routes[g.shape]
  BY <1>1, RouteExists
<1>4. <<l, q>>[1] = l /\ <<l, q>>[2] = q
  OBVIOUS
<1>5. CASE position <= g.highWater
  <2>1. h = g
    BY <1>5 DEF ExtendProbeSchedule
  <2>2. <<l, q>> # <<0, 1>> => <<l, q>> \in g.schedule
    BY <1>1, <1>2, <1>3, <1>4, <1>5 DEF RoutesBetween
  <2> QED BY <2>1, <2>2 DEF Same
<1>6. CASE ~(position <= g.highWater)
  <2>1. h = [g EXCEPT !.schedule = schedule, !.highWater = position]
    BY <1>6 DEF ExtendProbeSchedule
  <2>2. more \subseteq Level \X (1..SearchCap)
    BY <1>1, RouteFacts DEF RoutesBetween
  <2>3. schedule \in SUBSET (Level \X (1..SearchCap))
    BY <2>2 DEF Generation
  <2>4. schedule = RoutesBetween(g.shape, 0, position)
    BY <1>1, <1>2, <1>6, RoutesJoin
  <2>5. <<l, q>> # <<0, 1>> => <<l, q>> \in schedule
    BY <1>1, <1>3, <1>4, <2>4 DEF RoutesBetween
  <2>6. g.schedule \subseteq schedule
    OBVIOUS
  <2> HIDE DEF position, schedule, h, l, q
  <2>7. h \in Generation /\ h.schedule = schedule /\ h.highWater = position
    BY <1>1, <2>1, <2>3 DEF Generation
  <2>8. /\ Same(g, h) /\ h.exceptional = g.exceptional /\ h.scheduler = g.scheduler
    BY <2>1 DEF Generation, Same
  <2>9. Good(h)
    BY <1>2, <2>4, <2>6, <2>7, <2>8, KeepsGood DEF Same
  <2> QED BY <2>5, <2>6, <2>7, <2>8, <2>9 DEF h, l, q
<1> QED BY <1>5, <1>6

LEMMA PlaceNewEntryFacts ==
  ASSUME NEW g \in Generation, Good(g), NEW k \in Keys, NEW v \in Vals \cup {None},
         NEW p, Choice(g, k, p)
  PROVE  \E s \in Slot : Stores(g, PlaceNewEntry(g, p, k, v), s, k)
<1> DEFINE s == SlotOn(g, k, p.level, p.probe)
           x == ExtendProbeSchedule(g, p)
           h == WriteNewEntry(x, s, k, v)
<1>1. /\ p.level \in Levels(g.shape) /\ p.probe \in Probes[p.level]
      /\ s # 0 /\ Free(g, s) /\ g.shape \in Shapes
  BY DEF Choice, Generation
<1>2. s \in SlotsOf(g) /\ s \in Slot /\ LevelAt(g, s) = p.level
  BY <1>1, SlotOnFacts
<1>3. /\ x \in Generation /\ Good(x) /\ Same(g, x)
      /\ g.schedule \subseteq x.schedule /\ x.exceptional = g.exceptional
      /\ <<p.level, p.probe>> \in x.schedule \cup {<<0, 1>>}
  BY <1>1, ExtendFacts DEF Good
<1>4. SlotOn(x, k, p.level, p.probe) = s
  BY <1>3 DEF SlotOn, Same
<1>5. PlaceNewEntry(g, p, k, v) = h
  BY <1>4 DEF PlaceNewEntry
<1> HIDE DEF s, x, h
<1>6. h \in Generation /\ Frame(x, h) /\ Written(x, h, s, k)
  BY <1>2, <1>3, WriteFacts DEF h
<1>7. h.ctrl[s] = k /\ \A t \in Slot : t # s => h.ctrl[t] = x.ctrl[t]
  BY <1>2, <1>3, <1>6, WrittenSlot
<1>8. h.shape = g.shape /\ x.shape = g.shape /\ h.schedule = x.schedule
  BY <1>3, <1>6 DEF Frame, Same
<1>9. s \in SlotsOf(h) /\ OnSchedule(h, s)
  <2>1. LevelAt(h, s) = p.level /\ SlotsOf(h) = SlotsOf(g)
    BY <1>2, <1>8 DEF LevelAt, SlotsOf
  <2>2. SlotOn(h, k, p.level, p.probe) = s
    BY <1>8 DEF SlotOn, s
  <2> QED BY <1>1, <1>2, <1>3, <1>7, <1>8, <2>1, <2>2 DEF OnSchedule
<1>10. Good(h)
  <2>1. /\ Window(Batches[h.shape], h.scheduler) /\ h.shape = x.shape
        /\ h.schedule = RoutesBetween(h.shape, 0, h.highWater)
        /\ x.schedule \subseteq h.schedule
        /\ x.exceptional => h.exceptional
    BY <1>3, <1>6 DEF Frame, Good, Scheduled
  <2>2. \A t \in Slot : h.ctrl[t] \in Keys =>
           h.ctrl[t] = x.ctrl[t] \/ (t \in SlotsOf(h) /\ OnSchedule(h, t))
    BY <1>7, <1>9
  <2> QED BY <1>3, <1>6, <2>1, <2>2, KeepsGood
<1>11. Written(g, h, s, k)
  BY <1>3, <1>6 DEF Written, Records, Same, LevelAt
<1> QED BY <1>1, <1>2, <1>5, <1>6, <1>8, <1>10, <1>11 DEF Stores

LEMMA PlaceExceptionalFacts ==
  ASSUME NEW g \in Generation, Good(g), NEW k \in Keys, NEW v \in Vals \cup {None},
         NEW s \in FirstFreeSlot(g)
  PROVE  s \in Slot /\ Stores(g, PlaceExceptional(g, s, k, v), s, k)
<1> DEFINE w == WriteNewEntry(g, s, k, v)
           h == PlaceExceptional(g, s, k, v)
<1>1. s \in SlotsOf(g) /\ s \in Slot /\ Free(g, s)
  BY FirstFreeFacts
<1>2. w \in Generation /\ Frame(g, w) /\ Written(g, w, s, k)
  BY <1>1, WriteFacts
<1>3. h = [w EXCEPT !.exceptional = TRUE]
  BY DEF PlaceExceptional
<1> HIDE DEF w, h
<1>4. h \in Generation /\ h.exceptional = TRUE
  BY <1>2, <1>3 DEF Generation
<1>5. /\ Same(w, h) /\ h.schedule = w.schedule /\ h.highWater = w.highWater
      /\ h.scheduler = w.scheduler
  BY <1>2, <1>3 DEF Generation, Same
<1>6. Written(g, h, s, k) /\ h.shape = g.shape
  BY <1>2, <1>5 DEF Written, Records, Same, Frame
<1>7. \A t \in Slot : t # s => h.ctrl[t] = g.ctrl[t]
  BY <1>1, <1>6, WrittenSlot
<1>8. Good(h)
  <2>1. /\ Window(Batches[h.shape], h.scheduler)
        /\ h.schedule = RoutesBetween(h.shape, 0, h.highWater)
        /\ g.schedule \subseteq h.schedule
        /\ g.exceptional => h.exceptional
    BY <1>2, <1>4, <1>5, <1>6 DEF Frame, Good, Scheduled
  <2>2. \A t \in Slot : h.ctrl[t] \in Keys =>
           h.ctrl[t] = g.ctrl[t] \/ (t \in SlotsOf(h) /\ h.exceptional)
    BY <1>1, <1>4, <1>6, <1>7 DEF SlotsOf
  <2> QED BY <1>4, <1>6, <2>1, <2>2, KeepsGood
<1> QED BY <1>1, <1>4, <1>6, <1>8 DEF Stores, h

(* A placement on the synchronised generation is one on the generation. *)
LEMMA PlacedSynced ==
  ASSUME NEW g, NEW x, NEW h, NEW s, NEW k, Same(g, x), Stores(x, h, s, k)
  PROVE  Stores(g, h, s, k)
BY DEF Stores, Written, Records, Same, LevelAt, Free

------------------------------------------------------------------------------
(* Generations that start over.                                            *)

LEMMA FreshFacts ==
  ASSUME NEW shape \in Shapes
  PROVE  /\ Fresh(shape) \in Generation /\ Good(Fresh(shape))
         /\ Live(Fresh(shape)) = {} /\ Fresh(shape).len = 0
<1> DEFINE ends == Batches[shape]
           old == [index |-> 0, start |-> 0, end |-> Unbounded]
           sch == NewScheduler(ends)
           h == Fresh(shape)
<1>1. ends \in Seq(Nat) /\ old \in Scheduler
  BY BatchFacts, UnboundedAssumption DEF Scheduler
<1>2. sch = Sync(ends, old, 0)
  BY DEF NewScheduler
<1>3. sch \in Scheduler /\ Window(ends, sch)
  <2>1. old.index = 0
    OBVIOUS
  <2> HIDE DEF ends, old, sch
  <2>2. sch \in Scheduler /\ (ends = <<>> => sch = old)
        /\ (ends # <<>> => Window(ends, sch))
    BY <1>1, <1>2, SyncFacts
  <2> QED BY <2>1, <2>2 DEF Window
<1> HIDE DEF ends, sch
<1>4. /\ h.shape = shape /\ h.scheduler = sch /\ h.schedule = {} /\ h.highWater = 0
      /\ h.len = 0 /\ h.ctrl = [s \in Slot |-> EMPTY]
  BY DEF Fresh, ends, sch
<1>5. Live(h) = {}
  BY <1>4, FreeAssumption DEF Live
<1>6. h \in Generation
  BY <1>3 DEF Fresh, Generation, Control, ends, sch
<1> HIDE DEF h
<1>7. Good(h)
  BY <1>3, <1>4, <1>5, <1>6, EmptyIsGood DEF ends
<1> QED BY <1>4, <1>5, <1>6, <1>7 DEF h

LEMMA ClearMembershipFacts ==
  ASSUME NEW g \in Generation, Good(g)
  PROVE  LET h == ClearMembership(g)
         IN  /\ h \in Generation /\ Good(h) /\ h.filter = {} /\ h.bins = {}
             /\ h.shape = g.shape /\ h.ctrl = g.ctrl /\ h.len = g.len
             /\ Frame(g, h)
<1> DEFINE h == ClearMembership(g)
<1>1. h = [g EXCEPT !.filter = {}, !.bins = {}, !.stale = 0]
  BY DEF ClearMembership
<1> HIDE DEF h
<1>2. h \in Generation /\ Frame(g, h) /\ h.ctrl = g.ctrl
  <2>1. 0 \in Nat /\ {} \in SUBSET Bits /\ {} \in SUBSET (Bins \X Nat)
    OBVIOUS
  <2>2. h \in Generation
    BY <1>1, <2>1 DEF Generation
  <2> QED BY <1>1, <2>2 DEF Generation, Frame
<1>3. /\ h.filter = {} /\ h.bins = {} /\ h.shape = g.shape /\ h.len = g.len
  BY <1>1 DEF Generation
<1>4. Good(h)
  BY <1>2, FrameGood
<1> QED BY <1>2, <1>3, <1>4 DEF h

LEMMA ResetLevelsFacts ==
  ASSUME NEW g \in Generation, NEW L \in SUBSET Level
  PROVE  LET h == ResetLevels(g, L)
         IN  /\ h \in Generation /\ Frame(g, h) /\ h.len = g.len
             /\ h.filter = g.filter /\ h.bins = g.bins
             /\ h.data = g.data /\ h.levelLen = g.levelLen
             /\ \A s \in Slot : h.ctrl[s] = IF s \in SlotsOf(g) /\ LevelAt(g, s) \in L
                                            THEN EMPTY ELSE g.ctrl[s]
<1> DEFINE h == ResetLevels(g, L)
           ctrl == [s \in Slot |-> IF s \in SlotsOf(g) /\ LevelAt(g, s) \in L
                                   THEN EMPTY ELSE g.ctrl[s]]
           tombstones == [l \in Level |-> IF l \in L THEN 0 ELSE g.tombstones[l]]
<1>1. h = [g EXCEPT !.ctrl = ctrl, !.tombstones = tombstones]
  BY DEF ResetLevels
<1>2. ctrl \in [Slot -> Control]
  BY DEF Generation, Control
<1>3. tombstones \in [Level -> Nat]
  BY DEF Generation
<1>4. \A s \in Slot : ctrl[s] = IF s \in SlotsOf(g) /\ LevelAt(g, s) \in L
                                THEN EMPTY ELSE g.ctrl[s]
  OBVIOUS
<1> HIDE DEF h, ctrl, tombstones
<1>5. h \in Generation
  BY <1>1, <1>2, <1>3 DEF Generation
<1>6. /\ Frame(g, h) /\ h.len = g.len /\ h.filter = g.filter /\ h.bins = g.bins
      /\ h.data = g.data /\ h.levelLen = g.levelLen /\ h.ctrl = ctrl
  BY <1>1 DEF Generation, Frame
<1> QED BY <1>4, <1>5, <1>6 DEF h

LEMMA DrainResetFacts ==
  ASSUME NEW g \in Generation, NEW s \in Live(g)
  PROVE  Shrunk(g, DrainResetEntry(g, s))
<1> DEFINE L == {l \in Level : l < LevelAt(g, s)}
           r == ResetLevels(g, L)
           m == LevelAt(g, s)
           h == DrainResetEntry(g, s)
           ctrl == [r.ctrl EXCEPT ![s] = EMPTY]
           data == [r.data EXCEPT ![s] = None]
           levelLen == [r.levelLen EXCEPT ![m] = Decrement(@)]
<1>1. s \in Slot /\ m \in Level
  BY LevelBitType DEF Live
<1>2. /\ r \in Generation /\ Frame(g, r) /\ r.len = g.len
      /\ r.filter = g.filter /\ r.bins = g.bins
      /\ \A t \in Slot : r.ctrl[t] = g.ctrl[t] \/ r.ctrl[t] = EMPTY
  <2>1. L \in SUBSET Level
    OBVIOUS
  <2> HIDE DEF L
  <2> QED BY <2>1, ResetLevelsFacts
<1>3. h = [r EXCEPT !.ctrl = ctrl, !.data = data, !.len = Decrement(r.len),
                    !.levelLen = levelLen]
  BY DEF DrainResetEntry
<1> HIDE DEF r, h, m, L
<1>4. ctrl \in [Slot -> Control] /\ data \in [Slot -> Vals \cup {None}]
  BY <1>2 DEF Generation, Control
<1>5. levelLen \in [Level -> Nat]
  BY <1>2, CounterType DEF Generation
<1>6. Decrement(r.len) \in Nat
  BY <1>2, CounterType DEF Generation
<1>7. /\ ctrl[s] = EMPTY
      /\ \A t \in Slot : ctrl[t] = g.ctrl[t] \/ ctrl[t] = EMPTY
  BY <1>1, <1>2 DEF Generation
<1> HIDE DEF ctrl, data, levelLen
<1>8. h \in Generation
  BY <1>2, <1>3, <1>4, <1>5, <1>6 DEF Generation
<1>9. /\ Frame(r, h) /\ h.ctrl = ctrl /\ h.filter = r.filter /\ h.bins = r.bins
      /\ h.len = Decrement(r.len)
  BY <1>2, <1>3 DEF Generation, Frame
<1>10. Frame(g, h)
  BY <1>2, <1>9 DEF Frame
<1> QED BY <1>2, <1>7, <1>8, <1>9, <1>10 DEF Shrunk, h

(* Everything but the slots starts over; without live keys all does. *)
LEMMA ResetAfterClearFacts ==
  ASSUME NEW g \in Generation, Window(Batches[g.shape], g.scheduler), Live(g) = {}
  PROVE  LET h == ResetAfterClear(g)
         IN  /\ h \in Generation /\ Good(h) /\ Live(h) = {} /\ h.len = g.len
<1> DEFINE ends == Batches[g.shape]
           sch == Sync(ends, g.scheduler, 0)
           h == ResetAfterClear(g)
<1>1. ends \in Seq(Nat) /\ g.scheduler \in Scheduler
  BY BatchFacts DEF Generation
<1>2. sch \in Scheduler /\ Window(ends, sch)
  <2> HIDE DEF ends
  <2>1. Window(ends, g.scheduler)
    BY DEF ends
  <2> QED BY <1>1, <2>1, SyncFacts
<1>3. h = [g EXCEPT !.filter = {}, !.bins = {}, !.stale = 0, !.scheduler = sch,
                    !.highWater = 0, !.exceptional = FALSE, !.schedule = {}]
  BY DEF ResetAfterClear, ClearMembership, Generation
<1> HIDE DEF h, sch
<1>4. h \in Generation
  BY <1>2, <1>3 DEF Generation
<1>5. /\ h.shape = g.shape /\ h.scheduler = sch /\ h.schedule = {}
      /\ h.highWater = 0 /\ h.ctrl = g.ctrl /\ h.len = g.len
  BY <1>3 DEF Generation
<1>6. Live(h) = {}
  BY <1>5 DEF Live
<1>7. Good(h)
  BY <1>2, <1>4, <1>5, <1>6, EmptyIsGood
<1> QED BY <1>4, <1>5, <1>6, <1>7 DEF h

LEMMA FinishClearFacts ==
  ASSUME NEW g \in Generation, Good(g), Live(g) = {}
  PROVE  LET h == FinishClear(g)
         IN  h \in Generation /\ Good(h) /\ Live(h) = {} /\ h.len = g.len
<1> DEFINE r == ResetLevels(g, Level)
<1>1. /\ r \in Generation /\ Frame(g, r) /\ r.len = g.len
      /\ \A s \in Slot : r.ctrl[s] = g.ctrl[s] \/ r.ctrl[s] = EMPTY
  BY ResetLevelsFacts
<1>2. FinishClear(g) = ResetAfterClear(r)
  BY DEF FinishClear
<1> HIDE DEF r
<1>3. Live(r) = {} /\ Window(Batches[r.shape], r.scheduler)
  BY <1>1, FreeAssumption DEF Live, Frame, Good
<1> QED BY <1>1, <1>2, <1>3, ResetAfterClearFacts

LEMMA WipeAllFacts ==
  ASSUME NEW g \in Generation, Good(g)
  PROVE  LET h == WipeAll(g)
         IN  h \in Generation /\ Good(h) /\ Live(h) = {} /\ h.len = 0
<1> DEFINE ctrl == [s \in Slot |-> EMPTY]
           data == [s \in Slot |-> None]
           counts == [l \in Level |-> 0]
           r == [g EXCEPT !.ctrl = ctrl, !.data = data, !.len = 0,
                          !.levelLen = counts, !.tombstones = counts]
<1>1. ctrl \in [Slot -> Control] /\ data \in [Slot -> Vals \cup {None}]
  BY DEF Control
<1>2. counts \in [Level -> Nat]
  OBVIOUS
<1>3. \A s \in Slot : ctrl[s] \notin Keys
  BY FreeAssumption
<1>4. WipeAll(g) = ResetAfterClear(r)
  BY DEF WipeAll
<1> HIDE DEF ctrl, data, counts
<1>5. r \in Generation
  BY <1>1, <1>2 DEF Generation
<1>6. r.shape = g.shape /\ r.scheduler = g.scheduler /\ r.ctrl = ctrl /\ r.len = 0
  BY DEF Generation
<1> HIDE DEF r
<1>7. Live(r) = {} /\ Window(Batches[r.shape], r.scheduler)
  BY <1>3, <1>6 DEF Live, Good
<1> QED BY <1>4, <1>5, <1>6, <1>7, ResetAfterClearFacts

------------------------------------------------------------------------------
(* What a step does to the table and the call.                             *)

(* An insert that waits for its rebuild or its placement has a key; clear takes
   the slots from the first on. *)
CallInv ==
  /\ call.at = "clear" => call.cursor = 0
  /\ call.at = "place" => call.then # "return"
  /\ call.at \in {"place", "rebuild"} /\ call.then # "return" => call.key \in Keys

Inv ==
  /\ TypeOK /\ CallInv /\ Good(table)
  /\ call.at = "rebuild" => Good(previous)

(* h holds what g holds, less what was removed. *)
Kept(g, h) ==
  /\ h.shape = g.shape /\ h.filter = g.filter /\ h.bins = g.bins
  /\ \A s \in Slot : h.ctrl[s] = g.ctrl[s] \/ h.ctrl[s] \in {EMPTY, TOMBSTONE}
  /\ \/ h.len = g.len
     \/ h.len = Decrement(g.len) /\ \E s \in Live(g) : h.ctrl[s] \in {EMPTY, TOMBSTONE}

(* A rebuild of old has begun. *)
Rebuilding(old) ==
  /\ previous' = old
  /\ Live(table)' = {} /\ table'.len = 0
  /\ call'.at = "rebuild" /\ call'.cursor = 0

(* An insert of the absent key k goes on. *)
Inserted(k) ==
  \/ call' = Idle /\ \E s \in Slot : Stores(table, table', s, k)
  \/ /\ \E old \in Generation : Kept(table, old) /\ Rebuilding(old)
     /\ call'.key = k /\ call'.then # "return"

(* The loops in which the table is not a whole map by itself. *)
HalfDone == {"rebuild", "place", "refresh"}

KeptStep ==
  /\ call.at \notin HalfDone
  /\ \E h \in Generation :
       /\ Kept(table, h)
       /\ \/ table' = h /\ call'.at \notin HalfDone
          \/ Rebuilding(h) /\ call'.then = "return"
          \/ table' = ClearMembership(h) /\ call' = Scanning("refresh")

InsertStep ==
  \E k \in Keys :
     /\ \/ /\ call = Idle /\ Find(table, k) = {}
           /\ call' = Idle => table.len < MaxInsertions[table.shape]
        \/ call.at = "place" /\ call.key = k
     /\ Inserted(k)

MoveStep ==
  /\ call.at = "rebuild" /\ previous' = previous
  /\ call'.at = "rebuild" /\ call'.then = call.then /\ call'.key = call.key
  /\ \E s \in NextLive(previous), t \in Slot :
        call'.cursor = s /\ Stores(table, table', t, previous.ctrl[s])

RestoreStep == call.at = "rebuild" /\ table' = previous /\ call' = Idle

CommitStep ==
  /\ call.at = "rebuild" /\ table' = table
  /\ \/ call' = Idle
     \/ call'.at = "place" /\ call.then # "return" /\ call'.key = call.key

RecordStep ==
  /\ call.at = "refresh" /\ call'.at = "refresh"
  /\ \E s \in NextLive(table) :
       call'.cursor = s /\ Recording(table, table', s, table.ctrl[s])

RefreshEndStep ==
  /\ call.at = "refresh" /\ table' = table /\ call' = Idle
  /\ ScanDone(table) \/ "refresh" \in Faults

WipeStep ==
  Live(table)' = {} /\ call' = Idle /\ table'.len \in {0, table.len}

Kind ==
  \/ KeptStep \/ InsertStep \/ MoveStep \/ RestoreStep \/ CommitStep
  \/ RecordStep \/ RefreshEndStep \/ WipeStep
  \/ UNCHANGED <<table, previous, call>>

------------------------------------------------------------------------------
(* Every step is of a kind, and keeps the types and the schedule.          *)

LEMMA CallFacts ==
  /\ Idle \in Call /\ Idle.at = "idle" /\ Idle.cursor = 0 /\ Idle.then = "return"
  /\ \A at \in FaultPoints : /\ Scanning(at) \in Call
                             /\ Scanning(at).at = at /\ Scanning(at).cursor = 0
                             /\ Scanning(at).then = "return"
<1>1. /\ Idle \in Call /\ Idle.at = "idle" /\ Idle.cursor = 0 /\ Idle.then = "return"
  BY DEF Idle, Call, Transition
<1>2. ASSUME NEW at \in FaultPoints
      PROVE  /\ Scanning(at) \in Call
             /\ Scanning(at).at = at /\ Scanning(at).cursor = 0
             /\ Scanning(at).then = "return"
  BY DEF Scanning, Idle, Call, Transition
<1> QED BY <1>1, <1>2

LEMMA ShrunkKept == \A g, h : Shrunk(g, h) => Kept(g, h)
BY DEF Shrunk, Kept, Frame

LEMMA SameKept == \A g, h : Same(g, h) => Kept(g, h)
BY DEF Same, Kept

(* A step that ends or continues a call without a rebuild. *)
LEMMA PlainStep ==
  ASSUME Inv, call.at # "rebuild", table' \in Generation, Good(table'),
         call' \in Call, call'.at \notin {"rebuild", "place"},
         call'.at = "clear" => call'.cursor = 0, UNCHANGED previous, epoch' \in Epoch, event' \in Event
  PROVE  Inv'
BY DEF Inv, TypeOK, CallInv

(* A step of a plain loop that removes something, or nothing. *)
LEMMA ShrunkStep ==
  ASSUME Inv, call.at \notin HalfDone, Shrunk(table, table'),
         call' \in Call, call'.at \notin HalfDone,
         call'.at = "clear" => call'.cursor = 0, UNCHANGED previous, epoch' \in Epoch, event' \in Event
  PROVE  Inv' /\ KeptStep
<1>1. table' \in Generation /\ Good(table') /\ Kept(table, table')
  BY ShrunkGood, ShrunkKept DEF Inv, TypeOK
<1> QED BY <1>1, PlainStep DEF KeptStep, HalfDone

LEMMA ShrunkSelf == \A g \in Generation : Shrunk(g, g)
BY DEF Shrunk, Frame

LEMMA StartRebuildFacts ==
  ASSUME NEW old \in Generation, Good(old), NEW shape \in Shapes,
         NEW tr \in Transition, NEW rest \in Call,
         StartRebuild(old, shape, tr, rest), rest.cursor = 0,
         rest.then # "return" => rest.key \in Keys,
         epoch' \in Epoch, event' \in Event
  PROVE  /\ Inv' /\ Rebuilding(old)
         /\ call'.key = rest.key /\ call'.then = rest.then
<1>1. previous' = old /\ table' = Fresh(shape)
      /\ call' = [rest EXCEPT !.at = "rebuild", !.transition = tr]
  BY DEF StartRebuild
<1>2. /\ call' \in Call
      /\ call'.at = "rebuild" /\ call'.then = rest.then /\ call'.key = rest.key
      /\ call'.cursor = rest.cursor
  BY <1>1 DEF Call, FaultPoints
<1>3. table' \in Generation /\ Good(table') /\ Live(table') = {} /\ table'.len = 0
  BY <1>1, FreshFacts
<1> QED BY <1>1, <1>2, <1>3 DEF Inv, TypeOK, CallInv, Rebuilding, Live

(* The insert ends with k stored. *)
LEMMA PlacedStep ==
  ASSUME Inv, call.at # "rebuild",
         NEW g \in Generation, Same(table, g), NEW h, NEW s \in Slot, NEW k \in Keys,
         Stores(g, h, s, k), NEW v \in Vals \cup {None}, NEW e \in Epoch,
         Placed(k, v, h, e)
  PROVE  Inv' /\ Inserted(k) /\ call' = Idle
<1>1. /\ table' = h /\ epoch' = e /\ call' = Idle /\ UNCHANGED previous
      /\ event' = Answered("insert", k, v, None)
  BY DEF Placed
<1>2. event' \in Event
  BY <1>1, EventFacts
<1>3. h \in Generation /\ Good(h) /\ Stores(table, h, s, k)
  BY PlacedSynced DEF Stores
<1> QED BY <1>1, <1>2, <1>3, CallFacts, PlainStep DEF Inserted

LEMMA RebuildForInsert ==
  ASSUME Inv, NEW g \in Generation, Good(g), Same(table, g), NEW shape \in Shapes,
         NEW tr \in Transition, NEW then \in {"grown", "recovered"},
         NEW k \in Keys, NEW v \in Vals \cup {None},
         StartRebuild(g, shape, tr, [Idle EXCEPT !.then = then, !.key = k, !.val = v]),
         event' = Quiet, UNCHANGED epoch
  PROVE  Inv' /\ Inserted(k) /\ call' # Idle
<1> DEFINE rest == [Idle EXCEPT !.then = then, !.key = k, !.val = v]
<1>1. rest \in Call /\ rest.cursor = 0 /\ rest.then = then /\ rest.key = k
  BY DEF Idle, Call, Transition
<1>2. epoch' \in Epoch /\ event' \in Event
  BY EventFacts DEF Inv, TypeOK
<1>3. StartRebuild(g, shape, tr, rest)
  OBVIOUS
<1> HIDE DEF rest
<1>4. Inv' /\ Rebuilding(g) /\ call'.key = k /\ call'.then = then
  BY <1>1, <1>2, <1>3, StartRebuildFacts
<1>5. then # "return"
  OBVIOUS
<1> QED BY <1>4, <1>5, SameKept, CallFacts DEF Inserted, Rebuilding

LEMMA PlaceAbsentFacts ==
  ASSUME Inv, call.at # "rebuild", NEW k \in Keys, NEW v \in Vals \cup {None},
         PlaceAbsent(k, v)
  PROVE  Inv' /\ Inserted(k)
<1> DEFINE g == Synced(table)
<1>1. /\ table \in Generation /\ Good(table) /\ epoch \in Epoch
  BY DEF Inv, TypeOK
<1>2. /\ g \in Generation /\ Good(g) /\ Same(table, g) /\ g.scheduler.index \in Nat
      /\ g.shape \in Shapes
  BY <1>1, SyncedFacts DEF Good, Generation
<1> HIDE DEF g
<1>3. ASSUME NEW p, Choice(g, k, p), Placed(k, v, PlaceNewEntry(g, p, k, v), epoch)
      PROVE  Inv' /\ Inserted(k)
  <2>1. PICK s \in Slot : Stores(g, PlaceNewEntry(g, p, k, v), s, k)
    BY <1>2, <1>3, PlaceNewEntryFacts
  <2> QED BY <1>1, <1>2, <1>3, <2>1, PlacedStep
<1>4. ASSUME NEW s \in FirstFreeSlot(g),
             Placed(k, v, PlaceExceptional(g, s, k, v), NotePlacementRecovery(epoch))
      PROVE  Inv' /\ Inserted(k)
  <2>1. s \in Slot /\ Stores(g, PlaceExceptional(g, s, k, v), s, k)
    BY <1>2, PlaceExceptionalFacts
  <2>2. NotePlacementRecovery(epoch) \in Epoch
    BY <1>1, EpochFacts
  <2> QED BY <1>2, <1>4, <2>1, <2>2, PlacedStep
<1>5. CASE /\ StartRebuild(g, g.shape, "PlacementRecovery",
                           [Idle EXCEPT !.then = "recovered", !.key = k, !.val = v])
           /\ event' = Quiet /\ UNCHANGED epoch
  <2>1. "PlacementRecovery" \in Transition
    BY DEF Transition
  <2> QED BY <1>2, <1>5, <2>1, RebuildForInsert
<1>6. CASE PlaceAfterTargetFailure(k, v, g)
  <2>1. \A p \in ChooseSlotOnOtherTargets(g, k, g.scheduler.index) : Choice(g, k, p)
    BY <1>2, OtherTargetFacts
  <2> QED BY <1>3, <1>4, <1>5, <1>6, <2>1 DEF PlaceAfterTargetFailure
<1>7. \A p \in ChooseSlot(g, k, g.scheduler.index) : Choice(g, k, p)
  BY <1>2, ChooseSlotFacts
<1> QED BY <1>3, <1>6, <1>7 DEF PlaceAbsent, g

LEMMA InsertAbsentFacts ==
  ASSUME Inv, call = Idle, NEW k \in Keys, NEW v \in Vals, InsertAbsent(k, v)
  PROVE  /\ Inv' /\ Inserted(k)
         /\ call' = Idle => table.len < MaxInsertions[table.shape]
<1>1. table \in Generation /\ Good(table) /\ table.shape \in Shapes
  BY DEF Inv, TypeOK, Generation
<1>2. CASE /\ table.shape < LastShape
           /\ StartRebuild(table, table.shape + 1, "Growth",
                           [Idle EXCEPT !.then = "grown", !.key = k, !.val = v])
           /\ event' = Quiet /\ UNCHANGED epoch
  <2>1. table.shape + 1 \in Shapes /\ "Growth" \in Transition
    BY <1>1, <1>2, ShapeAssumption DEF Shapes, Transition
  <2>2. Same(table, table)
    BY DEF Same
  <2> QED BY <1>1, <1>2, <2>1, <2>2, RebuildForInsert
<1>3. CASE table.len < MaxInsertions[table.shape] /\ PlaceAbsent(k, v)
  BY <1>3, CallFacts, PlaceAbsentFacts
<1> QED BY <1>2, <1>3 DEF InsertAbsent

LEMMA InsertFacts ==
  ASSUME Inv, NEW k \in Keys, NEW v \in Vals, Insert(k, v) \/ EntryOrInsert(k, v)
  PROVE  Inv' /\ (KeptStep \/ InsertStep)
<1> DEFINE hit == Find(table, k)
<1>1. /\ table \in Generation /\ call = Idle /\ table.schedule \subseteq Routes[table.shape]
  BY DEF Inv, TypeOK, Insert, EntryOrInsert, Good, Scheduled, RoutesBetween
<1>2. \A s \in hit : s \in Slot /\ table.data[s] \in Vals \cup {None}
  BY <1>1, FindHoldsKey DEF Generation
<1>3. epoch \in Epoch /\ Idle.at \notin HalfDone
  BY CallFacts DEF Inv, TypeOK, HalfDone
<1>4. ASSUME NEW s \in hit, table' = [table EXCEPT !.data[s] = v],
             event' = Answered("insert", k, v, table.data[s]),
             UNCHANGED <<previous, call, epoch>>
      PROVE  Inv' /\ KeptStep
  <2> DEFINE data == [table.data EXCEPT ![s] = v]
  <2>1. data \in [Slot -> Vals \cup {None}] /\ table' = [table EXCEPT !.data = data]
    BY <1>1, <1>2, <1>4 DEF Generation
  <2> HIDE DEF data
  <2>2. /\ table' \in Generation /\ Frame(table, table') /\ table'.ctrl = table.ctrl
        /\ table'.len = table.len /\ table'.filter = table.filter
        /\ table'.bins = table.bins
    BY <1>1, <2>1 DEF Generation, Frame
  <2>3. Shrunk(table, table')
    BY <2>2 DEF Shrunk
  <2>4. event' \in Event
    BY <1>2, <1>4, EventFacts
  <2> QED BY <1>1, <1>3, <1>4, <2>3, <2>4, CallFacts, ShrunkStep
<1>5. ASSUME NEW s \in hit, event' = Answered("get", k, None, table.data[s]),
             UNCHANGED <<table, previous, call, epoch>>
      PROVE  Inv' /\ KeptStep
  <2>1. event' \in Event
    BY <1>2, <1>5, EventFacts
  <2>2. Shrunk(table, table')
    BY <1>1, <1>5, ShrunkSelf
  <2> QED BY <1>1, <1>3, <1>5, <2>1, <2>2, CallFacts, ShrunkStep
<1>6. CASE hit = {} /\ InsertAbsent(k, v)
  BY <1>1, <1>6, InsertAbsentFacts DEF InsertStep
<1>7. CASE Insert(k, v)
  BY <1>4, <1>6, <1>7 DEF Insert
<1>8. CASE EntryOrInsert(k, v)
  BY <1>5, <1>6, <1>8 DEF EntryOrInsert
<1> QED BY <1>7, <1>8

LEMMA ResumePlaceFacts ==
  ASSUME Inv, ResumePlace
  PROVE  Inv' /\ InsertStep
<1> DEFINE g == Synced(table)
<1>0. PICK k \in Keys, v \in Vals \cup {None} : k = call.key /\ v = call.val
  BY DEF Inv, TypeOK, CallInv, ResumePlace, Call
<1>1. /\ call.at = "place" /\ table \in Generation /\ Good(table) /\ epoch \in Epoch
  BY DEF Inv, TypeOK, ResumePlace
<1>2. /\ g \in Generation /\ Good(g) /\ Same(table, g) /\ g.scheduler.index \in Nat
  BY <1>1, SyncedFacts DEF Good
<1> HIDE DEF g
<1>3. ASSUME NEW p \in ChooseSlot(g, k, g.scheduler.index),
             Placed(k, v, PlaceNewEntry(g, p, k, v), epoch)
      PROVE  Inv' /\ Inserted(k)
  <2>1. Choice(g, k, p)
    BY <1>1, <1>2, ChooseSlotFacts
  <2>2. PICK s \in Slot : Stores(g, PlaceNewEntry(g, p, k, v), s, k)
    BY <1>1, <1>2, <2>1, PlaceNewEntryFacts
  <2> QED BY <1>1, <1>2, <1>3, <2>2, PlacedStep
<1>4. ASSUME NEW s \in FirstFreeSlot(g), Placed(k, v, PlaceExceptional(g, s, k, v), epoch)
      PROVE  Inv' /\ Inserted(k)
  <2>1. s \in Slot /\ Stores(g, PlaceExceptional(g, s, k, v), s, k)
    BY <1>1, <1>2, PlaceExceptionalFacts
  <2> QED BY <1>1, <1>2, <1>4, <2>1, PlacedStep
<1>5. ASSUME PlaceAbsent(k, v) PROVE Inv' /\ Inserted(k)
  BY <1>1, <1>5, PlaceAbsentFacts
<1>6. Inv' /\ Inserted(k)
  BY <1>0, <1>3, <1>4, <1>5 DEF ResumePlace, g
<1> QED BY <1>0, <1>1, <1>6 DEF InsertStep

(* The deferred maintenance of a removal, or of a scan that removed. *)
LEMMA SettleFacts ==
  ASSUME Inv, call.at \notin HalfDone, NEW g, Shrunk(table, g),
         NEW needsCleanup, Settle(g, needsCleanup), epoch' \in Epoch, event' \in Event
  PROVE  Inv' /\ KeptStep
<1>1. /\ g \in Generation /\ Good(g) /\ Kept(table, g) /\ g.shape \in Shapes
      /\ call.at # "rebuild"
  BY ShrunkGood, ShrunkKept DEF Inv, TypeOK, Generation, HalfDone
<1>2. /\ Idle \in Call /\ Idle.at = "idle" /\ Idle.cursor = 0 /\ Idle.then = "return"
      /\ Idle.at \notin HalfDone
  BY CallFacts DEF HalfDone
<1>3. CASE StartRebuild(g, g.shape, "TombstoneCleanup", Idle)
  <2>1. "TombstoneCleanup" \in Transition
    BY DEF Transition
  <2>2. Inv' /\ Rebuilding(g) /\ call'.then = "return"
    BY <1>1, <1>2, <1>3, <2>1, StartRebuildFacts
  <2> QED BY <1>1, <2>2 DEF KeptStep
<1>4. CASE /\ table' = ClearMembership(g) /\ call' = Scanning("refresh")
           /\ UNCHANGED previous
  <2>1. table' \in Generation /\ Good(table')
    BY <1>1, <1>4, ClearMembershipFacts
  <2>2. call' \in Call /\ call'.at = "refresh"
    BY <1>4, CallFacts DEF FaultPoints
  <2>3. Inv'
    BY <1>1, <1>4, <2>1, <2>2, PlainStep
  <2> QED BY <1>1, <1>4, <2>3 DEF KeptStep
<1>5. CASE table' = g /\ call' = Idle /\ UNCHANGED previous
  <2>1. Inv'
    BY <1>1, <1>2, <1>5, PlainStep
  <2> QED BY <1>1, <1>2, <1>5, <2>1 DEF KeptStep
<1> QED BY <1>3, <1>4, <1>5 DEF Settle

LEMMA RemoveFacts ==
  ASSUME Inv, NEW k \in Keys, Remove(k)
  PROVE  Inv' /\ KeptStep
<1>1. /\ table \in Generation /\ call = Idle /\ Idle.at \notin HalfDone
      /\ table.schedule \subseteq Routes[table.shape]
      /\ epoch \in Epoch
  BY CallFacts DEF Inv, TypeOK, Remove, Good, Scheduled, RoutesBetween, HalfDone
<1>2. ASSUME NEW s \in Find(table, k), NEW needsCleanup,
             event' = Answered("remove", k, None, table.data[s]),
             epoch' = NoteDelete(epoch), Settle(ExtractFinish(table, s), needsCleanup)
      PROVE  Inv' /\ KeptStep
  <2>1. s \in Slot /\ table.ctrl[s] = k /\ table.data[s] \in Vals \cup {None}
    BY <1>1, FindHoldsKey DEF Generation
  <2>2. Shrunk(table, ExtractFinish(table, s))
    BY <1>1, <2>1, ExtractFacts DEF Live
  <2>3. event' \in Event /\ epoch' \in Epoch
    BY <1>1, <1>2, <2>1, EventFacts, EpochFacts
  <2> QED BY <1>1, <1>2, <2>2, <2>3, SettleFacts
<1>3. CASE /\ event' = Answered("remove", k, None, None)
           /\ UNCHANGED <<table, previous, call, epoch>>
  <2>1. event' \in Event
    BY <1>3, EventFacts
  <2>2. Shrunk(table, table')
    BY <1>1, <1>3, ShrunkSelf
  <2> QED BY <1>1, <1>3, <2>1, <2>2, CallFacts, ShrunkStep
<1> QED BY <1>2, <1>3 DEF Remove

LEMMA GetFacts ==
  ASSUME Inv, NEW k \in Keys, Get(k)
  PROVE  Inv' /\ KeptStep
<1>1. /\ table \in Generation /\ call = Idle /\ Idle.at \notin HalfDone
      /\ table.schedule \subseteq Routes[table.shape]
      /\ epoch \in Epoch
      /\ UNCHANGED <<table, previous, call, epoch>>
  BY CallFacts DEF Inv, TypeOK, Get, Good, Scheduled, RoutesBetween, HalfDone
<1> DEFINE answer == LET found == Find(table, k)
                     IN  IF found = {} THEN None
                         ELSE table.data[CHOOSE s \in found : TRUE]
<1>2. answer \in Vals \cup {None}
  BY <1>1, FindHoldsKey DEF Generation
<1>3. event' = Answered("get", k, None, answer)
  BY DEF Get
<1> HIDE DEF answer
<1>4. event' \in Event
  BY <1>2, <1>3, EventFacts
<1>5. Shrunk(table, table')
  BY <1>1, ShrunkSelf
<1> QED BY <1>1, <1>4, <1>5, CallFacts, ShrunkStep

LEMMA NextLiveFacts ==
  ASSUME NEW g \in Generation, call \in Call, NEW s \in NextLive(g)
  PROVE  /\ s \in Live(g) /\ s \in Slot /\ g.ctrl[s] \in Keys
         /\ s \in Nat /\ s > call.cursor
         /\ \A t \in Live(g) : t > call.cursor => s <= t
BY SlotFacts DEF NextLive, First, Live

LEMMA RebuildStepFacts ==
  ASSUME Inv, RebuildStep
  PROVE  Inv' /\ MoveStep
<1> DEFINE g == Synced(table)
<1>1. /\ call.at = "rebuild" /\ call \in Call
      /\ table \in Generation /\ Good(table)
      /\ previous \in Generation /\ Good(previous)
      /\ UNCHANGED <<previous, epoch, event>>
  BY DEF RebuildStep, Inv, TypeOK
<1>2. /\ g \in Generation /\ Good(g) /\ Same(table, g) /\ g.scheduler.index \in Nat
  BY <1>1, SyncedFacts DEF Good
<1> DEFINE choice(s) == ChooseSlot(g, previous.ctrl[s], g.scheduler.index)
<1>3. PICK s \in NextLive(previous) :
        /\ \/ \E p \in choice(s) :
                table' = PlaceNewEntry(g, p, previous.ctrl[s], previous.data[s])
           \/ \E t \in FirstFreeSlot(g) :
                table' = PlaceExceptional(g, t, previous.ctrl[s], previous.data[s])
        /\ call' = [call EXCEPT !.cursor = s, !.recovered = @ \/ choice(s) = {}]
  BY DEF RebuildStep
<1>4. /\ s \in Nat /\ previous.ctrl[s] \in Keys
      /\ previous.data[s] \in Vals \cup {None}
  BY <1>1, NextLiveFacts DEF Generation
<1> HIDE DEF g
<1>5. \E t \in Slot : Stores(g, table', t, previous.ctrl[s])
  <2>1. ASSUME NEW p \in choice(s),
               table' = PlaceNewEntry(g, p, previous.ctrl[s], previous.data[s])
        PROVE  \E t \in Slot : Stores(g, table', t, previous.ctrl[s])
    <3>1. Choice(g, previous.ctrl[s], p)
      BY <1>2, <1>4, ChooseSlotFacts
    <3> QED BY <1>2, <1>4, <2>1, <3>1, PlaceNewEntryFacts
  <2>2. ASSUME NEW t \in FirstFreeSlot(g),
               table' = PlaceExceptional(g, t, previous.ctrl[s], previous.data[s])
        PROVE  t \in Slot /\ Stores(g, table', t, previous.ctrl[s])
    BY <1>2, <1>4, <2>2, PlaceExceptionalFacts
  <2> QED BY <1>3, <2>1, <2>2
<1>6. PICK t \in Slot : Stores(table, table', t, previous.ctrl[s])
  BY <1>2, <1>5, PlacedSynced
<1> DEFINE recovered == call.recovered \/ choice(s) = {}
<1>7. recovered \in BOOLEAN /\ call' = [call EXCEPT !.cursor = s, !.recovered = recovered]
  BY <1>3
<1> HIDE DEF recovered
<1>8. /\ call' \in Call
      /\ call'.at = "rebuild" /\ call'.then = call.then /\ call'.key = call.key
      /\ call'.cursor = s
  BY <1>1, <1>4, <1>7 DEF Call
<1>9. Inv'
  BY <1>1, <1>6, <1>8 DEF Inv, TypeOK, CallInv, Stores
<1> QED BY <1>1, <1>3, <1>6, <1>8, <1>9 DEF MoveStep

LEMMA RebuildCommitFacts ==
  ASSUME Inv, RebuildCommit
  PROVE  Inv' /\ CommitStep
<1>1. /\ call.at = "rebuild" /\ call \in Call /\ epoch \in Epoch /\ event \in Event
      /\ table' = table /\ previous' = None /\ event' = event
      /\ call' = IF call.then = "return" THEN Idle ELSE [call EXCEPT !.at = "place"]
  BY DEF RebuildCommit, Inv, TypeOK
<1> DEFINE recovered == call.transition = "PlacementRecovery" \/ call.recovered
<1>2. epoch' = StartEpoch(epoch, call.transition, recovered)
  BY DEF RebuildCommit
<1>3. recovered \in BOOLEAN /\ call.transition \in Transition
  BY <1>1 DEF Call
<1> HIDE DEF recovered
<1>4. epoch' \in Epoch
  BY <1>1, <1>2, <1>3, EpochFacts
<1>5. CASE call.then = "return"
  BY <1>1, <1>4, <1>5, CallFacts DEF Inv, TypeOK, CallInv, CommitStep
<1>6. CASE call.then # "return"
  <2>1. /\ call' \in Call /\ call'.at = "place" /\ call'.key = call.key
        /\ call'.then = call.then
    BY <1>1, <1>6 DEF Call
  <2> QED BY <1>1, <1>4, <1>6, <2>1 DEF Inv, TypeOK, CallInv, CommitStep
<1> QED BY <1>5, <1>6

LEMMA RefreshFacts ==
  ASSUME Inv, RefreshStep \/ RefreshDone \/ RefreshPanic
  PROVE  Inv' /\ (RecordStep \/ RefreshEndStep)
<1>1. /\ call.at = "refresh" /\ call \in Call /\ epoch \in Epoch /\ event \in Event
      /\ table \in Generation /\ Good(table) /\ call.at # "rebuild"
      /\ UNCHANGED <<previous, epoch, event>>
  BY DEF Inv, TypeOK, RefreshStep, RefreshDone, RefreshPanic
<1>2. CASE RefreshStep
  <2>1. PICK s \in NextLive(table) :
          /\ table' = RecordMembership(table, table.ctrl[s], LevelAt(table, s))
          /\ call' = [call EXCEPT !.cursor = s]
    BY <1>2 DEF RefreshStep
  <2>2. s \in Slot /\ table.ctrl[s] \in Keys /\ s \in Nat
    BY <1>1, NextLiveFacts
  <2>3. Recording(table, table', s, table.ctrl[s])
    BY <1>1, <2>1, <2>2, RecordFacts
  <2>4. table' \in Generation /\ Good(table')
    BY <1>1, <2>3, RecordingGood
  <2>5. call' \in Call /\ call'.at = "refresh" /\ call'.cursor = s
    BY <1>1, <2>1, <2>2 DEF Call
  <2>6. Inv'
    BY <1>1, <2>4, <2>5, PlainStep
  <2> QED BY <1>1, <2>3, <2>5, <2>6 DEF RecordStep
<1>3. CASE RefreshDone \/ RefreshPanic
  <2>1. table' = table /\ call' = Idle /\ (ScanDone(table) \/ "refresh" \in Faults)
    BY <1>3 DEF RefreshDone, RefreshPanic
  <2>2. Inv'
    BY <1>1, <2>1, CallFacts, PlainStep
  <2> QED BY <1>1, <2>1, <2>2 DEF RefreshEndStep
<1> QED BY <1>2, <1>3

(* The loops of clear, drain and extract_if before they end. *)
LEMMA BulkFacts ==
  ASSUME Inv, ClearStep \/ DrainStep \/ DrainAbandon \/ ExtractStep \/ ExtractForget
  PROVE  Inv' /\ KeptStep
<1>1. /\ call \in Call /\ epoch \in Epoch /\ event \in Event
      /\ table \in Generation /\ UNCHANGED <<previous, event>>
      /\ call.at \in {"clear", "drain", "extract"} /\ call.at \notin HalfDone
      /\ call.at = "clear" => call.cursor = 0
  BY DEF Inv, TypeOK, CallInv, ClearStep, DrainStep, DrainAbandon, ExtractStep, ExtractForget,
         HalfDone
<1>2. Idle \in Call /\ Idle.at \notin HalfDone /\ Idle.at # "clear"
  BY CallFacts DEF HalfDone
<1>3. CASE ClearStep
  <2>1. PICK s \in NextLive(table) : table' = DrainResetEntry(table, s)
    BY <1>3 DEF ClearStep
  <2>2. Shrunk(table, table')
    BY <1>1, <2>1, NextLiveFacts, DrainResetFacts
  <2>3. (call' = call \/ call' = Idle) /\ epoch' \in Epoch /\ event' \in Event
    BY <1>1, <1>3 DEF ClearStep
  <2> QED BY <1>1, <1>2, <2>2, <2>3, ShrunkStep
<1>4. CASE DrainStep
  <2>1. PICK s \in NextLive(table) : table' = TombstoneSlot(table, s)
    BY <1>4 DEF DrainStep
  <2>2. Shrunk(table, table')
    BY <1>1, <2>1, NextLiveFacts, TombstoneFacts
  <2> QED BY <1>1, <1>4, <2>2, ShrunkStep DEF DrainStep
<1>5. CASE DrainAbandon \/ ExtractForget
  <2>1. table' = table /\ call' = Idle /\ epoch' = epoch
    BY <1>5 DEF DrainAbandon, ExtractForget
  <2>2. Shrunk(table, table')
    BY <1>1, <2>1, ShrunkSelf
  <2> QED BY <1>1, <1>2, <2>1, <2>2, ShrunkStep
<1>6. CASE ExtractStep
  <2>1. PICK s \in NextLive(table) :
          /\ call' = [call EXCEPT !.cursor = s]
          /\ \/ table' = table /\ epoch' = epoch
             \/ table' = ExtractFinish(table, s) /\ epoch' = NoteDelete(epoch)
    BY <1>6 DEF ExtractStep
  <2>2. s \in Live(table) /\ s \in Nat
    BY <1>1, NextLiveFacts
  <2>3. call' \in Call /\ call'.at = call.at /\ call.at # "clear"
    BY <1>1, <1>6, <2>1, <2>2 DEF Call, ExtractStep
  <2>4. Shrunk(table, table')
    BY <1>1, <2>1, <2>2, ShrunkSelf, ExtractFacts
  <2>5. epoch' \in Epoch
    BY <1>1, <2>1, EpochFacts
  <2> QED BY <1>1, <2>3, <2>4, <2>5, ShrunkStep
<1> QED BY <1>3, <1>4, <1>5, <1>6

LEMMA WipeFacts ==
  ASSUME Inv, Wipe
  PROVE  Inv' /\ WipeStep
<1>1. /\ call \in Call /\ epoch \in Epoch /\ table \in Generation /\ Good(table)
      /\ call.at # "rebuild" /\ UNCHANGED previous
      /\ call' = Idle /\ event' = Quiet /\ epoch' = StartOf(epoch, "Clear")
  BY DEF Inv, TypeOK, Wipe
<1>2. epoch' \in Epoch /\ event' \in Event
  BY <1>1, EpochFacts, EventFacts DEF Transition
<1>3. /\ table' \in Generation /\ Good(table') /\ Live(table') = {}
      /\ table'.len \in {0, table.len}
  <2>1. CASE call.at = "clear"
    <3>1. \A s \in Live(table) : s \in Nat \ {0} /\ s <= 0
      BY <2>1, SlotFacts DEF Inv, CallInv, Wipe, ScanDone, Live
    <3>2. Live(table) = {}
      BY <3>1
    <3>3. table' = FinishClear(table)
      BY <2>1 DEF Wipe
    <3> QED BY <1>1, <3>2, <3>3, FinishClearFacts
  <2>2. CASE call.at # "clear"
    <3>1. table' = WipeAll(table)
      BY <2>2 DEF Wipe
    <3> QED BY <1>1, <3>1, WipeAllFacts
  <2> QED BY <2>1, <2>2
<1>4. Idle.at # "clear"
  BY CallFacts
<1> QED BY <1>1, <1>2, <1>3, <1>4, CallFacts, PlainStep DEF WipeStep, Live

LEMMA ShapesOfSearch == \A from \in {1} \cup Shapes : \A n : ShapeFor(from, n) \subseteq Shapes
BY ShapeAssumption DEF ShapeFor, First, Shapes

LEMMA ResizeFacts ==
  ASSUME Inv, NEW n \in 0..MaxInsertions[LastShape], Reserve(n) \/ ShrinkTo(n)
  PROVE  Inv' /\ KeptStep
<1>1. /\ table \in Generation /\ Good(table) /\ table.shape \in Shapes /\ call = Idle
      /\ epoch \in Epoch /\ Idle.at \notin HalfDone
  BY CallFacts DEF Inv, TypeOK, Generation, Reserve, ShrinkTo, HalfDone
<1>2. 1 \in Shapes /\ 0 \in Shapes /\ Larger(table.shape, 1) \in Shapes
  BY <1>1, SlotFacts DEF Larger
<1>3. PICK shape \in Shapes : Resize(shape)
  BY <1>2, ShapesOfSearch DEF Reserve, ShrinkTo
<1>4. /\ StartRebuild(table, shape, "ExplicitResize", Idle)
      /\ epoch' \in Epoch /\ event' \in Event
  BY <1>1, <1>3, EventFacts DEF Resize
<1>5. "ExplicitResize" \in Transition
  BY DEF Transition
<1>6. Inv' /\ Rebuilding(table) /\ call'.then = "return"
  BY <1>1, <1>4, <1>5, CallFacts, StartRebuildFacts
<1>7. Kept(table, table)
  BY SameKept DEF Same
<1> QED BY <1>1, <1>6, <1>7 DEF KeptStep

LEMMA StartScanFacts ==
  ASSUME Inv, NEW at \in {"clear", "drain", "extract"}, StartScan(at)
  PROVE  Inv' /\ KeptStep
<1>1. /\ table \in Generation /\ call = Idle /\ Idle.at \notin HalfDone /\ epoch \in Epoch
      /\ call' = Scanning(at) /\ event' = Bulky(at) /\ UNCHANGED <<table, previous, epoch>>
  BY CallFacts DEF Inv, TypeOK, StartScan, HalfDone
<1>2. at \in FaultPoints /\ at \in Bulk /\ at \notin HalfDone
  BY DEF FaultPoints, Bulk, HalfDone
<1>3. call' \in Call /\ call'.at = at /\ call'.cursor = 0 /\ event' \in Event
  BY <1>1, <1>2, CallFacts, EventFacts
<1>4. Shrunk(table, table')
  BY <1>1, ShrunkSelf
<1> QED BY <1>1, <1>2, <1>3, <1>4, ShrunkStep

LEMMA ExtractEndFacts ==
  ASSUME Inv, ExtractEnd
  PROVE  Inv' /\ KeptStep
<1>1. /\ call.at \notin HalfDone /\ epoch' \in Epoch /\ event' \in Event
      /\ table \in Generation
  BY EventFacts DEF Inv, TypeOK, ExtractEnd, HalfDone
<1>2. Shrunk(table, table)
  BY <1>1, ShrunkSelf
<1> QED BY <1>1, <1>2, SettleFacts DEF ExtractEnd

LEMMA RestoreFacts ==
  ASSUME Inv, RebuildPanic
  PROVE  Inv' /\ RestoreStep
<1>1. /\ call.at = "rebuild" /\ previous \in Generation /\ Good(previous)
      /\ table' = previous /\ previous' = None /\ call' = Idle
      /\ UNCHANGED <<epoch, event>>
  BY DEF Inv, TypeOK, RebuildPanic
<1> QED BY <1>1, CallFacts DEF Inv, TypeOK, CallInv, RestoreStep

LEMMA InvInit == Init => Inv /\ Live(table) = {} /\ table.len = 0 /\ call = Idle
<1> SUFFICES ASSUME Init PROVE Inv /\ Live(table) = {} /\ table.len = 0
  BY DEF Init
<1>1. PICK shape \in Shapes : table = Fresh(shape)
  BY SlotFacts, ShapesOfSearch DEF Init
<1>2. /\ table \in Generation /\ Good(table) /\ Live(table) = {} /\ table.len = 0
  BY <1>1, FreshFacts
<1> QED BY <1>2, CallFacts, EpochFacts, EventFacts DEF Init, Inv, TypeOK, CallInv

LEMMA InvNext == Inv /\ [Next]_vars => Inv' /\ Kind
<1> SUFFICES ASSUME Inv, [Next]_vars PROVE Inv' /\ Kind
  OBVIOUS
<1>1. ASSUME NEW k \in Keys, NEW v \in Vals, Insert(k, v) \/ EntryOrInsert(k, v)
      PROVE  Inv' /\ Kind
  BY <1>1, InsertFacts DEF Kind
<1>2. ASSUME NEW k \in Keys, Get(k) \/ Remove(k) PROVE Inv' /\ Kind
  BY <1>2, GetFacts, RemoveFacts DEF Kind
<1>3. ASSUME NEW at \in {"clear", "drain", "extract"}, StartScan(at) PROVE Inv' /\ Kind
  BY <1>3, StartScanFacts DEF Kind
<1>4. ASSUME NEW n \in 0..MaxInsertions[LastShape], Reserve(n) \/ ShrinkTo(n)
      PROVE  Inv' /\ Kind
  BY <1>4, ResizeFacts DEF Kind
<1>5. CASE RebuildStep
  BY <1>5, RebuildStepFacts DEF Kind
<1>6. CASE RebuildCommit
  BY <1>6, RebuildCommitFacts DEF Kind
<1>7. CASE RebuildPanic
  BY <1>7, RestoreFacts DEF Kind
<1>8. CASE ResumePlace
  BY <1>8, ResumePlaceFacts DEF Kind
<1>9. CASE RefreshStep \/ RefreshDone \/ RefreshPanic
  BY <1>9, RefreshFacts DEF Kind
<1>10. CASE ClearStep \/ DrainStep \/ DrainAbandon \/ ExtractStep \/ ExtractForget
  BY <1>10, BulkFacts DEF Kind
<1>11. CASE Wipe
  BY <1>11, WipeFacts DEF Kind
<1>12. CASE ExtractEnd
  BY <1>12, ExtractEndFacts DEF Kind
<1>13. CASE UNCHANGED vars
  BY <1>13 DEF vars, Inv, TypeOK, CallInv, Kind
<1> QED BY <1>1, <1>2, <1>3, <1>4, <1>5, <1>6, <1>7, <1>8, <1>9, <1>10, <1>11, <1>12,
           <1>13 DEF Next, Begin, Progress, Fault

------------------------------------------------------------------------------
(* Every variable holds a value of its type in every state of every call, and
   there is an old generation exactly while a rebuild runs. *)
THEOREM TypeCorrect == Spec => []TypeOK
<1>1. Inv => TypeOK
  BY DEF Inv
<1> QED BY <1>1, InvInit, InvNext, PTL DEF Spec

(* The window the batch scheduler caches never answers for a count outside
   it: after any removals, clears and rebuilds the next placement's target is
   the batch that covers the live count, for every plan of batches. *)
THEOREM TargetFollowsCountHolds == Spec => []TargetFollowsCount
<1>1. Inv => TargetFollowsCount
  BY SyncedFacts DEF Inv, TypeOK, TargetFollowsCount
<1> QED BY <1>1, InvInit, InvNext, PTL DEF Spec

(* The probe schedule is the prefix of the paper's order up to the high
   water, and every live key lies on it or the epoch is flagged for full
   scans, whatever user code unwinds or forgets. *)
THEOREM ScheduleCoversPlacementsHolds == Spec => []ScheduleCoversPlacements
<1>1. Inv => ScheduleCoversPlacements
  BY DEF Inv, Good, Scheduled, ScheduleCoversPlacements
<1> QED BY <1>1, InvInit, InvNext, PTL DEF Spec

------------------------------------------------------------------------------
(* What lookups answer.                                                    *)
(*                                                                         *)
(* The lookup of an Elastic map finds every live key at its slot and no    *)
(* key is stored twice, as long as no hasher panics inside a filter        *)
(* refresh: a refresh that is cut short leaves live keys the filter        *)
(* denies, and then an insert stores such a key again.  Every other fault  *)
(* is allowed.                                                             *)

(* The filter and the summary know the key of slot s. *)
Recorded(g, s) ==
  /\ FilterBits[g.shape][g.ctrl[s]] \subseteq g.filter
  /\ <<BinOf[g.shape][g.ctrl[s]], LevelBit(LevelAt(g, s))>> \in g.bins

(* No key is in two slots of g. *)
Distinct(g) == \A s, t \in Live(g) : g.ctrl[s] = g.ctrl[t] => s = t

Covered(g) == \A s \in Live(g) : Recorded(g, s)

Holds(g, k) == \E s \in Live(g) : g.ctrl[s] = k

(* A drain counts nothing out, so the count bounds the live keys; it never
   exceeds the slots, so the release decrement does not wrap. *)
Counted(g) == Cardinality(Live(g)) <= g.len /\ g.len <= MaxSlots

(* A refresh has recorded the keys it has passed; otherwise all are. *)
Membership ==
  IF call.at = "refresh"
  THEN \A s \in Live(table) : s <= call.cursor => Recorded(table, s)
  ELSE Covered(table)

(* A rebuild has placed only keys it has passed in the old generation. *)
Moved ==
  \A t \in Live(table) : \E s \in Live(previous) :
     s <= call.cursor /\ previous.ctrl[s] = table.ctrl[t]

(* The key of a pending insert is in no generation it may be placed in. *)
PendingAbsent ==
  /\ call.at = "place" => ~Holds(table, call.key)
  /\ call.at = "rebuild" /\ call.then # "return" => ~Holds(previous, call.key)

(* A generation a rebuild fills, or has filled, counts its keys exactly. *)
CountInv ==
  /\ Counted(table)
  /\ call.at \in {"rebuild", "place"} => table.len = Cardinality(Live(table))

MapInv ==
  /\ Distinct(table) /\ Membership /\ CountInv
  /\ call.at = "rebuild" => /\ Distinct(previous) /\ Covered(previous)
                            /\ Counted(previous) /\ Moved
  /\ PendingAbsent

------------------------------------------------------------------------------
(* Completeness of the lookup.                                             *)

LEMMA FullScanFacts ==
  ASSUME NEW g \in Generation, NEW s \in Live(g), s \in SlotsOf(g), Distinct(g)
  PROVE  s \in FullScan(g, g.ctrl[s])
<1>1. g.shape \in Shapes /\ SlotsOf(g) \subseteq Slot /\ s \in Nat
  BY SlotFacts DEF Generation, SlotsOf, Live
<1>2. \A t \in SlotsOf(g) : g.ctrl[t] = g.ctrl[s] => t = s
  BY <1>1 DEF Distinct, Live
<1>3. s <= s
  BY <1>1
<1> QED BY <1>2, <1>3 DEF FullScan, First

(* A schedule with a stop has a first one. *)
LEMMA ScheduleStops ==
  ASSUME NEW g \in Generation, g.schedule \subseteq Routes[g.shape], NEW k,
         NEW r \in g.schedule, MayHold(g, k, r[1]),
         g.ctrl[SlotOn(g, k, r[1], r[2])] = k
  PROVE  ScheduleStop(g, k) # {}
<1> DEFINE stops == {q \in g.schedule : /\ MayHold(g, k, q[1])
                                        /\ \/ SlotOn(g, k, q[1], q[2]) = 0
                                           \/ g.ctrl[SlotOn(g, k, q[1], q[2])] = k}
           positions == {Phi[q[1]][q[2]] : q \in stops}
<1>1. \A q \in stops : Phi[q[1]][q[2]] \in Nat
  BY RouteFacts DEF Generation
<1>2. r \in stops
  OBVIOUS
<1>3. positions \in SUBSET Nat /\ positions # {}
  BY <1>1, <1>2
<1>4. PICK x \in positions : \A y \in positions : x <= y
  BY <1>3, LeastNat
<1>5. PICK q \in stops : x = Phi[q[1]][q[2]]
  OBVIOUS
<1>6. \A z \in stops : Phi[q[1]][q[2]] <= Phi[z[1]][z[2]]
  BY <1>4, <1>5
<1>7. q \in ScheduleStop(g, k)
  BY <1>5, <1>6 DEF ScheduleStop
<1> QED BY <1>7

(* In a good generation whose keys are distinct, recorded and counted, the
   lookup answers exactly the slot of a live key. *)
LEMMA FindComplete ==
  ASSUME NEW g \in Generation, Good(g), Distinct(g), NEW s \in Live(g),
         Recorded(g, s), g.len # 0
  PROVE  Find(g, g.ctrl[s]) = {s}
<1> DEFINE k == g.ctrl[s]
           h11 == SlotOn(g, k, 0, 1)
<1>1. /\ s \in Slot /\ k \in Keys /\ g.shape \in Shapes
      /\ g.schedule \subseteq Routes[g.shape]
      /\ s \in SlotsOf(g) /\ (g.exceptional \/ OnSchedule(g, s))
  BY DEF Live, Generation, Good, Scheduled, RoutesBetween
<1>2. g.shape # 0
  BY <1>1, ShapeAssumption DEF SlotsOf
<1>3. MaybePresent(g, k)
  BY DEF MaybePresent, Recorded
<1>4. \A t \in Find(g, k) : t = s
  BY <1>1, FindHoldsKey DEF Distinct, Live
<1>5. s \in FullScan(g, k)
  BY <1>1, FullScanFacts
<1> HIDE DEF k
<1>6. ASSUME h11 # 0, g.ctrl[h11] # k, OnSchedule(g, s)
      PROVE  ScheduleStop(g, k) # {}
  <2>1. PICK p \in Probes[LevelAt(g, s)] :
          /\ SlotOn(g, k, LevelAt(g, s), p) = s
          /\ <<LevelAt(g, s), p>> \in g.schedule \cup {<<0, 1>>}
    BY <1>6 DEF OnSchedule, k
  <2> DEFINE r == <<LevelAt(g, s), p>>
  <2>2. r[1] = LevelAt(g, s) /\ r[2] = p
    OBVIOUS
  <2>3. r # <<0, 1>>
    BY <1>6, <2>1 DEF k
  <2>4. r \in g.schedule
    BY <2>1, <2>3
  <2>5. MayHold(g, k, r[1])
    BY <2>2 DEF MayHold, Recorded, k
  <2>6. g.ctrl[SlotOn(g, k, r[1], r[2])] = k
    BY <2>1, <2>2 DEF k
  <2> QED BY <1>1, <2>4, <2>5, <2>6, ScheduleStops
<1>7. Find(g, k) # {}
  <2>1. CASE h11 = 0 \/ g.ctrl[h11] = k
    BY <1>2, <1>5, <2>1 DEF Find
  <2>2. CASE h11 # 0 /\ g.ctrl[h11] # k /\ ScheduleStop(g, k) = {}
    BY <1>1, <1>2, <1>3, <1>5, <1>6, <2>2 DEF Find
  <2>3. CASE h11 # 0 /\ g.ctrl[h11] # k /\ ScheduleStop(g, k) # {}
    <3> DEFINE answer(r) == IF SlotOn(g, k, r[1], r[2]) = 0 THEN FullScan(g, k)
                            ELSE {SlotOn(g, k, r[1], r[2])}
    <3>1. PICK r \in ScheduleStop(g, k) : TRUE
      BY <2>3
    <3>2. answer(r) # {}
      BY <1>5
    <3>3. Find(g, k) = UNION {answer(q) : q \in ScheduleStop(g, k)}
      BY <1>2, <1>3, <2>3 DEF Find
    <3> HIDE DEF answer
    <3> QED BY <3>1, <3>2, <3>3
  <2> QED BY <2>1, <2>2, <2>3
<1> QED BY <1>4, <1>7 DEF k

------------------------------------------------------------------------------
(* Counts.                                                                 *)

LEMMA LiveFinite ==
  ASSUME NEW g
  PROVE  /\ IsFiniteSet(Live(g)) /\ Cardinality(Live(g)) \in Nat
         /\ Cardinality(Live(g)) <= MaxSlots
<1>1. IsFiniteSet(Slot) /\ Cardinality(Slot) = MaxSlots
  BY CountTo, SlotFacts DEF Slot
<1>2. Live(g) \subseteq Slot
  BY DEF Live
<1> QED BY <1>1, <1>2, FS_Subset, FS_CardinalityType

LEMMA ModOfLess == ASSUME NEW a \in Nat, NEW b \in Nat \ {0}, a < b PROVE a % b = a
OBVIOUS

(* Below the word's width the release decrement is the decrement. *)
LEMMA DecrementFacts ==
  ASSUME NEW x \in Nat \ {0}, x <= MaxSlots
  PROVE  Decrement(x) = x - 1
<1>1. x - 1 \in Nat /\ Word \in Nat \ {0} /\ x - 1 < Word
  BY SlotFacts, WordAssumption, ShapeAssumption
<1> QED BY <1>1, ModOfLess DEF Decrement

LEMMA IncrementFacts ==
  ASSUME NEW x \in Nat, x + 1 <= MaxSlots
  PROVE  Increment(x) = x + 1
<1>1. x + 1 \in Nat /\ Word \in Nat \ {0} /\ x + 1 < Word
  BY SlotFacts, WordAssumption, ShapeAssumption
<1> QED BY <1>1, ModOfLess DEF Increment

LEMMA CountedLive ==
  ASSUME NEW g \in Generation, Counted(g), NEW s \in Live(g)
  PROVE  g.len # 0
<1>1. Cardinality(Live(g)) # 0 /\ Cardinality(Live(g)) \in Nat
  BY LiveFinite, FS_EmptySet
<1> QED BY <1>1 DEF Counted, Generation

LEMMA KeptLive ==
  ASSUME NEW g, NEW h, Kept(g, h)
  PROVE  \A s \in Live(h) : s \in Live(g) /\ h.ctrl[s] = g.ctrl[s]
BY FreeAssumption DEF Kept, Live

LEMMA CountKept ==
  ASSUME NEW g \in Generation, NEW h \in Generation, Kept(g, h), Counted(g)
  PROVE  Counted(h)
<1>1. Live(h) \subseteq Live(g)
  BY KeptLive
<1>2. /\ IsFiniteSet(Live(g)) /\ Cardinality(Live(g)) \in Nat
      /\ IsFiniteSet(Live(h)) /\ Cardinality(Live(h)) \in Nat
  BY LiveFinite
<1>3. g.len \in Nat /\ Cardinality(Live(g)) <= g.len /\ g.len <= MaxSlots
      /\ MaxSlots \in Nat
  BY SlotFacts DEF Counted, Generation
<1>4. CASE h.len = g.len
  <2>1. Cardinality(Live(h)) <= Cardinality(Live(g))
    BY <1>1, <1>2, FS_Subset
  <2> QED BY <1>2, <1>3, <1>4, <2>1 DEF Counted
<1>5. ASSUME h.len = Decrement(g.len), NEW s \in Live(g),
             h.ctrl[s] \in {EMPTY, TOMBSTONE}
      PROVE  Counted(h)
  <2>1. s \notin Live(h)
    BY <1>5, FreeAssumption DEF Live
  <2>2. Live(h) \subseteq Live(g) \ {s}
    BY <1>1, <2>1
  <2>3. /\ IsFiniteSet(Live(g) \ {s})
        /\ Cardinality(Live(g) \ {s}) = Cardinality(Live(g)) - 1
    BY <1>2, FS_RemoveElement
  <2>4. Cardinality(Live(h)) <= Cardinality(Live(g)) - 1
    BY <2>2, <2>3, FS_Subset
  <2>5. g.len # 0
    BY CountedLive
  <2>6. Decrement(g.len) = g.len - 1
    BY <1>3, <2>5, DecrementFacts
  <2> QED BY <1>2, <1>3, <1>5, <2>4, <2>5, <2>6 DEF Counted
<1> QED BY <1>4, <1>5 DEF Kept

LEMMA StoresLive ==
  ASSUME NEW g \in Generation, NEW h, NEW s \in Slot, NEW k \in Keys, Stores(g, h, s, k)
  PROVE  /\ Live(h) = Live(g) \cup {s} /\ s \notin Live(g) /\ h.ctrl[s] = k
         /\ \A t \in Live(g) : h.ctrl[t] = g.ctrl[t]
         /\ Cardinality(Live(h)) = Cardinality(Live(g)) + 1
         /\ h.len = g.len + 1
<1>1. h.ctrl[s] = k /\ \A t \in Slot : t # s => h.ctrl[t] = g.ctrl[t]
  BY WrittenSlot DEF Stores
<1>2. s \notin Live(g)
  BY FreeAssumption DEF Stores, Free, Live
<1>3. Live(h) = Live(g) \cup {s}
  BY <1>1 DEF Live
<1>4. \A t \in Live(g) : h.ctrl[t] = g.ctrl[t]
  BY <1>1, <1>2 DEF Live
<1>5. Cardinality(Live(g) \cup {s}) = Cardinality(Live(g)) + 1
  BY <1>2, LiveFinite, FS_AddElement
<1> QED BY <1>1, <1>2, <1>3, <1>4, <1>5 DEF Stores, Written

(* The count after a placement, below the limit or in a rebuilt table. *)
LEMMA CountStored ==
  ASSUME NEW g \in Generation, NEW h, NEW s \in Slot, NEW k \in Keys, Stores(g, h, s, k),
         Counted(g),
         g.len < MaxInsertions[g.shape] \/ g.len = Cardinality(Live(g))
  PROVE  /\ Counted(h)
         /\ g.len = Cardinality(Live(g)) => h.len = Cardinality(Live(h))
<1>1. /\ Cardinality(Live(h)) = Cardinality(Live(g)) + 1 /\ h.len = g.len + 1
  BY StoresLive
<1>2. /\ Cardinality(Live(g)) \in Nat /\ g.len \in Nat /\ g.shape \in Shapes
      /\ Cardinality(Live(h)) \in Nat /\ Cardinality(Live(h)) <= MaxSlots
  BY LiveFinite DEF Generation
<1>3. /\ MaxInsertions[g.shape] \in Nat /\ SlotCount[g.shape] \in Nat
      /\ MaxInsertions[g.shape] <= SlotCount[g.shape] /\ SlotCount[g.shape] <= MaxSlots
      /\ MaxSlots \in Nat
  BY <1>2, SlotFacts, ShapeAssumption
<1> QED BY <1>1, <1>2, <1>3 DEF Counted

------------------------------------------------------------------------------
(* What the steps keep.                                                    *)

LEMMA RecordedKept ==
  ASSUME NEW g, NEW h, NEW s, Recorded(g, s), h.shape = g.shape,
         h.ctrl[s] = g.ctrl[s], g.filter \subseteq h.filter, g.bins \subseteq h.bins
  PROVE  Recorded(h, s)
BY DEF Recorded, LevelAt

LEMMA MapKept ==
  ASSUME NEW g \in Generation, NEW h \in Generation, Kept(g, h),
         Distinct(g), Covered(g), Counted(g)
  PROVE  Distinct(h) /\ Covered(h) /\ Counted(h)
         /\ \A k : Holds(h, k) => Holds(g, k)
<1>1. \A s \in Live(h) : s \in Live(g) /\ h.ctrl[s] = g.ctrl[s]
  BY KeptLive
<1>2. h.shape = g.shape /\ h.filter = g.filter /\ h.bins = g.bins
  BY DEF Kept
<1>3. Covered(h)
  BY <1>1, <1>2, RecordedKept DEF Covered
<1> QED BY <1>1, <1>3, CountKept DEF Distinct, Holds

(* An absent key is stored: it is recorded, and still the only one. *)
LEMMA MapStored ==
  ASSUME NEW g \in Generation, NEW h, NEW s \in Slot, NEW k \in Keys,
         Distinct(g), Covered(g), ~Holds(g, k), Stores(g, h, s, k)
  PROVE  /\ Distinct(h) /\ Covered(h)
         /\ \A t \in Live(h) : \/ t = s /\ h.ctrl[t] = k
                               \/ t \in Live(g) /\ h.ctrl[t] = g.ctrl[t]
<1>1. /\ Live(h) = Live(g) \cup {s} /\ h.ctrl[s] = k
      /\ \A t \in Live(g) : h.ctrl[t] = g.ctrl[t]
  BY StoresLive
<1>2. /\ h.shape = g.shape
      /\ h.filter = g.filter \cup FilterBits[g.shape][k]
      /\ h.bins = g.bins \cup {<<BinOf[g.shape][k], LevelBit(LevelAt(g, s))>>}
  BY DEF Stores, Written, Records
<1>3. Recorded(h, s)
  BY <1>1, <1>2 DEF Recorded, LevelAt
<1>4. Covered(h)
  BY <1>1, <1>2, <1>3, RecordedKept DEF Covered
<1>5. Distinct(h)
  BY <1>1 DEF Distinct, Holds
<1> QED BY <1>1, <1>4, <1>5

LEMMA MapEmpty ==
  ASSUME NEW g, Live(g) = {}
  PROVE  /\ Distinct(g) /\ Covered(g) /\ Cardinality(Live(g)) = 0
         /\ \A n \in 0..MaxSlots : g.len = n => Counted(g)
BY FS_EmptySet DEF Distinct, Covered, Counted

(* A rebuild of a sound generation begins; a pending key is not in it. *)
LEMMA MapRebuilding ==
  ASSUME NEW g, Distinct(g), Covered(g), Counted(g), Rebuilding(g),
         call'.then # "return" => ~Holds(g, call'.key)
  PROVE  MapInv'
<1>1. /\ previous' = g /\ call'.at = "rebuild" /\ Live(table') = {} /\ table'.len = 0
  BY DEF Rebuilding, Live
<1>2. /\ Distinct(table') /\ Covered(table') /\ Counted(table')
      /\ table'.len = Cardinality(Live(table'))
  BY <1>1, MapEmpty, SlotFacts
<1>3. Moved'
  BY <1>1 DEF Moved
<1>4. CountInv'
  BY <1>2 DEF CountInv
<1> QED BY <1>1, <1>2, <1>3, <1>4 DEF MapInv, Membership, PendingAbsent

(* A call is over, or a scan that is no refresh goes on. *)
LEMMA MapPlain ==
  ASSUME Distinct(table'), Covered(table'), Counted(table'), call'.at \notin HalfDone
  PROVE  MapInv'
BY DEF MapInv, Membership, PendingAbsent, CountInv, HalfDone

LEMMA MapKeptStep ==
  ASSUME Inv, MapInv, KeptStep
  PROVE  MapInv'
<1>1. PICK h \in Generation :
        /\ Kept(table, h)
        /\ \/ table' = h /\ call'.at \notin HalfDone
           \/ Rebuilding(h) /\ call'.then = "return"
           \/ table' = ClearMembership(h) /\ call' = Scanning("refresh")
  BY DEF KeptStep
<1>2. /\ table \in Generation /\ Good(table) /\ Distinct(table) /\ Covered(table)
      /\ Counted(table)
  BY DEF Inv, TypeOK, MapInv, Membership, CountInv, KeptStep, HalfDone
<1>3. Distinct(h) /\ Covered(h) /\ Counted(h)
  BY <1>1, <1>2, MapKept
<1>4. CASE table' = h /\ call'.at \notin HalfDone
  BY <1>3, <1>4, MapPlain
<1>5. CASE Rebuilding(h) /\ call'.then = "return"
  BY <1>3, <1>5, MapRebuilding
<1>6. CASE table' = ClearMembership(h) /\ call' = Scanning("refresh")
  <2>1. call'.at = "refresh" /\ call'.cursor = 0
    BY <1>6, CallFacts DEF FaultPoints
  <2>2. table'.ctrl = h.ctrl /\ table'.len = h.len
    BY <1>6 DEF ClearMembership, Generation
  <2>3. Live(table') = Live(h)
    BY <2>2 DEF Live
  <2>4. Distinct(table') /\ Counted(table')
    BY <1>3, <2>2, <2>3 DEF Distinct, Counted
  <2>5. \A s \in Live(table') : ~(s <= 0)
    BY SlotFacts DEF Live
  <2> QED BY <2>1, <2>4, <2>5 DEF MapInv, Membership, PendingAbsent, CountInv
<1> QED BY <1>1, <1>4, <1>5, <1>6

LEMMA MapInsertStep ==
  ASSUME Inv, MapInv, InsertStep
  PROVE  MapInv'
<1>1. PICK k \in Keys :
        /\ \/ /\ call = Idle /\ Find(table, k) = {}
              /\ call' = Idle => table.len < MaxInsertions[table.shape]
           \/ call.at = "place" /\ call.key = k
        /\ Inserted(k)
  BY DEF InsertStep
<1>2. /\ table \in Generation /\ Good(table) /\ Distinct(table) /\ Covered(table)
      /\ Counted(table)
  <2>1. call.at \in {"idle", "place"}
    BY <1>1, CallFacts
  <2> QED BY <2>1 DEF Inv, TypeOK, MapInv, Membership, CountInv
<1>3. ~Holds(table, k)
  <2>1. CASE call = Idle /\ Find(table, k) = {}
    <3>1. ASSUME NEW s \in Live(table), table.ctrl[s] = k PROVE FALSE
      <4>1. table.len # 0 /\ Recorded(table, s)
        BY <1>2, CountedLive DEF Covered
      <4>2. Find(table, k) = {s}
        BY <1>2, <3>1, <4>1, FindComplete
      <4> QED BY <2>1, <4>2
    <3> QED BY <3>1 DEF Holds
  <2>2. CASE call.at = "place" /\ call.key = k
    BY <2>2 DEF MapInv, PendingAbsent
  <2> QED BY <1>1, <2>1, <2>2
<1>4. ASSUME call' = Idle, NEW s \in Slot, Stores(table, table', s, k)
      PROVE  MapInv'
  <2>1. Distinct(table') /\ Covered(table')
    BY <1>2, <1>3, <1>4, MapStored
  <2>2. table.len < MaxInsertions[table.shape] \/ table.len = Cardinality(Live(table))
    BY <1>1, <1>4 DEF MapInv, CountInv
  <2>3. Counted(table')
    BY <1>2, <1>4, <2>2, CountStored
  <2>4. call'.at \notin HalfDone
    BY <1>4, CallFacts DEF HalfDone
  <2> QED BY <2>1, <2>3, <2>4, MapPlain
<1>5. ASSUME NEW old \in Generation, Kept(table, old), Rebuilding(old), call'.key = k
      PROVE  MapInv'
  <2>1. Distinct(old) /\ Covered(old) /\ Counted(old) /\ ~Holds(old, k)
    BY <1>2, <1>3, <1>5, MapKept
  <2> QED BY <1>5, <2>1, MapRebuilding
<1> QED BY <1>1, <1>4, <1>5 DEF Inserted

LEMMA MapMoveStep ==
  ASSUME Inv, MapInv, MoveStep
  PROVE  MapInv'
<1>1. /\ call.at = "rebuild" /\ previous' = previous /\ call \in Call
      /\ call'.at = "rebuild" /\ call'.then = call.then /\ call'.key = call.key
      /\ table \in Generation /\ previous \in Generation
      /\ Distinct(table) /\ Covered(table) /\ Counted(table)
      /\ table.len = Cardinality(Live(table))
      /\ Distinct(previous) /\ Covered(previous) /\ Counted(previous) /\ Moved
  BY DEF MoveStep, Inv, TypeOK, MapInv, Membership, CountInv
<1>2. PICK s \in NextLive(previous), t \in Slot :
        call'.cursor = s /\ Stores(table, table', t, previous.ctrl[s])
  BY DEF MoveStep
<1>3. /\ s \in Live(previous) /\ previous.ctrl[s] \in Keys
      /\ s \in Nat /\ s > call.cursor
  BY <1>1, <1>2, NextLiveFacts
<1>4. Live(previous) \subseteq Nat /\ call.cursor \in Nat
  BY <1>1, SlotFacts DEF Live, Call
<1>5. ~Holds(table, previous.ctrl[s])
  BY <1>1, <1>3, <1>4 DEF Holds, Moved, Distinct
<1>6. /\ Distinct(table') /\ Covered(table')
      /\ \A x \in Live(table') : \/ x = t /\ table'.ctrl[x] = previous.ctrl[s]
                                 \/ x \in Live(table) /\ table'.ctrl[x] = table.ctrl[x]
  BY <1>1, <1>2, <1>3, <1>5, MapStored
<1>7. Counted(table') /\ table'.len = Cardinality(Live(table'))
  BY <1>1, <1>2, <1>3, CountStored
<1>8. \A x \in Live(table') : \E y \in Live(previous) :
        y <= s /\ previous.ctrl[y] = table'.ctrl[x]
  <2> SUFFICES ASSUME NEW x \in Live(table')
               PROVE  \E y \in Live(previous) :
                        y <= s /\ previous.ctrl[y] = table'.ctrl[x]
    OBVIOUS
  <2>1. CASE table'.ctrl[x] = previous.ctrl[s]
    BY <1>3, <2>1
  <2>2. CASE x \in Live(table) /\ table'.ctrl[x] = table.ctrl[x]
    <3>1. PICK y \in Live(previous) : y <= call.cursor /\ previous.ctrl[y] = table.ctrl[x]
      BY <1>1, <2>2 DEF Moved
    <3>2. y <= s
      BY <1>3, <1>4, <3>1
    <3> QED BY <2>2, <3>1, <3>2
  <2> QED BY <1>6, <2>1, <2>2
<1>9. Moved'
  BY <1>1, <1>2, <1>8 DEF Moved
<1>10. CountInv'
  BY <1>7 DEF CountInv
<1> QED BY <1>1, <1>6, <1>9, <1>10 DEF MapInv, Membership, PendingAbsent

LEMMA MapCommitStep ==
  ASSUME MapInv, CommitStep
  PROVE  MapInv'
<1>1. /\ call.at = "rebuild" /\ table' = table /\ Moved /\ Covered(table)
      /\ Distinct(table) /\ Counted(table) /\ table.len = Cardinality(Live(table))
  BY DEF CommitStep, MapInv, Membership, CountInv
<1>2. CASE call' = Idle
  BY <1>1, <1>2, CallFacts, MapPlain DEF HalfDone
<1>3. CASE call'.at = "place" /\ call.then # "return" /\ call'.key = call.key
  <2>1. ~Holds(table, call.key)
    BY <1>1, <1>3 DEF MapInv, PendingAbsent, Moved, Holds
  <2>2. CountInv' /\ Distinct(table') /\ Covered(table') /\ ~Holds(table', call'.key)
    BY <1>1, <1>3, <2>1 DEF CountInv
  <2> QED BY <1>3, <2>2 DEF MapInv, Membership, PendingAbsent
<1> QED BY <1>2, <1>3 DEF CommitStep

LEMMA MapRecordStep ==
  ASSUME Inv, MapInv, RecordStep
  PROVE  MapInv'
<1>1. /\ call.at = "refresh" /\ call'.at = "refresh" /\ call \in Call
      /\ table \in Generation /\ Distinct(table) /\ Counted(table)
      /\ \A t \in Live(table) : t <= call.cursor => Recorded(table, t)
  BY DEF RecordStep, Inv, TypeOK, MapInv, Membership, CountInv
<1>2. PICK s \in NextLive(table) :
        call'.cursor = s /\ Recording(table, table', s, table.ctrl[s])
  BY DEF RecordStep
<1>3. /\ s \in Slot /\ table.ctrl[s] \in Keys /\ s \in Nat
      /\ \A t \in Live(table) : t > call.cursor => s <= t
  BY <1>1, <1>2, NextLiveFacts
<1>4. /\ table'.ctrl = table.ctrl /\ table'.len = table.len /\ table'.shape = table.shape
      /\ table'.filter = table.filter \cup FilterBits[table.shape][table.ctrl[s]]
      /\ table'.bins = table.bins
            \cup {<<BinOf[table.shape][table.ctrl[s]], LevelBit(LevelAt(table, s))>>}
  BY <1>2 DEF Recording, Records, Frame
<1>5. Live(table') = Live(table)
  BY <1>4 DEF Live
<1>6. Distinct(table') /\ Counted(table')
  BY <1>1, <1>4, <1>5 DEF Distinct, Counted
<1>7. Recorded(table', s)
  BY <1>4 DEF Recorded, LevelAt
<1>8. ASSUME NEW t \in Live(table), t <= s PROVE Recorded(table', t)
  <2>1. t \in Nat /\ call.cursor \in Nat
    BY <1>1, SlotFacts DEF Live, Call
  <2>2. t <= call.cursor \/ t = s
    BY <1>3, <1>8, <2>1
  <2> QED BY <1>1, <1>4, <1>7, <2>2, RecordedKept
<1>9. CountInv'
  BY <1>1, <1>6 DEF CountInv
<1> QED BY <1>1, <1>2, <1>5, <1>6, <1>8, <1>9 DEF MapInv, Membership, PendingAbsent

LEMMA MapInit == Init => MapInv
<1> SUFFICES ASSUME Init PROVE MapInv
  OBVIOUS
<1>1. Live(table) = {} /\ table.len = 0 /\ call = Idle
  BY InvInit
<1>2. Distinct(table) /\ Covered(table) /\ Counted(table)
  BY <1>1, MapEmpty, SlotFacts
<1> QED BY <1>1, <1>2, CallFacts DEF MapInv, Membership, PendingAbsent, CountInv

LEMMA MapNext ==
  ASSUME "refresh" \notin Faults
  PROVE  Inv /\ MapInv /\ [Next]_vars => MapInv'
<1> SUFFICES ASSUME Inv, MapInv, [Next]_vars PROVE MapInv'
  OBVIOUS
<1>1. Kind /\ Inv'
  BY InvNext
<1>2. CASE KeptStep
  BY <1>2, MapKeptStep
<1>3. CASE InsertStep
  BY <1>3, MapInsertStep
<1>4. CASE MoveStep
  BY <1>4, MapMoveStep
<1>5. CASE RestoreStep
  BY <1>5, CallFacts, MapPlain DEF RestoreStep, MapInv, HalfDone
<1>6. CASE CommitStep
  BY <1>6, MapCommitStep
<1>7. CASE RecordStep
  BY <1>7, MapRecordStep
<1>8. CASE RefreshEndStep
  <2>1. ScanDone(table) /\ call.at = "refresh" /\ table' = table /\ call' = Idle
    BY <1>8 DEF RefreshEndStep
  <2>2. Covered(table)
    BY <2>1 DEF ScanDone, MapInv, Membership, Covered
  <2>3. Distinct(table') /\ Covered(table') /\ Counted(table')
    BY <2>1, <2>2 DEF MapInv, CountInv
  <2> QED BY <2>1, <2>3, CallFacts, MapPlain DEF HalfDone
<1>9. CASE WipeStep
  <2>1. /\ Live(table') = {} /\ call' = Idle /\ table'.len \in {0, table.len}
        /\ table.len \in Nat /\ table.len <= MaxSlots /\ MaxSlots \in Nat
    BY <1>9, SlotFacts DEF WipeStep, Live, Inv, TypeOK, Generation, MapInv, CountInv, Counted
  <2>2. table'.len \in 0..MaxSlots
    BY <2>1
  <2> QED BY <2>1, <2>2, MapEmpty, MapPlain, CallFacts DEF HalfDone
<1>10. CASE UNCHANGED <<table, previous, call>>
  BY <1>10 DEF MapInv, Membership, Moved, PendingAbsent, CountInv
<1> QED BY <1>1, <1>2, <1>3, <1>4, <1>5, <1>6, <1>7, <1>8, <1>9, <1>10 DEF Kind

LEMMA MapInvariant ==
  ASSUME "refresh" \notin Faults
  PROVE  Spec => [](Inv /\ MapInv)
BY InvInit, InvNext, MapInit, MapNext, PTL DEF Spec

------------------------------------------------------------------------------
(* No key is stored twice, in any state of any call: an insert stores a key
   only where its lookup proved it absent, and a rebuild moves each key of
   the old generation once, the keys of a recovery included. *)
THEOREM NoDuplicateKeysHolds ==
  ASSUME "refresh" \notin Faults
  PROVE  Spec => []NoDuplicateKeys
<1>1. MapInv => NoDuplicateKeys
  BY DEF MapInv, Distinct, NoDuplicateKeys
<1> QED BY <1>1, MapInvariant, PTL

(* Between calls get, contains_key, insert, entry and remove find every live
   key, at the slot that holds it: first probe, filter, summary, schedule and
   full scan together skip nothing. *)
THEOREM FindsEveryLiveKeyHolds ==
  ASSUME "refresh" \notin Faults
  PROVE  Spec => []FindsEveryLiveKey
<1>1. Inv /\ MapInv => FindsEveryLiveKey
  <2> SUFFICES ASSUME Inv, MapInv, call = Idle, NEW s \in Live(table)
               PROVE  Find(table, table.ctrl[s]) = {s}
    BY DEF FindsEveryLiveKey
  <2>1. /\ table \in Generation /\ Good(table) /\ Distinct(table) /\ Counted(table)
        /\ Recorded(table, s)
    BY CallFacts DEF Inv, TypeOK, MapInv, Membership, Covered, CountInv
  <2> QED BY <2>1, CountedLive, FindComplete
<1> QED BY <1>1, MapInvariant, PTL
==============================================================================
