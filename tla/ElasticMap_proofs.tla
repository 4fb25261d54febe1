-------------------------- MODULE ElasticMap_proofs --------------------------
(***************************************************************************)
(* The Elastic map implements MapSpec: what a caller sees is a partial     *)
(* function from keys to values, over rebuilds that commit or are undone,  *)
(* recoveries, deferred maintenance and bulk removals that user code cuts  *)
(* short, as long as no hasher panics inside a filter refresh.  And its    *)
(* counters: len covers the live keys and respects the limit under every   *)
(* fault, so that a placement always has room and a rebuild moves every    *)
(* entry; unless a drain is abandoned they are exact.  And the epoch       *)
(* has counted a recovery for every table flagged for full scans.          *)
(***************************************************************************)
EXTENDS ElasticTable_proofs

(* Every live slot holds a value. *)
Valued(g) == \A s \in Live(g) : g.data[s] \in Vals

(* A rebuild has moved the entries it has passed, as they were, and no other. *)
Copied ==
  \A t \in Live(table) : \E s \in Live(previous) :
     /\ s <= call.cursor
     /\ previous.ctrl[s] = table.ctrl[t] /\ previous.data[s] = table.data[t]
Complete ==
  \A s \in Live(previous) : s <= call.cursor =>
     \E t \in Live(table) : table.ctrl[t] = previous.ctrl[s]

(* A pending insert has its value; a bulk removal is what the caller last
   asked for, and clear and drain take the first entry left. *)
Pending ==
  /\ call.at = "place" \/ (call.at = "rebuild" /\ call.then # "return") => call.val \in Vals
  /\ call.at \in Bulk => event.op \in Bulk
  /\ call.at = "drain" => call.cursor = 0

DataInv ==
  /\ Valued(table) /\ Pending
  /\ call.at = "rebuild" => Valued(previous) /\ Copied /\ Complete

------------------------------------------------------------------------------
(* The contents of a generation.                                           *)

(* h has the entries of g, in their slots. *)
SameEntries(g, h) == h.ctrl = g.ctrl /\ h.data = g.data

(* h is g with the entry of slot s, of key k and value v, and no other change. *)
Gains(g, h, s, k, v) ==
  Free(g, s) /\ h.ctrl = [g.ctrl EXCEPT ![s] = k] /\ h.data = [g.data EXCEPT ![s] = v]

(* h has the entries of g but for slot s. *)
Loses(g, h, s) ==
  /\ Live(h) = Live(g) \ {s}
  /\ \A t \in Live(h) : h.ctrl[t] = g.ctrl[t] /\ h.data[t] = g.data[t]

LEMMA ContentsAt ==
  ASSUME NEW g, Distinct(g), NEW s \in Live(g)
  PROVE  Contents(g)[g.ctrl[s]] = g.data[s]
<1>1. g.ctrl[s] \in Keys /\ s \in Slot
  BY DEF Live
<1>2. \A t \in Slot : g.ctrl[t] = g.ctrl[s] => t = s
  BY <1>1 DEF Distinct, Live
<1>3. (CHOOSE t \in Slot : g.ctrl[t] = g.ctrl[s]) = s
  BY <1>1, <1>2
<1> QED BY <1>1, <1>3 DEF Contents

LEMMA ContentsAbsent ==
  ASSUME NEW g, NEW k \in Keys, ~Holds(g, k)
  PROVE  Contents(g)[k] = None
BY DEF Contents, Holds, Live

LEMMA ContentsType == \A g : Contents(g) = [k \in Keys |-> Contents(g)[k]]
BY DEF Contents

(* Two generations with the same entries, wherever they are. *)
LEMMA ContentsEqual ==
  ASSUME NEW g, NEW h, Distinct(g), Distinct(h),
         \A s \in Live(g) : \E t \in Live(h) : h.ctrl[t] = g.ctrl[s] /\ h.data[t] = g.data[s],
         \A t \in Live(h) : \E s \in Live(g) : h.ctrl[t] = g.ctrl[s]
  PROVE  Contents(h) = Contents(g)
<1>1. ASSUME NEW k \in Keys PROVE Contents(h)[k] = Contents(g)[k]
  <2>1. ASSUME NEW s \in Live(g), g.ctrl[s] = k PROVE Contents(h)[k] = Contents(g)[k]
    <3>1. PICK t \in Live(h) : h.ctrl[t] = k /\ h.data[t] = g.data[s]
      BY <2>1
    <3>2. Contents(h)[k] = h.data[t]
      BY <3>1, ContentsAt
    <3>3. Contents(g)[k] = g.data[s]
      BY <2>1, ContentsAt
    <3> QED BY <3>1, <3>2, <3>3
  <2>2. CASE ~Holds(g, k)
    <3>1. ~Holds(h, k)
      BY <2>2 DEF Holds
    <3> QED BY <2>2, <3>1, ContentsAbsent
  <2> QED BY <2>1, <2>2 DEF Holds
<1> QED BY <1>1, ContentsType

LEMMA ContentsSame ==
  ASSUME NEW g, NEW h, SameEntries(g, h)
  PROVE  Contents(h) = Contents(g) /\ (Valued(g) => Valued(h))
BY DEF SameEntries, Contents, Valued, Live

LEMMA ContentsEmpty ==
  ASSUME NEW g, Live(g) = {}
  PROVE  Contents(g) = [k \in Keys |-> None] /\ Valued(g)
<1>1. \A k \in Keys : Contents(g)[k] = None
  BY ContentsAbsent DEF Holds
<1> QED BY <1>1, ContentsType DEF Valued

LEMMA ContentsLost ==
  ASSUME NEW g, NEW h, NEW s \in Live(g), Distinct(g), Loses(g, h, s)
  PROVE  /\ Contents(h) = [Contents(g) EXCEPT ![g.ctrl[s]] = None]
         /\ Valued(g) => Valued(h)
<1>1. Distinct(h)
  BY DEF Distinct, Loses
<1>2. ASSUME NEW k \in Keys
      PROVE  Contents(h)[k] = IF k = g.ctrl[s] THEN None ELSE Contents(g)[k]
  <2>1. CASE k = g.ctrl[s]
    <3>1. ~Holds(h, k)
      BY <2>1 DEF Holds, Loses, Distinct
    <3> QED BY <2>1, <3>1, ContentsAbsent
  <2>2. ASSUME NEW t \in Live(h), h.ctrl[t] = k
        PROVE  k # g.ctrl[s] /\ Contents(h)[k] = Contents(g)[k]
    <3>1. t \in Live(g) /\ t # s /\ h.ctrl[t] = g.ctrl[t] /\ h.data[t] = g.data[t]
      BY <2>2 DEF Loses
    <3>2. Contents(h)[k] = h.data[t] /\ Contents(g)[k] = g.data[t]
      BY <1>1, <2>2, <3>1, ContentsAt
    <3> QED BY <2>2, <3>1, <3>2 DEF Distinct
  <2>3. CASE k # g.ctrl[s] /\ ~Holds(h, k)
    <3>1. ~Holds(g, k)
      BY <2>3 DEF Holds, Loses
    <3> QED BY <2>3, <3>1, ContentsAbsent
  <2> QED BY <2>1, <2>2, <2>3 DEF Holds
<1>3. Contents(h) = [Contents(g) EXCEPT ![g.ctrl[s]] = None]
  BY <1>2, ContentsType
<1> QED BY <1>3 DEF Valued, Loses

LEMMA GainsLive ==
  ASSUME NEW g \in Generation, NEW h, NEW s \in Slot, NEW k \in Keys, NEW v,
         Gains(g, h, s, k, v)
  PROVE  /\ Live(h) = Live(g) \cup {s} /\ s \notin Live(g)
         /\ h.ctrl[s] = k /\ h.data[s] = v
         /\ \A t \in Live(g) : h.ctrl[t] = g.ctrl[t] /\ h.data[t] = g.data[t]
<1>1. h.ctrl[s] = k /\ h.data[s] = v
  BY DEF Gains, Generation
<1>2. \A t \in Slot : t # s => h.ctrl[t] = g.ctrl[t] /\ h.data[t] = g.data[t]
  BY DEF Gains, Generation
<1>3. s \notin Live(g)
  BY FreeAssumption DEF Gains, Free, Live
<1>4. Live(h) = Live(g) \cup {s}
  BY <1>1, <1>2 DEF Live
<1> QED BY <1>1, <1>2, <1>3, <1>4 DEF Live

LEMMA ContentsGained ==
  ASSUME NEW g \in Generation, NEW h, NEW s \in Slot, NEW k \in Keys, NEW v \in Vals,
         Distinct(g), ~Holds(g, k), Gains(g, h, s, k, v)
  PROVE  /\ Contents(h) = [Contents(g) EXCEPT ![k] = v]
         /\ Valued(g) => Valued(h)
<1>1. /\ Live(h) = Live(g) \cup {s} /\ s \notin Live(g)
      /\ h.ctrl[s] = k /\ h.data[s] = v
      /\ \A t \in Live(g) : h.ctrl[t] = g.ctrl[t] /\ h.data[t] = g.data[t]
  BY GainsLive
<1>2. Distinct(h)
  BY <1>1 DEF Distinct, Holds
<1>3. ASSUME NEW x \in Keys
      PROVE  Contents(h)[x] = IF x = k THEN v ELSE Contents(g)[x]
  <2>1. CASE x = k
    <3>1. s \in Live(h)
      BY <1>1
    <3> QED BY <1>1, <1>2, <2>1, <3>1, ContentsAt
  <2>2. ASSUME NEW t \in Live(g), g.ctrl[t] = x
        PROVE  x # k /\ Contents(h)[x] = Contents(g)[x]
    <3>1. t \in Live(h) /\ h.ctrl[t] = x /\ h.data[t] = g.data[t]
      BY <1>1, <2>2
    <3>2. Contents(h)[x] = h.data[t] /\ Contents(g)[x] = g.data[t]
      BY <1>2, <2>2, <3>1, ContentsAt
    <3> QED BY <2>2, <3>1, <3>2 DEF Holds
  <2>3. CASE x # k /\ ~Holds(g, x)
    <3>1. ~Holds(h, x)
      BY <1>1, <2>3 DEF Holds
    <3> QED BY <2>3, <3>1, ContentsAbsent
  <2> QED BY <2>1, <2>2, <2>3 DEF Holds
<1>4. Contents(h) = [Contents(g) EXCEPT ![k] = v]
  BY <1>3, ContentsType
<1>5. Valued(g) => Valued(h)
  BY <1>1 DEF Valued
<1> QED BY <1>4, <1>5

(* An insert that finds its key replaces the value. *)
LEMMA ContentsReplaced ==
  ASSUME NEW g \in Generation, NEW s \in Live(g), NEW v \in Vals, Distinct(g)
  PROVE  LET h == [g EXCEPT !.data[s] = v]
         IN  /\ Contents(h) = [Contents(g) EXCEPT ![g.ctrl[s]] = v]
             /\ Valued(g) => Valued(h)
<1> DEFINE h == [g EXCEPT !.data[s] = v]
<1>1. /\ h.ctrl = g.ctrl /\ h.data = [g.data EXCEPT ![s] = v] /\ s \in Slot
  BY DEF Generation, Live
<1> HIDE DEF h
<1>2. /\ Live(h) = Live(g) /\ h.data[s] = v
      /\ \A t \in Live(g) : t # s => h.data[t] = g.data[t]
  BY <1>1 DEF Live, Generation
<1>3. Distinct(h)
  BY <1>1, <1>2 DEF Distinct
<1>4. ASSUME NEW k \in Keys
      PROVE  Contents(h)[k] = IF k = g.ctrl[s] THEN v ELSE Contents(g)[k]
  <2>1. ASSUME NEW t \in Live(g), g.ctrl[t] = k
        PROVE  Contents(h)[k] = IF k = g.ctrl[s] THEN v ELSE Contents(g)[k]
    <3>0. t \in Live(h) /\ h.ctrl[t] = k
      BY <1>1, <1>2, <2>1
    <3>1. Contents(h)[k] = h.data[t] /\ Contents(g)[k] = g.data[t]
      BY <1>3, <2>1, <3>0, ContentsAt
    <3>2. k = g.ctrl[s] => t = s
      BY <2>1 DEF Distinct
    <3>3. t = s => k = g.ctrl[s]
      BY <2>1
    <3> QED BY <1>2, <3>1, <3>2, <3>3
  <2>2. CASE ~Holds(g, k)
    <3>1. ~Holds(h, k) /\ k # g.ctrl[s]
      BY <1>1, <1>2, <2>2 DEF Holds
    <3> QED BY <2>2, <3>1, ContentsAbsent
  <2> QED BY <2>1, <2>2 DEF Holds
<1>5. Contents(h) = [Contents(g) EXCEPT ![g.ctrl[s]] = v]
  BY <1>4, ContentsType
<1>6. Valued(g) => Valued(h)
  BY <1>2 DEF Valued
<1> QED BY <1>5, <1>6 DEF h

------------------------------------------------------------------------------
(* What the writes do to the entries.                                      *)

LEMMA PlacementGains ==
  ASSUME NEW g \in Generation, NEW s \in Slot, NEW k \in Keys, NEW v
  PROVE  /\ WriteNewEntry(g, s, k, v).ctrl = [g.ctrl EXCEPT ![s] = k]
         /\ WriteNewEntry(g, s, k, v).data = [g.data EXCEPT ![s] = v]
BY DEF WriteNewEntry, RecordMembership, Generation

LEMMA SyncedSame == \A g \in Generation : SameEntries(g, Synced(g))
BY DEF Synced, Generation, SameEntries

LEMMA PlaceNewEntryGains ==
  ASSUME NEW g \in Generation, Good(g), NEW k \in Keys, NEW v, NEW p, Choice(g, k, p)
  PROVE  \E s \in Slot : Gains(g, PlaceNewEntry(g, p, k, v), s, k, v)
<1> DEFINE s == SlotOn(g, k, p.level, p.probe)
           x == ExtendProbeSchedule(g, p)
<1>1. /\ p.level \in Levels(g.shape) /\ p.probe \in Probes[p.level]
      /\ s # 0 /\ Free(g, s) /\ g.shape \in Shapes
  BY DEF Choice, Generation
<1>2. s \in Slot
  BY <1>1, SlotOnFacts
<1>3. x \in Generation /\ Same(g, x)
  BY <1>1, ExtendFacts DEF Good
<1>4. x.data = g.data
  BY DEF ExtendProbeSchedule, Generation
<1>5. SlotOn(x, k, p.level, p.probe) = s
  BY <1>3 DEF SlotOn, Same
<1>6. PlaceNewEntry(g, p, k, v) = WriteNewEntry(x, s, k, v)
  BY <1>5 DEF PlaceNewEntry
<1> HIDE DEF s, x
<1>7. Gains(g, WriteNewEntry(x, s, k, v), s, k, v)
  BY <1>1, <1>2, <1>3, <1>4, PlacementGains DEF Gains, Same
<1> QED BY <1>2, <1>6, <1>7

LEMMA PlaceExceptionalGains ==
  ASSUME NEW g \in Generation, NEW k \in Keys, NEW v \in Vals \cup {None},
         NEW s \in FirstFreeSlot(g)
  PROVE  s \in Slot /\ Gains(g, PlaceExceptional(g, s, k, v), s, k, v)
<1>1. s \in Slot /\ Free(g, s)
  BY FirstFreeFacts
<1>2. WriteNewEntry(g, s, k, v) \in Generation
  BY <1>1, WriteFacts
<1>3. SameEntries(WriteNewEntry(g, s, k, v), PlaceExceptional(g, s, k, v))
  BY <1>2 DEF PlaceExceptional, Generation, SameEntries
<1> QED BY <1>1, <1>3, PlacementGains DEF Gains, SameEntries

LEMMA GainsSame ==
  ASSUME NEW g, NEW x, NEW h, NEW s, NEW k, NEW v, SameEntries(g, x), Gains(x, h, s, k, v)
  PROVE  Gains(g, h, s, k, v)
BY DEF Gains, SameEntries, Free

LEMMA TombstoneLoses ==
  ASSUME NEW g \in Generation, NEW s \in Live(g)
  PROVE  Loses(g, TombstoneSlot(g, s), s)
<1> DEFINE h == TombstoneSlot(g, s)
<1>1. h.ctrl = [g.ctrl EXCEPT ![s] = TOMBSTONE] /\ h.data = [g.data EXCEPT ![s] = None]
  BY DEF TombstoneSlot, Generation
<1> HIDE DEF h
<1>2. /\ s \in Slot /\ h.ctrl[s] = TOMBSTONE
      /\ \A t \in Slot : t # s => h.ctrl[t] = g.ctrl[t] /\ h.data[t] = g.data[t]
  BY <1>1 DEF Live, Generation
<1>3. Live(h) = Live(g) \ {s}
  BY <1>2, FreeAssumption DEF Live
<1> QED BY <1>2, <1>3 DEF Loses, Live, h

LEMMA ExtractLoses ==
  ASSUME NEW g \in Generation, NEW s \in Live(g)
  PROVE  Loses(g, ExtractFinish(g, s), s)
<1>1. TombstoneSlot(g, s) \in Generation
  BY TombstoneFacts DEF Shrunk
<1>2. SameEntries(TombstoneSlot(g, s), ExtractFinish(g, s))
  BY <1>1 DEF ExtractFinish, Generation, SameEntries
<1> QED BY <1>2, TombstoneLoses DEF Loses, SameEntries, Live

(* drain_reset comes to the first entry left: the levels it has reset before
   that hold none. *)
LEMMA DrainResetLoses ==
  ASSUME NEW g \in Generation, Good(g), NEW s \in Live(g), \A t \in Live(g) : s <= t
  PROVE  Loses(g, DrainResetEntry(g, s), s)
<1> DEFINE L == {l \in Level : l < LevelAt(g, s)}
           r == ResetLevels(g, L)
           h == DrainResetEntry(g, s)
<1>1. Live(g) \subseteq Slot /\ Live(g) \subseteq SlotsOf(g) /\ g.shape \in Shapes
  BY DEF Live, Good, Scheduled, Generation
<1>2. \A t \in Live(g) : LevelAt(g, t) \notin L
  <2>1. ASSUME NEW t \in Live(g) PROVE ~(LevelAt(g, t) < LevelAt(g, s))
    <3>1. LevelAt(g, s) <= LevelAt(g, t)
      BY <1>1, LevelOrderAssumption DEF SlotsOf, LevelAt
    <3>2. LevelAt(g, s) \in Nat /\ LevelAt(g, t) \in Nat
      BY <1>1, LevelBitType, LevelFacts
    <3> QED BY <3>1, <3>2
  <2> QED BY <2>1
<1>3. /\ r \in Generation /\ r.data = g.data
      /\ \A t \in Slot : r.ctrl[t] = IF t \in SlotsOf(g) /\ LevelAt(g, t) \in L
                                     THEN EMPTY ELSE g.ctrl[t]
  <2>1. L \in SUBSET Level
    OBVIOUS
  <2> HIDE DEF L
  <2> QED BY <2>1, ResetLevelsFacts
<1>4. h.ctrl = [r.ctrl EXCEPT ![s] = EMPTY] /\ h.data = [r.data EXCEPT ![s] = None]
  <2> HIDE DEF r
  <2>1. h = [r EXCEPT !.ctrl[s] = EMPTY, !.data[s] = None, !.len = Decrement(@),
                      !.levelLen[LevelAt(g, s)] = Decrement(@)]
    BY DEF DrainResetEntry, r
  <2> HIDE DEF h
  <2> QED BY <1>3, <2>1 DEF Generation
<1> HIDE DEF r, h, L
<1>5. /\ s \in Slot /\ h.ctrl[s] = EMPTY
      /\ \A t \in Slot : t # s => h.ctrl[t] = r.ctrl[t] /\ h.data[t] = g.data[t]
  BY <1>1, <1>3, <1>4 DEF Generation
<1>6. \A t \in Live(g) : t # s => h.ctrl[t] = g.ctrl[t]
  BY <1>1, <1>2, <1>3, <1>5
<1>7. \A t \in Slot : h.ctrl[t] \in Keys => t \in Live(g) /\ t # s
  BY <1>3, <1>5, FreeAssumption DEF Live
<1>8. Live(h) = Live(g) \ {s}
  BY <1>1, <1>6, <1>7 DEF Live
<1> QED BY <1>5, <1>6, <1>8 DEF Loses, Live, h

------------------------------------------------------------------------------
(* The steps of MapSpec, on the contents of the owner.                     *)

LEMMA OwnerFacts ==
  /\ call.at # "rebuild" => Contents(Owner) = Contents(table)
  /\ call.at = "rebuild" => Contents(Owner) = Contents(previous)
  /\ call'.at # "rebuild" => Contents(Owner)' = Contents(table')
  /\ call'.at = "rebuild" => Contents(Owner)' = Contents(previous')
BY DEF Owner, Contents

(* The caller sees no change, or the end of a call without an answer. *)
LEMMA SilentStep ==
  ASSUME Contents(Owner)' = Contents(Owner), event' \in {event, Quiet}
  PROVE  [Map!Next]_Map!vars
BY DEF Map!Next, Map!Silent, Map!vars, Map!Quiet, Map!Answered, Quiet, Answered

LEMMA AnswerStep ==
  ASSUME NEW k \in Keys, Contents(Owner)' = Contents(Owner),
         event' = Answered("get", k, None, Contents(Owner)[k])
  PROVE  [Map!Next]_Map!vars
BY DEF Map!Next, Map!Get, Map!Answered, Answered

LEMMA BulkStep ==
  ASSUME NEW op \in Bulk, Contents(Owner)' = Contents(Owner), event' = Bulky(op)
  PROVE  [Map!Next]_Map!vars
BY DEF Map!Next, Map!Start, Map!Answered, Answered, Map!Bulky, Bulky, Map!Bulk, Bulk

LEMMA StoreStep ==
  ASSUME NEW k \in Keys, NEW v \in Vals,
         Contents(Owner)' = [Contents(Owner) EXCEPT ![k] = v],
         event' = Answered("insert", k, v, Contents(Owner)[k])
  PROVE  [Map!Next]_Map!vars
BY DEF Map!Next, Map!Insert, Map!Answered, Answered

LEMMA RemoveStep ==
  ASSUME NEW k \in Keys, Contents(Owner)' = [Contents(Owner) EXCEPT ![k] = None],
         event' = Answered("remove", k, None, Contents(Owner)[k])
  PROVE  [Map!Next]_Map!vars
BY DEF Map!Next, Map!Remove, Map!Answered, Answered

LEMMA DiscardStep ==
  ASSUME NEW k \in Keys, Contents(Owner)' = [Contents(Owner) EXCEPT ![k] = None],
         event' = event, event.op \in Bulk, Contents(Owner)[k] # None
  PROVE  [Map!Next]_Map!vars
BY DEF Map!Next, Map!Discard, Map!Bulk, Bulk

(* Keys that are absent are removed without effect. *)
LEMMA RemoveAbsent ==
  ASSUME NEW g, NEW k \in Keys, ~Holds(g, k)
  PROVE  [Contents(g) EXCEPT ![k] = None] = Contents(g)
BY ContentsAbsent, ContentsType

------------------------------------------------------------------------------
(* Every step is one of MapSpec, and moves the entries as they are.        *)

Sound == Inv /\ MapInv /\ DataInv

LEMMA SoundTable ==
  ASSUME Sound
  PROVE  /\ table \in Generation /\ Good(table) /\ Distinct(table) /\ Counted(table)
         /\ Valued(table) /\ call \in Call /\ epoch \in Epoch
         /\ table.schedule \subseteq Routes[table.shape]
         /\ call.at # "refresh" => Covered(table)
BY DEF Sound, Inv, TypeOK, MapInv, CountInv, DataInv, Membership, Good, Scheduled, RoutesBetween

(* A key is absent and not found, or found at the one slot that holds it. *)
LEMMA LookupFacts ==
  ASSUME Sound, call = Idle, NEW k \in Keys
  PROVE  \/ Find(table, k) = {} /\ ~Holds(table, k)
         \/ \E s \in Live(table) : Find(table, k) = {s} /\ table.ctrl[s] = k
<1>1. /\ table \in Generation /\ Good(table) /\ Distinct(table) /\ Counted(table)
      /\ Covered(table) /\ table.schedule \subseteq Routes[table.shape]
  BY SoundTable, CallFacts
<1>2. ASSUME NEW s \in Live(table), table.ctrl[s] = k PROVE Find(table, k) = {s}
  BY <1>1, <1>2, CountedLive, FindComplete DEF Covered
<1>3. \A s \in Find(table, k) : s \in Live(table) /\ table.ctrl[s] = k
  BY <1>1, FindHoldsKey DEF Live
<1> QED BY <1>2, <1>3 DEF Holds

LEMMA PlainData ==
  ASSUME Valued(table'), call'.at \notin Bulk \cup {"rebuild", "place"}
  PROVE  DataInv'
BY DEF DataInv, Pending, Valued, Live, Bulk

(* The table is the owner before and after a step outside a rebuild. *)
LEMMA PlainContents ==
  ASSUME call.at # "rebuild", call'.at # "rebuild"
  PROVE  Contents(Owner) = Contents(table) /\ Contents(Owner)' = Contents(table')
BY OwnerFacts

LEMMA RebuildData ==
  ASSUME NEW old, Valued(old), NEW shape \in Shapes, NEW tr \in Transition, NEW rest \in Call,
         StartRebuild(old, shape, tr, rest), rest.cursor = 0,
         rest.then # "return" => rest.val \in Vals
  PROVE  DataInv' /\ Contents(Owner)' = Contents(old)
<1>1. previous' = old /\ table' = Fresh(shape)
      /\ call' = [rest EXCEPT !.at = "rebuild", !.transition = tr]
  BY DEF StartRebuild
<1>2. /\ call'.at = "rebuild" /\ call'.then = rest.then /\ call'.val = rest.val
      /\ call'.cursor = 0
  BY <1>1 DEF Call, FaultPoints
<1>3. Live(table') = {}
  BY <1>1, FreshFacts
<1>4. Valued(table') /\ Valued(previous')
  BY <1>1, <1>3, ContentsEmpty
<1>5. \A s \in Live(previous') : ~(s <= 0)
  BY SlotFacts DEF Live
<1>6. Copied' /\ Complete'
  BY <1>2, <1>3, <1>5 DEF Copied, Complete, Live
<1>7. Pending'
  BY <1>2 DEF Pending, Bulk
<1>8. Contents(Owner)' = Contents(old)
  BY <1>1, <1>2, OwnerFacts
<1> QED BY <1>4, <1>6, <1>7, <1>8 DEF DataInv, Valued, Live

LEMMA PlacedData ==
  ASSUME Sound, call.at # "rebuild", NEW s \in Slot, NEW k \in Keys, NEW v \in Vals, NEW h,
         NEW e, ~Holds(table, k), Gains(table, h, s, k, v), Placed(k, v, h, e)
  PROVE  DataInv' /\ [Map!Next]_Map!vars
<1>1. /\ table' = h /\ call' = Idle /\ event' = Answered("insert", k, v, None)
      /\ Idle.at = "idle"
  BY CallFacts DEF Placed
<1>2. Contents(h) = [Contents(table) EXCEPT ![k] = v] /\ Valued(h)
  BY SoundTable, ContentsGained
<1>3. Contents(Owner) = Contents(table) /\ Contents(Owner)' = Contents(h)
  BY <1>1, PlainContents
<1>4. Contents(table)[k] = None
  BY ContentsAbsent
<1>5. DataInv'
  BY <1>1, <1>2, PlainData DEF Bulk
<1> QED BY <1>1, <1>2, <1>3, <1>4, <1>5, StoreStep

(* A rebuild begins for an insert: the caller sees nothing yet. *)
LEMMA RebuildForInsertData ==
  ASSUME Sound, call.at # "rebuild", NEW g, SameEntries(table, g), NEW shape \in Shapes,
         NEW tr \in Transition, NEW then \in {"grown", "recovered"},
         NEW k \in Keys, NEW v \in Vals,
         StartRebuild(g, shape, tr, [Idle EXCEPT !.then = then, !.key = k, !.val = v]),
         event' = Quiet
  PROVE  DataInv' /\ [Map!Next]_Map!vars
<1> DEFINE rest == [Idle EXCEPT !.then = then, !.key = k, !.val = v]
<1>1. rest \in Call /\ rest.cursor = 0 /\ rest.val = v
  BY DEF Idle, Call, Transition
<1>2. Valued(g) /\ Contents(g) = Contents(table)
  BY SoundTable, ContentsSame
<1>3. StartRebuild(g, shape, tr, rest)
  OBVIOUS
<1> HIDE DEF rest
<1>4. DataInv' /\ Contents(Owner)' = Contents(g)
  BY <1>1, <1>2, <1>3, RebuildData
<1>5. Contents(Owner) = Contents(table)
  BY OwnerFacts
<1> QED BY <1>2, <1>4, <1>5, SilentStep

LEMMA PlaceAbsentData ==
  ASSUME Sound, call.at # "rebuild", NEW k \in Keys, NEW v \in Vals, ~Holds(table, k),
         PlaceAbsent(k, v)
  PROVE  DataInv' /\ [Map!Next]_Map!vars
<1> DEFINE g == Synced(table)
<1>1. /\ g \in Generation /\ Good(g) /\ SameEntries(table, g) /\ g.scheduler.index \in Nat
      /\ g.shape \in Shapes
  BY SoundTable, SyncedFacts, SyncedSame DEF Good, Generation
<1> HIDE DEF g
<1>2. ASSUME NEW p, Choice(g, k, p), Placed(k, v, PlaceNewEntry(g, p, k, v), epoch)
      PROVE  DataInv' /\ [Map!Next]_Map!vars
  <2>1. PICK s \in Slot : Gains(g, PlaceNewEntry(g, p, k, v), s, k, v)
    BY <1>1, <1>2, PlaceNewEntryGains
  <2>2. Gains(table, PlaceNewEntry(g, p, k, v), s, k, v)
    BY <1>1, <2>1, GainsSame
  <2> QED BY <1>2, <2>2, PlacedData
<1>3. ASSUME NEW s \in FirstFreeSlot(g),
             Placed(k, v, PlaceExceptional(g, s, k, v), NotePlacementRecovery(epoch))
      PROVE  DataInv' /\ [Map!Next]_Map!vars
  <2>1. s \in Slot /\ Gains(g, PlaceExceptional(g, s, k, v), s, k, v)
    BY <1>1, PlaceExceptionalGains
  <2>2. Gains(table, PlaceExceptional(g, s, k, v), s, k, v)
    BY <1>1, <2>1, GainsSame
  <2> QED BY <1>3, <2>1, <2>2, PlacedData
<1>4. CASE /\ StartRebuild(g, g.shape, "PlacementRecovery",
                           [Idle EXCEPT !.then = "recovered", !.key = k, !.val = v])
           /\ event' = Quiet
  <2>1. "PlacementRecovery" \in Transition
    BY DEF Transition
  <2> QED BY <1>1, <1>4, <2>1, RebuildForInsertData
<1>5. CASE PlaceAfterTargetFailure(k, v, g)
  <2>1. \A p \in ChooseSlotOnOtherTargets(g, k, g.scheduler.index) : Choice(g, k, p)
    BY <1>1, OtherTargetFacts
  <2> QED BY <1>2, <1>3, <1>4, <1>5, <2>1 DEF PlaceAfterTargetFailure
<1>6. \A p \in ChooseSlot(g, k, g.scheduler.index) : Choice(g, k, p)
  BY <1>1, ChooseSlotFacts
<1> QED BY <1>2, <1>5, <1>6 DEF PlaceAbsent, g

LEMMA InsertAbsentData ==
  ASSUME Sound, call = Idle, NEW k \in Keys, NEW v \in Vals, ~Holds(table, k),
         InsertAbsent(k, v)
  PROVE  DataInv' /\ [Map!Next]_Map!vars
<1>1. table.shape \in Shapes /\ call.at # "rebuild"
  BY SoundTable, CallFacts DEF Generation
<1>2. CASE /\ table.shape < LastShape
           /\ StartRebuild(table, table.shape + 1, "Growth",
                           [Idle EXCEPT !.then = "grown", !.key = k, !.val = v])
           /\ event' = Quiet
  <2>1. table.shape + 1 \in Shapes /\ "Growth" \in Transition /\ SameEntries(table, table)
    BY <1>1, <1>2, ShapeAssumption DEF Shapes, Transition, SameEntries
  <2> QED BY <1>1, <1>2, <2>1, RebuildForInsertData
<1>3. CASE PlaceAbsent(k, v)
  BY <1>1, <1>3, PlaceAbsentData
<1> QED BY <1>2, <1>3 DEF InsertAbsent

(* A lookup that hits answers what the contents say. *)
LEMMA HitFacts ==
  ASSUME Sound, call = Idle, NEW k \in Keys, NEW s \in Find(table, k)
  PROVE  /\ s \in Live(table) /\ table.ctrl[s] = k /\ Find(table, k) = {s}
         /\ Contents(table)[k] = table.data[s]
<1>1. s \in Live(table) /\ table.ctrl[s] = k /\ Find(table, k) = {s}
  BY LookupFacts
<1> QED BY <1>1, SoundTable, ContentsAt

LEMMA InsertData ==
  ASSUME Sound, NEW k \in Keys, NEW v \in Vals, Insert(k, v) \/ EntryOrInsert(k, v)
  PROVE  DataInv' /\ [Map!Next]_Map!vars
<1>1. /\ call = Idle /\ Idle.at = "idle" /\ Idle.at \notin Bulk \cup {"rebuild", "place"}
      /\ call.at # "rebuild"
  BY CallFacts DEF Insert, EntryOrInsert, Bulk
<1>2. ASSUME NEW s \in Find(table, k), table' = [table EXCEPT !.data[s] = v],
             event' = Answered("insert", k, v, table.data[s]), UNCHANGED call
      PROVE  DataInv' /\ [Map!Next]_Map!vars
  <2>1. s \in Live(table) /\ table.ctrl[s] = k /\ Contents(table)[k] = table.data[s]
    BY <1>1, HitFacts
  <2>2. Contents(table') = [Contents(table) EXCEPT ![k] = v] /\ Valued(table')
    BY <1>2, <2>1, SoundTable, ContentsReplaced
  <2>3. Contents(Owner) = Contents(table) /\ Contents(Owner)' = Contents(table')
    BY <1>1, <1>2, PlainContents
  <2>4. DataInv'
    BY <1>1, <1>2, <2>2, PlainData
  <2> QED BY <1>2, <2>1, <2>2, <2>3, <2>4, StoreStep
<1>3. ASSUME NEW s \in Find(table, k), event' = Answered("get", k, None, table.data[s]),
             UNCHANGED <<table, previous, call>>
      PROVE  DataInv' /\ [Map!Next]_Map!vars
  <2>1. Contents(table)[k] = table.data[s]
    BY <1>1, HitFacts
  <2>2. Contents(Owner) = Contents(table) /\ Contents(Owner)' = Contents(table')
    BY <1>1, <1>3, PlainContents
  <2>3. DataInv'
    BY <1>1, <1>3, SoundTable, PlainData
  <2> QED BY <1>3, <2>1, <2>2, <2>3, AnswerStep
<1>4. CASE Find(table, k) = {} /\ InsertAbsent(k, v)
  BY <1>1, <1>4, LookupFacts, InsertAbsentData
<1>5. CASE Insert(k, v)
  BY <1>2, <1>4, <1>5 DEF Insert
<1>6. CASE EntryOrInsert(k, v)
  BY <1>3, <1>4, <1>6 DEF EntryOrInsert
<1> QED BY <1>5, <1>6

LEMMA GetData ==
  ASSUME Sound, NEW k \in Keys, Get(k)
  PROVE  DataInv' /\ [Map!Next]_Map!vars
<1> DEFINE answer == LET found == Find(table, k)
                     IN  IF found = {} THEN None
                         ELSE table.data[CHOOSE s \in found : TRUE]
<1>1. /\ call = Idle /\ Idle.at \notin Bulk \cup {"rebuild", "place"} /\ call.at # "rebuild"
      /\ UNCHANGED <<table, call>> /\ event' = Answered("get", k, None, answer)
  BY CallFacts DEF Get, Bulk
<1>2. answer = Contents(table)[k]
  <2>1. CASE Find(table, k) = {}
    BY <1>1, <2>1, LookupFacts, ContentsAbsent
  <2>2. ASSUME NEW s \in Find(table, k) PROVE answer = Contents(table)[k]
    BY <1>1, <2>2, HitFacts
  <2> QED BY <2>1, <2>2
<1> HIDE DEF answer
<1>3. Contents(Owner) = Contents(table) /\ Contents(Owner)' = Contents(table')
  BY <1>1, PlainContents
<1>4. DataInv'
  BY <1>1, SoundTable, PlainData
<1> QED BY <1>1, <1>2, <1>3, <1>4, AnswerStep

LEMMA ResumePlaceData ==
  ASSUME Sound, ResumePlace
  PROVE  DataInv' /\ [Map!Next]_Map!vars
<1> DEFINE g == Synced(table)
<1>1. PICK k \in Keys, v \in Vals : k = call.key /\ v = call.val
  BY DEF Sound, Inv, CallInv, DataInv, Pending, ResumePlace
<1>2. call.at = "place" /\ call.at # "rebuild" /\ ~Holds(table, k)
  BY <1>1 DEF ResumePlace, Sound, MapInv, PendingAbsent
<1>3. /\ g \in Generation /\ Good(g) /\ SameEntries(table, g) /\ g.scheduler.index \in Nat
  BY SoundTable, SyncedFacts, SyncedSame DEF Good
<1> HIDE DEF g
<1>4. ASSUME NEW p \in ChooseSlot(g, k, g.scheduler.index),
             Placed(k, v, PlaceNewEntry(g, p, k, v), epoch)
      PROVE  DataInv' /\ [Map!Next]_Map!vars
  <2>1. Choice(g, k, p)
    BY <1>3, ChooseSlotFacts
  <2>2. PICK s \in Slot : Gains(g, PlaceNewEntry(g, p, k, v), s, k, v)
    BY <1>3, <2>1, PlaceNewEntryGains
  <2>3. Gains(table, PlaceNewEntry(g, p, k, v), s, k, v)
    BY <1>3, <2>2, GainsSame
  <2> QED BY <1>2, <1>4, <2>3, PlacedData
<1>5. ASSUME NEW s \in FirstFreeSlot(g), Placed(k, v, PlaceExceptional(g, s, k, v), epoch)
      PROVE  DataInv' /\ [Map!Next]_Map!vars
  <2>1. s \in Slot /\ Gains(g, PlaceExceptional(g, s, k, v), s, k, v)
    BY <1>3, PlaceExceptionalGains
  <2>2. Gains(table, PlaceExceptional(g, s, k, v), s, k, v)
    BY <1>3, <2>1, GainsSame
  <2> QED BY <1>2, <1>5, <2>1, <2>2, PlacedData
<1>6. ASSUME PlaceAbsent(k, v) PROVE DataInv' /\ [Map!Next]_Map!vars
  BY <1>2, <1>6, PlaceAbsentData
<1> QED BY <1>1, <1>4, <1>5, <1>6 DEF ResumePlace, g

(* The deferred maintenance moves no entry at once: a rebuild that begins
   has the table g as its owner, a refresh keeps the slots. *)
LEMMA SettleData ==
  ASSUME NEW g \in Generation, Valued(g), NEW needsCleanup, Settle(g, needsCleanup)
  PROVE  DataInv' /\ Contents(Owner)' = Contents(g)
<1>1. /\ Idle \in Call /\ Idle.at = "idle" /\ Idle.cursor = 0 /\ Idle.then = "return"
      /\ g.shape \in Shapes /\ Idle.at \notin Bulk \cup {"rebuild", "place"}
  BY CallFacts DEF Bulk, Generation
<1>2. CASE StartRebuild(g, g.shape, "TombstoneCleanup", Idle)
  <2>1. "TombstoneCleanup" \in Transition
    BY DEF Transition
  <2> QED BY <1>1, <1>2, <2>1, RebuildData
<1>3. CASE table' = ClearMembership(g) /\ call' = Scanning("refresh")
  <2>1. call'.at = "refresh"
    BY <1>3, CallFacts DEF FaultPoints
  <2>2. SameEntries(g, table')
    BY <1>3 DEF ClearMembership, SameEntries, Generation
  <2>3. Contents(table') = Contents(g) /\ Valued(table')
    BY <2>2, ContentsSame
  <2>4. Contents(Owner)' = Contents(table')
    BY <2>1, OwnerFacts
  <2>5. DataInv'
    BY <2>1, <2>3, PlainData DEF Bulk
  <2> QED BY <2>3, <2>4, <2>5
<1>4. CASE table' = g /\ call' = Idle
  <2>1. Contents(Owner)' = Contents(table')
    BY <1>1, <1>4, OwnerFacts
  <2> QED BY <1>1, <1>4, <2>1, PlainData
<1> QED BY <1>2, <1>3, <1>4 DEF Settle

LEMMA RemoveData ==
  ASSUME Sound, NEW k \in Keys, Remove(k)
  PROVE  DataInv' /\ [Map!Next]_Map!vars
<1>1. call = Idle /\ Idle.at = "idle" /\ call.at # "rebuild"
      /\ Contents(Owner) = Contents(table)
  BY CallFacts, OwnerFacts DEF Remove
<1>2. ASSUME NEW s \in Find(table, k), NEW needsCleanup,
             event' = Answered("remove", k, None, table.data[s]),
             Settle(ExtractFinish(table, s), needsCleanup)
      PROVE  DataInv' /\ [Map!Next]_Map!vars
  <2> DEFINE g == ExtractFinish(table, s)
  <2>1. s \in Live(table) /\ table.ctrl[s] = k /\ Contents(table)[k] = table.data[s]
    BY <1>1, HitFacts
  <2>2. g \in Generation /\ Loses(table, g, s)
    BY <2>1, SoundTable, ExtractFacts, ExtractLoses DEF Shrunk
  <2>3. Contents(g) = [Contents(table) EXCEPT ![k] = None] /\ Valued(g)
    BY <2>1, <2>2, SoundTable, ContentsLost
  <2>4. DataInv' /\ Contents(Owner)' = Contents(g)
    BY <1>2, <2>2, <2>3, SettleData
  <2> QED BY <1>1, <1>2, <2>1, <2>3, <2>4, RemoveStep
<1>3. CASE /\ Find(table, k) = {} /\ event' = Answered("remove", k, None, None)
           /\ UNCHANGED <<table, previous, call>>
  <2>1. ~Holds(table, k)
    BY <1>1, <1>3, LookupFacts
  <2>2. Contents(Owner)' = Contents(table)
    BY <1>1, <1>3, OwnerFacts
  <2>3. DataInv'
    BY <1>1, <1>3, SoundTable, PlainData DEF Bulk
  <2> QED BY <1>1, <1>3, <2>1, <2>2, <2>3, RemoveAbsent, ContentsAbsent, RemoveStep
<1> QED BY <1>2, <1>3 DEF Remove

LEMMA RebuildStepData ==
  ASSUME Sound, RebuildStep
  PROVE  DataInv' /\ [Map!Next]_Map!vars
<1> DEFINE g == Synced(table)
           choice(s) == ChooseSlot(g, previous.ctrl[s], g.scheduler.index)
<1>1. /\ call.at = "rebuild" /\ previous' = previous /\ event' = event
      /\ previous \in Generation /\ Valued(previous) /\ Copied /\ Complete
      /\ call.then # "return" => call.val \in Vals
  BY DEF RebuildStep, Sound, Inv, TypeOK, DataInv, Pending
<1>2. /\ g \in Generation /\ Good(g) /\ SameEntries(table, g) /\ g.scheduler.index \in Nat
      /\ table \in Generation /\ Valued(table) /\ call \in Call
  BY SoundTable, SyncedFacts, SyncedSame DEF Good
<1>3. PICK s \in NextLive(previous) :
        /\ \/ \E p \in choice(s) :
                table' = PlaceNewEntry(g, p, previous.ctrl[s], previous.data[s])
           \/ \E t \in FirstFreeSlot(g) :
                table' = PlaceExceptional(g, t, previous.ctrl[s], previous.data[s])
        /\ call' = [call EXCEPT !.cursor = s, !.recovered = @ \/ choice(s) = {}]
  BY DEF RebuildStep
<1>4. /\ s \in Live(previous) /\ s \in Nat /\ s > call.cursor /\ previous.ctrl[s] \in Keys
      /\ \A y \in Live(previous) : y > call.cursor => s <= y
      /\ previous.data[s] \in Vals
  BY <1>1, <1>2, NextLiveFacts DEF Valued
<1>5. /\ call'.at = "rebuild" /\ call'.then = call.then /\ call'.val = call.val
      /\ call'.cursor = s
  BY <1>1, <1>2, <1>3 DEF Call
<1> HIDE DEF g
<1>6. \E t \in Slot : Gains(g, table', t, previous.ctrl[s], previous.data[s])
  <2>1. ASSUME NEW p \in choice(s),
               table' = PlaceNewEntry(g, p, previous.ctrl[s], previous.data[s])
        PROVE  \E t \in Slot : Gains(g, table', t, previous.ctrl[s], previous.data[s])
    <3>1. Choice(g, previous.ctrl[s], p)
      BY <1>2, <1>4, ChooseSlotFacts
    <3> QED BY <1>2, <1>4, <2>1, <3>1, PlaceNewEntryGains
  <2>2. ASSUME NEW t \in FirstFreeSlot(g),
               table' = PlaceExceptional(g, t, previous.ctrl[s], previous.data[s])
        PROVE  t \in Slot /\ Gains(g, table', t, previous.ctrl[s], previous.data[s])
    BY <1>2, <1>4, <2>2, PlaceExceptionalGains
  <2> QED BY <1>3, <2>1, <2>2
<1>7. PICK t \in Slot : Gains(table, table', t, previous.ctrl[s], previous.data[s])
  BY <1>2, <1>6, GainsSame
<1>8. /\ Live(table') = Live(table) \cup {t}
      /\ table'.ctrl[t] = previous.ctrl[s] /\ table'.data[t] = previous.data[s]
      /\ \A x \in Live(table) : table'.ctrl[x] = table.ctrl[x] /\ table'.data[x] = table.data[x]
  BY <1>2, <1>4, <1>7, GainsLive
<1>9. Live(previous) \subseteq Nat /\ call.cursor \in Nat
  BY <1>2, SlotFacts DEF Live, Call
<1>10. \A x \in Live(table') : \E y \in Live(previous) :
         /\ y <= s /\ previous.ctrl[y] = table'.ctrl[x] /\ previous.data[y] = table'.data[x]
  <2> SUFFICES ASSUME NEW x \in Live(table')
               PROVE  \E y \in Live(previous) :
                        /\ y <= s /\ previous.ctrl[y] = table'.ctrl[x]
                        /\ previous.data[y] = table'.data[x]
    OBVIOUS
  <2>1. CASE x = t
    BY <1>4, <1>8, <2>1
  <2>2. CASE x \in Live(table)
    <3>1. PICK y \in Live(previous) :
            /\ y <= call.cursor /\ previous.ctrl[y] = table.ctrl[x]
            /\ previous.data[y] = table.data[x]
      BY <1>1, <2>2 DEF Copied
    <3>2. y <= s
      BY <1>4, <1>9, <3>1
    <3> QED BY <1>8, <2>2, <3>1, <3>2
  <2> QED BY <1>8, <2>1, <2>2
<1>11. \A y \in Live(previous) : y <= s => \E x \in Live(table') : table'.ctrl[x] = previous.ctrl[y]
  <2> SUFFICES ASSUME NEW y \in Live(previous), y <= s
               PROVE  \E x \in Live(table') : table'.ctrl[x] = previous.ctrl[y]
    OBVIOUS
  <2>1. CASE y <= call.cursor
    BY <1>1, <1>8, <2>1 DEF Complete
  <2>2. CASE y > call.cursor
    <3>1. y = s
      BY <1>4, <1>9, <2>2
    <3> QED BY <1>8, <3>1
  <2> QED BY <1>9, <2>1, <2>2
<1>12. Copied' /\ Complete'
  BY <1>1, <1>5, <1>10, <1>11 DEF Copied, Complete
<1>13. Valued(table')
  BY <1>2, <1>4, <1>8 DEF Valued
<1>14. Pending'
  BY <1>1, <1>5 DEF Pending, Bulk
<1>15. DataInv'
  BY <1>1, <1>12, <1>13, <1>14 DEF DataInv
<1>16. Contents(Owner)' = Contents(Owner)
  BY <1>1, <1>5, OwnerFacts
<1> QED BY <1>1, <1>15, <1>16, SilentStep

(* When every entry is moved, the new generation holds what the old one did. *)
LEMMA RebuildCommitData ==
  ASSUME Sound, RebuildCommit
  PROVE  DataInv' /\ [Map!Next]_Map!vars
<1>1. /\ call.at = "rebuild" /\ ScanDone(previous) /\ call \in Call
      /\ table' = table /\ event' = event
      /\ call' = IF call.then = "return" THEN Idle ELSE [call EXCEPT !.at = "place"]
      /\ Distinct(table) /\ Distinct(previous) /\ Valued(table) /\ Copied /\ Complete
      /\ call.then # "return" => call.val \in Vals
  BY SoundTable DEF RebuildCommit, Sound, MapInv, DataInv, Pending
<1>2. ASSUME NEW s \in Live(previous)
      PROVE  \E t \in Live(table) : /\ table.ctrl[t] = previous.ctrl[s]
                                    /\ table.data[t] = previous.data[s]
  <2>1. PICK t \in Live(table) : table.ctrl[t] = previous.ctrl[s]
    BY <1>1 DEF Complete, ScanDone
  <2>2. PICK y \in Live(previous) :
          previous.ctrl[y] = table.ctrl[t] /\ previous.data[y] = table.data[t]
    BY <1>1 DEF Copied
  <2>3. y = s
    BY <1>1, <2>1, <2>2 DEF Distinct
  <2> QED BY <2>1, <2>2, <2>3
<1>3. \A t \in Live(table) : \E s \in Live(previous) : table.ctrl[t] = previous.ctrl[s]
  BY <1>1 DEF Copied
<1>4. Contents(table) = Contents(previous)
  BY <1>1, <1>2, <1>3, ContentsEqual
<1>5. call'.at # "rebuild" /\ DataInv'
  <2>1. CASE call.then = "return"
    <3>1. call' = Idle
      BY <1>1, <2>1
    <3> QED BY <1>1, <3>1, CallFacts, PlainData DEF Bulk
  <2>2. CASE call.then # "return"
    <3>1. call'.at = "place" /\ call'.val = call.val
      BY <1>1, <2>2 DEF Call
    <3>2. Pending'
      BY <1>1, <2>2, <3>1 DEF Pending, Bulk
    <3> QED BY <1>1, <3>1, <3>2 DEF DataInv, Valued
  <2> QED BY <2>1, <2>2
<1>6. Contents(Owner)' = Contents(Owner)
  BY <1>1, <1>4, <1>5, OwnerFacts
<1> QED BY <1>1, <1>5, <1>6, SilentStep

(* An uncommitted rebuild leaves the caller the old generation. *)
LEMMA RebuildPanicData ==
  ASSUME Sound, RebuildPanic
  PROVE  DataInv' /\ [Map!Next]_Map!vars
<1>1. /\ call.at = "rebuild" /\ table' = previous /\ call' = Idle /\ event' = event
      /\ Valued(previous)
  BY DEF RebuildPanic, Sound, DataInv
<1>2. Contents(Owner)' = Contents(Owner)
  BY <1>1, CallFacts, OwnerFacts
<1>3. DataInv'
  BY <1>1, CallFacts, PlainData DEF Bulk
<1> QED BY <1>1, <1>2, <1>3, SilentStep

LEMMA RefreshData ==
  ASSUME Sound, RefreshStep \/ RefreshDone \/ RefreshPanic
  PROVE  DataInv' /\ [Map!Next]_Map!vars
<1>1. /\ call.at = "refresh" /\ event' = event /\ call \in Call /\ table \in Generation
  BY SoundTable DEF RefreshStep, RefreshDone, RefreshPanic
<1>2. SameEntries(table, table')
  BY <1>1 DEF RefreshStep, RefreshDone, RefreshPanic, RecordMembership, SameEntries, Generation
<1>3. call'.at \in {"refresh", "idle"}
  BY <1>1, CallFacts DEF RefreshStep, RefreshDone, RefreshPanic, Call
<1>4. Contents(table') = Contents(table) /\ Valued(table')
  BY <1>2, SoundTable, ContentsSame
<1>5. Contents(Owner)' = Contents(Owner)
  BY <1>1, <1>3, <1>4, PlainContents
<1>6. DataInv'
  BY <1>3, <1>4, PlainData DEF Bulk
<1> QED BY <1>1, <1>5, <1>6, SilentStep

(* A bulk removal lets one entry go. *)
LEMMA DiscardData ==
  ASSUME Sound, call.at \in Bulk, NEW s \in Live(table), Loses(table, table', s),
         event' = event, call'.at # "rebuild"
  PROVE  Valued(table') /\ [Map!Next]_Map!vars
<1>1. call.at # "rebuild" /\ event.op \in Bulk
  BY DEF Sound, DataInv, Pending, Bulk
<1>2. table.ctrl[s] \in Keys /\ table.data[s] # None
  BY SoundTable, FreeAssumption DEF Live, Valued
<1>3. /\ Contents(table') = [Contents(table) EXCEPT ![table.ctrl[s]] = None]
      /\ Contents(table)[table.ctrl[s]] = table.data[s] /\ Valued(table')
  BY SoundTable, ContentsLost, ContentsAt
<1>4. Contents(Owner) = Contents(table) /\ Contents(Owner)' = Contents(table')
  BY <1>1, PlainContents
<1> QED BY <1>1, <1>2, <1>3, <1>4, DiscardStep

(* A bulk removal goes on, or is left: it stays what the caller asked for. *)
LEMMA BulkPending ==
  ASSUME Sound, call.at \in Bulk, Valued(table'), event' = event,
         \/ call' = call
         \/ call' = Idle
         \/ call.at = "extract" /\ call'.at = "extract"
  PROVE  DataInv'
<1>1. CASE call' = Idle
  BY <1>1, CallFacts, PlainData DEF Bulk
<1>2. CASE call' = call
  BY <1>2 DEF Sound, DataInv, Pending, Bulk, Valued, Live
<1>3. CASE call.at = "extract" /\ call'.at = "extract"
  BY <1>3 DEF Sound, DataInv, Pending, Bulk, Valued, Live
<1> QED BY <1>1, <1>2, <1>3

LEMMA BulkData ==
  ASSUME Sound, ClearStep \/ DrainStep \/ DrainAbandon \/ ExtractStep \/ ExtractForget
  PROVE  DataInv' /\ [Map!Next]_Map!vars
<1>1. /\ call.at \in Bulk /\ event' = event /\ table \in Generation /\ Good(table)
      /\ call \in Call /\ Valued(table) /\ call.at # "rebuild"
      /\ call.at \in {"clear", "drain"} => call.cursor = 0
  BY SoundTable DEF ClearStep, DrainStep, DrainAbandon, ExtractStep, ExtractForget, Bulk,
                    Sound, Inv, CallInv, DataInv, Pending
<1>2. \/ call' = call
      \/ call' = Idle
      \/ call.at = "extract" /\ call'.at = "extract"
  BY <1>1 DEF ClearStep, DrainStep, DrainAbandon, ExtractStep, ExtractForget, Call
<1>3. call'.at # "rebuild"
  BY <1>1, <1>2, CallFacts
<1>4. ASSUME NEW s \in Live(table), Loses(table, table', s)
      PROVE  DataInv' /\ [Map!Next]_Map!vars
  BY <1>1, <1>2, <1>3, <1>4, DiscardData, BulkPending
<1>5. CASE table' = table
  <2>1. Contents(Owner)' = Contents(Owner)
    BY <1>1, <1>3, <1>5, PlainContents
  <2> QED BY <1>1, <1>2, <1>5, <2>1, SilentStep, BulkPending
<1>6. CASE ClearStep
  <2>1. PICK s \in NextLive(table) : table' = DrainResetEntry(table, s)
    BY <1>6 DEF ClearStep
  <2>2. s \in Live(table) /\ \A t \in Live(table) : s <= t
    <3>1. \A t \in Live(table) : t > 0
      BY SlotFacts DEF Live
    <3>2. call.cursor = 0
      BY <1>1, <1>6 DEF ClearStep
    <3> QED BY <1>1, <2>1, <3>1, <3>2, NextLiveFacts
  <2> QED BY <1>1, <1>4, <2>1, <2>2, DrainResetLoses
<1>7. CASE DrainStep
  BY <1>1, <1>4, <1>7, NextLiveFacts, TombstoneLoses DEF DrainStep
<1>8. CASE DrainAbandon \/ ExtractForget
  BY <1>5, <1>8 DEF DrainAbandon, ExtractForget
<1>9. CASE ExtractStep
  <2>1. PICK s \in NextLive(table) : table' \in {table, ExtractFinish(table, s)}
    BY <1>9 DEF ExtractStep
  <2> QED BY <1>1, <1>4, <1>5, <2>1, NextLiveFacts, ExtractLoses
<1> QED BY <1>6, <1>7, <1>8, <1>9

(* clear and drain wipe a table that has nothing left. *)
LEMMA WipeData ==
  ASSUME Sound, Wipe
  PROVE  DataInv' /\ [Map!Next]_Map!vars
<1>1. /\ call.at \in {"clear", "drain"} /\ call.at # "rebuild" /\ call' = Idle
      /\ event' = Quiet /\ call.cursor = 0
  BY DEF Wipe, Sound, Inv, CallInv, DataInv, Pending
<1>2. Live(table) = {}
  <2>1. \A s \in Live(table) : s <= 0 /\ s \in Nat \ {0}
    BY <1>1, SlotFacts DEF Wipe, ScanDone, Live
  <2> QED BY <2>1
<1>3. Live(table') = {}
  BY WipeFacts DEF Sound, WipeStep, Live
<1>4. Contents(table') = Contents(table) /\ Valued(table')
  BY <1>2, <1>3, ContentsEmpty
<1>5. Contents(Owner)' = Contents(Owner)
  BY <1>1, <1>4, CallFacts, PlainContents
<1>6. DataInv'
  BY <1>1, <1>4, CallFacts, PlainData DEF Bulk
<1> QED BY <1>1, <1>5, <1>6, SilentStep

LEMMA ExtractEndData ==
  ASSUME Sound, ExtractEnd
  PROVE  DataInv' /\ [Map!Next]_Map!vars
<1>1. call.at # "rebuild" /\ event' = Quiet
  BY DEF ExtractEnd
<1>2. DataInv' /\ Contents(Owner)' = Contents(table)
  BY SoundTable, SettleData DEF ExtractEnd
<1>3. Contents(Owner) = Contents(table)
  BY <1>1, OwnerFacts
<1> QED BY <1>1, <1>2, <1>3, SilentStep

LEMMA ResizeData ==
  ASSUME Sound, NEW n \in 0..MaxInsertions[LastShape], Reserve(n) \/ ShrinkTo(n)
  PROVE  DataInv' /\ [Map!Next]_Map!vars
<1>1. table.shape \in Shapes /\ call = Idle /\ call.at # "rebuild" /\ Valued(table)
  BY SoundTable, CallFacts DEF Generation, Reserve, ShrinkTo
<1>2. 1 \in Shapes /\ 0 \in Shapes /\ Larger(table.shape, 1) \in Shapes
  BY <1>1, SlotFacts DEF Larger
<1>3. PICK shape \in Shapes : Resize(shape)
  BY <1>2, ShapesOfSearch DEF Reserve, ShrinkTo
<1>4. StartRebuild(table, shape, "ExplicitResize", Idle) /\ event' = Quiet
  BY <1>3 DEF Resize
<1>5. "ExplicitResize" \in Transition
  BY DEF Transition
<1>6. DataInv' /\ Contents(Owner)' = Contents(table)
  BY <1>1, <1>4, <1>5, CallFacts, RebuildData
<1>7. Contents(Owner) = Contents(table)
  BY <1>1, OwnerFacts
<1> QED BY <1>4, <1>6, <1>7, SilentStep

LEMMA StartScanData ==
  ASSUME Sound, NEW at \in {"clear", "drain", "extract"}, StartScan(at)
  PROVE  DataInv' /\ [Map!Next]_Map!vars
<1>1. /\ call = Idle /\ call.at # "rebuild" /\ at \in Bulk /\ at \in FaultPoints
      /\ call' = Scanning(at) /\ event' = Bulky(at) /\ UNCHANGED <<table, previous>>
  BY CallFacts DEF StartScan, Bulk, FaultPoints
<1>2. call'.at = at /\ call'.cursor = 0 /\ call'.at \notin {"rebuild", "place"}
  BY <1>1, CallFacts
<1>3. event'.op = at
  BY <1>1 DEF Bulky, Answered
<1>4. Contents(Owner)' = Contents(Owner)
  BY <1>1, <1>2, PlainContents
<1>5. DataInv'
  BY <1>1, <1>2, <1>3, SoundTable DEF DataInv, Pending, Valued
<1> QED BY <1>1, <1>4, <1>5, BulkStep

------------------------------------------------------------------------------
LEMMA DataInit == Init => DataInv /\ Map!Init
<1> SUFFICES ASSUME Init PROVE DataInv /\ Map!Init
  OBVIOUS
<1>1. /\ Live(table) = {} /\ call = Idle /\ Idle.at = "idle" /\ event = Quiet
  BY InvInit, CallFacts DEF Init
<1>2. Contents(table) = [k \in Keys |-> None] /\ Valued(table)
  BY <1>1, ContentsEmpty
<1>3. Contents(Owner) = Contents(table)
  BY <1>1, OwnerFacts
<1>4. DataInv
  BY <1>1, <1>2 DEF DataInv, Pending, Bulk
<1> QED BY <1>1, <1>2, <1>3, <1>4
        DEF Map!Init, Map!Quiet, Map!Answered, Quiet, Answered

LEMMA DataNext ==
  ASSUME Sound, [Next]_vars
  PROVE  DataInv' /\ [Map!Next]_Map!vars
<1>1. ASSUME NEW k \in Keys, NEW v \in Vals, Insert(k, v) \/ EntryOrInsert(k, v)
      PROVE  DataInv' /\ [Map!Next]_Map!vars
  BY <1>1, InsertData
<1>2. ASSUME NEW k \in Keys, Get(k) \/ Remove(k) PROVE DataInv' /\ [Map!Next]_Map!vars
  BY <1>2, GetData, RemoveData
<1>3. ASSUME NEW at \in {"clear", "drain", "extract"}, StartScan(at)
      PROVE  DataInv' /\ [Map!Next]_Map!vars
  BY <1>3, StartScanData
<1>4. ASSUME NEW n \in 0..MaxInsertions[LastShape], Reserve(n) \/ ShrinkTo(n)
      PROVE  DataInv' /\ [Map!Next]_Map!vars
  BY <1>4, ResizeData
<1>5. CASE RebuildStep
  BY <1>5, RebuildStepData
<1>6. CASE RebuildCommit
  BY <1>6, RebuildCommitData
<1>7. CASE RebuildPanic
  BY <1>7, RebuildPanicData
<1>8. CASE ResumePlace
  BY <1>8, ResumePlaceData
<1>9. CASE RefreshStep \/ RefreshDone \/ RefreshPanic
  BY <1>9, RefreshData
<1>10. CASE ClearStep \/ DrainStep \/ DrainAbandon \/ ExtractStep \/ ExtractForget
  BY <1>10, BulkData
<1>11. CASE Wipe
  BY <1>11, WipeData
<1>12. CASE ExtractEnd
  BY <1>12, ExtractEndData
<1>13. CASE UNCHANGED vars
  <2>1. /\ table' = table /\ previous' = previous /\ call' = call /\ event' = event
    BY <1>13 DEF vars
  <2>2. DataInv'
    BY <2>1 DEF Sound, DataInv, Valued, Pending, Copied, Complete, Live
  <2>3. Contents(Owner)' = Contents(Owner)
    BY <2>1, OwnerFacts
  <2> QED BY <2>1, <2>2, <2>3, SilentStep
<1> QED BY <1>1, <1>2, <1>3, <1>4, <1>5, <1>6, <1>7, <1>8, <1>9, <1>10, <1>11, <1>12,
           <1>13 DEF Next, Begin, Progress, Fault

LEMMA SoundInvariant ==
  ASSUME "refresh" \notin Faults
  PROVE  Spec => []Sound
<1>1. Init => Sound
  BY InvInit, MapInit, DataInit DEF Sound
<1>2. Sound /\ [Next]_vars => Sound'
  BY InvNext, MapNext, DataNext DEF Sound
<1> QED BY <1>1, <1>2, PTL DEF Spec

(* A caller of the Elastic map sees a partial function: every answer is the
   one MapSpec gives, the contents change only by its steps, and a rebuild, a
   recovery, a refresh or a bulk removal that is abandoned changes nothing
   else.  For every hasher, every plan of levels and batches, and every fault
   but a panic inside a filter refresh. *)
THEOREM ImplementsMapHolds ==
  ASSUME "refresh" \notin Faults
  PROVE  Spec => ImplementsMap
<1>1. Init => Map!Init
  BY DataInit
<1>2. Sound /\ [Next]_vars => [Map!Next]_Map!vars
  BY DataNext
<1> QED BY <1>1, <1>2, SoundInvariant, PTL DEF Spec, ImplementsMap, Map!Spec

(***************************************************************************)
(* Counting.  What len, the live slots and the tombstones of every level   *)
(* have to do with each other, in the table and in the generation a        *)
(* rebuild holds back.                                                     *)
(***************************************************************************)

(* The live keys and the tombstones of a level. *)
LevelLive(g, l) == LevelSlots[g.shape][l] \cap Live(g)
LevelTombs(g, l) == {s \in LevelSlots[g.shape][l] : g.ctrl[s] = TOMBSTONE}
Size(g) == Cardinality(Live(g))

(* The count covers the live keys and respects the limit. *)
Fits(g) == Size(g) <= g.len /\ g.len <= MaxInsertions[g.shape]

(* All counters say what is in the slots. *)
Exact(g) ==
  /\ g.len = Size(g)
  /\ \A l \in Level : /\ g.levelLen[l] = Cardinality(LevelLive(g, l))
                      /\ g.tombstones[l] = Cardinality(LevelTombs(g, l))

Tally(g) == Fits(g) /\ ("drain" \notin Faults => Exact(g))

(* The entries a rebuild has moved. *)
Passed == {s \in Live(previous) : s <= call.cursor}

(* A new generation has room for the entries of the old one, and for the key
   of a pending insert; it counts exactly what it has been given. *)
RebuildCounts ==
  /\ Tally(previous) /\ previous.len <= MaxInsertions[table.shape]
  /\ call.then # "return" => previous.len < MaxInsertions[table.shape]
  /\ Exact(table) /\ table.len = Cardinality(Passed)
  /\ \A l \in Level : table.tombstones[l] = 0

(* A drain counts nothing while it runs. *)
TallyInv ==
  /\ call.at = "rebuild" => RebuildCounts
  /\ call.at # "rebuild" => Fits(table)
  /\ call.at \notin {"rebuild", "drain"} => Tally(table)
  /\ call.at = "place" => table.len < MaxInsertions[table.shape]

------------------------------------------------------------------------------
(* Cardinalities of sets of slots.                                         *)

LEMMA SlotsFinite ==
  \A S \in SUBSET Slot : /\ IsFiniteSet(S) /\ Cardinality(S) \in Nat
                         /\ Cardinality(S) <= MaxSlots
<1>1. IsFiniteSet(Slot) /\ Cardinality(Slot) = MaxSlots
  BY CountTo, SlotFacts DEF Slot
<1> QED BY <1>1, FS_Subset, FS_CardinalityType, SlotFacts

LEMMA SizeGrows ==
  ASSUME NEW S \in SUBSET Slot, NEW s
  PROVE  /\ Cardinality(S \cup {s}) = IF s \in S THEN Cardinality(S) ELSE Cardinality(S) + 1
         /\ Cardinality(S \ {s}) = IF s \in S THEN Cardinality(S) - 1 ELSE Cardinality(S)
BY SlotsFinite, FS_AddElement, FS_RemoveElement

LEMMA SizeEmpty == \A S \in SUBSET Slot : Cardinality(S) = 0 <=> S = {}
BY SlotsFinite, FS_EmptySet

LEMMA LevelSlotFacts ==
  ASSUME NEW g \in Generation, NEW l \in Level
  PROVE  /\ LevelSlots[g.shape][l] = {s \in SlotsOf(g) : LevelAt(g, s) = l}
         /\ SlotsOf(g) \in SUBSET Slot
<1>1. g.shape \in Shapes
  BY DEF Generation
<1> QED BY <1>1, SlotFacts DEF LevelSlots, SlotsOf, LevelAt

LEMMA SizeType ==
  /\ \A g : Live(g) \in SUBSET Slot /\ Size(g) \in Nat /\ Size(g) <= MaxSlots
  /\ Passed \in SUBSET Slot /\ Cardinality(Passed) \in Nat
BY SlotsFinite DEF Live, Size, Passed

LEMMA LevelType ==
  ASSUME NEW g \in Generation, NEW l \in Level
  PROVE  /\ LevelLive(g, l) \in SUBSET Slot /\ LevelTombs(g, l) \in SUBSET Slot
         /\ Cardinality(LevelLive(g, l)) \in Nat /\ Cardinality(LevelTombs(g, l)) \in Nat
         /\ Cardinality(LevelLive(g, l)) <= MaxSlots
         /\ Cardinality(LevelTombs(g, l)) <= MaxSlots
<1>1. LevelLive(g, l) \in SUBSET Slot /\ LevelTombs(g, l) \in SUBSET Slot
  BY LevelSlotFacts DEF LevelLive, LevelTombs
<1> QED BY <1>1, SlotsFinite

LEMMA LimitFacts ==
  \A sh \in Shapes : /\ MaxInsertions[sh] \in Nat /\ SlotCount[sh] \in Nat
                     /\ MaxInsertions[sh] <= SlotCount[sh]
                     /\ MaxInsertions[sh] <= MaxSlots
BY ShapeAssumption, SlotFacts

------------------------------------------------------------------------------
(* What the writes do to the counters.                                     *)

(* h is g with a key in the free slot s, counted. *)
Fills(g, h, s) ==
  /\ h \in Generation /\ h.shape = g.shape
  /\ s \in SlotsOf(g) /\ Free(g, s) /\ h.ctrl[s] \in Keys
  /\ \A t \in Slot : t # s => h.ctrl[t] = g.ctrl[t]
  /\ h.len = g.len + 1
  /\ h.levelLen = [g.levelLen EXCEPT ![LevelAt(g, s)] = @ + 1]
  /\ h.tombstones = [g.tombstones EXCEPT ![LevelAt(g, s)] =
                       IF g.ctrl[s] = TOMBSTONE THEN Decrement(@) ELSE @]

(* h is g with the key of slot s a tombstone, counted. *)
Buries(g, h, s) ==
  /\ h \in Generation /\ h.shape = g.shape
  /\ s \in Live(g) /\ s \in SlotsOf(g) /\ h.ctrl[s] = TOMBSTONE
  /\ \A t \in Slot : t # s => h.ctrl[t] = g.ctrl[t]
  /\ h.len = Decrement(g.len)
  /\ h.levelLen = [g.levelLen EXCEPT ![LevelAt(g, s)] = Decrement(@)]
  /\ h.tombstones = [g.tombstones EXCEPT ![LevelAt(g, s)] = Increment(@)]

(* h is g with the key of its first live slot s gone, and with the levels
   before its own reset. *)
Sweeps(g, h, s) ==
  /\ h \in Generation /\ h.shape = g.shape
  /\ s \in Live(g) /\ s \in SlotsOf(g) /\ Live(h) = Live(g) \ {s}
  /\ h.ctrl[s] = EMPTY
  /\ \A t \in Slot : t # s =>
       h.ctrl[t] = IF t \in SlotsOf(g) /\ LevelAt(g, t) < LevelAt(g, s) THEN EMPTY
                   ELSE g.ctrl[t]
  /\ h.len = Decrement(g.len)
  /\ h.levelLen = [g.levelLen EXCEPT ![LevelAt(g, s)] = Decrement(@)]
  /\ h.tombstones = [l \in Level |-> IF l < LevelAt(g, s) THEN 0 ELSE g.tombstones[l]]

LEMMA DropOne ==
  ASSUME NEW S \in SUBSET Slot, NEW s \in S, NEW n, n = Cardinality(S)
  PROVE  Decrement(n) = n - 1 /\ Cardinality(S \ {s}) = n - 1
<1>1. n \in Nat \ {0} /\ n <= MaxSlots
  BY SlotsFinite, SizeEmpty
<1> QED BY <1>1, DecrementFacts, SizeGrows

LEMMA FillsExact ==
  ASSUME NEW g \in Generation, NEW h, NEW s, Fills(g, h, s)
  PROVE  /\ Size(h) = Size(g) + 1 /\ h.len = g.len + 1
         /\ Exact(g) => Exact(h)
         /\ (\A l \in Level : g.tombstones[l] = 0) /\ Exact(g) =>
               \A l \in Level : h.tombstones[l] = 0
<1> DEFINE m == LevelAt(g, s)
<1>1. s \in Slot /\ SlotsOf(g) \in SUBSET Slot /\ m \in Level /\ h \in Generation
  <2>1. s \in Slot
    BY LevelFacts, LevelSlotFacts DEF Fills
  <2> QED BY <2>1, LevelFacts, LevelSlotFacts, LevelBitType DEF Fills
<1>2. Live(h) = Live(g) \cup {s} /\ s \notin Live(g)
  BY <1>1, FreeAssumption DEF Fills, Live, Free
<1>3. Size(h) = Size(g) + 1
  BY <1>2, SizeGrows, SizeType DEF Size
<1>4. ASSUME NEW l \in Level
      PROVE  /\ LevelLive(h, l) = IF l = m THEN LevelLive(g, l) \cup {s} ELSE LevelLive(g, l)
             /\ s \notin LevelLive(g, l)
             /\ LevelTombs(h, l) = LevelTombs(g, l) \ {s}
             /\ s \in LevelTombs(g, l) <=> l = m /\ g.ctrl[s] = TOMBSTONE
  <2>1. h.shape = g.shape /\ s \in SlotsOf(g)
        /\ LevelSlots[g.shape][l] = {t \in SlotsOf(g) : LevelAt(g, t) = l}
    BY LevelSlotFacts DEF Fills
  <2>2. s \in LevelSlots[g.shape][l] <=> l = m
    BY <2>1
  <2>3. LevelSlots[h.shape][l] = LevelSlots[g.shape][l]
    BY <2>1
  <2>4. h.ctrl[s] # TOMBSTONE /\ \A t \in LevelSlots[g.shape][l] : t # s => h.ctrl[t] = g.ctrl[t]
    BY <1>1, <2>1, FreeAssumption DEF Fills
  <2> HIDE DEF m
  <2> QED BY <1>2, <2>2, <2>3, <2>4 DEF LevelLive, LevelTombs
<1>5. ASSUME Exact(g), NEW l \in Level
      PROVE  /\ h.levelLen[l] = Cardinality(LevelLive(h, l))
             /\ h.tombstones[l] = Cardinality(LevelTombs(h, l))
             /\ g.tombstones[l] = 0 => h.tombstones[l] = 0
  <2>1. /\ g.levelLen[l] = Cardinality(LevelLive(g, l))
        /\ g.tombstones[l] = Cardinality(LevelTombs(g, l))
        /\ LevelLive(g, l) \in SUBSET Slot /\ LevelTombs(g, l) \in SUBSET Slot
    BY <1>5, LevelType DEF Exact
  <2>2. /\ h.levelLen[l] = IF l = m THEN g.levelLen[l] + 1 ELSE g.levelLen[l]
        /\ h.tombstones[l] = IF l = m /\ g.ctrl[s] = TOMBSTONE THEN Decrement(g.tombstones[l])
                             ELSE g.tombstones[l]
    BY <1>1 DEF Fills, Generation
  <2>3. h.levelLen[l] = Cardinality(LevelLive(h, l))
    BY <1>4, <2>1, <2>2, SizeGrows
  <2>4. CASE s \in LevelTombs(g, l)
    <3>1. Decrement(g.tombstones[l]) = g.tombstones[l] - 1
          /\ Cardinality(LevelTombs(g, l) \ {s}) = g.tombstones[l] - 1
      BY <2>1, <2>4, DropOne
    <3>2. g.tombstones[l] # 0
      BY <2>1, <2>4, SizeEmpty
    <3> QED BY <1>4, <2>2, <2>3, <2>4, <3>1, <3>2
  <2>5. CASE s \notin LevelTombs(g, l)
    <3>1. LevelTombs(h, l) = LevelTombs(g, l)
      BY <1>4, <2>5
    <3> QED BY <1>4, <2>1, <2>2, <2>3, <2>5, <3>1
  <2> QED BY <2>4, <2>5
<1>6. h.len = g.len + 1
  BY DEF Fills
<1>7. Exact(g) => Exact(h)
  BY <1>3, <1>5, <1>6 DEF Exact
<1> QED BY <1>3, <1>5, <1>6, <1>7

(* A removed key was counted, in its level and in the table. *)
LEMMA CountedDown ==
  ASSUME NEW g \in Generation, NEW s \in Live(g), Fits(g)
  PROVE  /\ Decrement(g.len) = g.len - 1 /\ Cardinality(Live(g) \ {s}) = Size(g) - 1
         /\ g.len \in Nat \ {0} /\ Size(g) \in Nat \ {0}
<1>1. /\ Size(g) \in Nat /\ g.len \in Nat /\ g.shape \in Shapes
      /\ MaxInsertions[g.shape] \in Nat /\ MaxInsertions[g.shape] <= MaxSlots /\ MaxSlots \in Nat
  BY SizeType, LimitFacts, SlotFacts DEF Generation
<1>2. Size(g) # 0
  BY SizeEmpty, SizeType DEF Size
<1>3. g.len \in Nat \ {0} /\ g.len <= MaxSlots
  BY <1>1, <1>2 DEF Fits
<1>4. Cardinality(Live(g) \ {s}) = Size(g) - 1
  BY SizeGrows, SizeType DEF Size
<1> QED BY <1>1, <1>2, <1>3, <1>4, DecrementFacts

LEMMA BuriesExact ==
  ASSUME NEW g \in Generation, NEW h, NEW s, Buries(g, h, s), Fits(g)
  PROVE  Fits(h) /\ (Exact(g) => Exact(h))
<1> DEFINE m == LevelAt(g, s)
<1>1. s \in Slot /\ SlotsOf(g) \in SUBSET Slot /\ m \in Level /\ h \in Generation
  <2>1. s \in Slot
    BY DEF Buries, Live
  <2> QED BY <2>1, LevelFacts, LevelSlotFacts, LevelBitType DEF Buries
<1>2. Live(h) = Live(g) \ {s} /\ s \in Live(g)
  BY <1>1, FreeAssumption DEF Buries, Live
<1>3. Size(h) = Size(g) - 1 /\ h.len = g.len - 1 /\ h.shape = g.shape
  BY <1>2, CountedDown DEF Size, Buries
<1>4. Fits(h)
  <2>1. /\ g.len \in Nat \ {0} /\ Size(g) \in Nat \ {0} /\ MaxInsertions[g.shape] \in Nat
        /\ Size(g) <= g.len /\ g.len <= MaxInsertions[g.shape]
    BY <1>2, CountedDown, LimitFacts DEF Fits, Generation
  <2> QED BY <1>3, <2>1 DEF Fits
<1>5. ASSUME NEW l \in Level
      PROVE  /\ LevelLive(h, l) = LevelLive(g, l) \ {s}
             /\ s \in LevelLive(g, l) <=> l = m
             /\ LevelTombs(h, l) = IF l = m THEN LevelTombs(g, l) \cup {s} ELSE LevelTombs(g, l)
             /\ s \notin LevelTombs(g, l)
  <2>1. h.shape = g.shape /\ s \in SlotsOf(g)
        /\ LevelSlots[g.shape][l] = {t \in SlotsOf(g) : LevelAt(g, t) = l}
    BY LevelSlotFacts DEF Buries
  <2>2. s \in LevelSlots[g.shape][l] <=> l = m
    BY <2>1
  <2>3. LevelSlots[h.shape][l] = LevelSlots[g.shape][l] /\ LevelSlots[g.shape][l] \subseteq Slot
    BY <1>1, <2>1
  <2>4. /\ h.ctrl[s] = TOMBSTONE /\ g.ctrl[s] # TOMBSTONE
        /\ \A t \in LevelSlots[g.shape][l] : t # s => h.ctrl[t] = g.ctrl[t]
    BY <1>1, <1>2, <2>3, FreeAssumption DEF Buries, Live
  <2> HIDE DEF m
  <2> QED BY <1>2, <2>2, <2>3, <2>4 DEF LevelLive, LevelTombs
<1>6. ASSUME Exact(g), NEW l \in Level
      PROVE  /\ h.levelLen[l] = Cardinality(LevelLive(h, l))
             /\ h.tombstones[l] = Cardinality(LevelTombs(h, l))
  <2>1. /\ g.levelLen[l] = Cardinality(LevelLive(g, l))
        /\ g.tombstones[l] = Cardinality(LevelTombs(g, l))
        /\ LevelLive(g, l) \in SUBSET Slot /\ LevelTombs(g, l) \in SUBSET Slot
    BY <1>6, LevelType DEF Exact
  <2>2. /\ h.levelLen[l] = IF l = m THEN Decrement(g.levelLen[l]) ELSE g.levelLen[l]
        /\ h.tombstones[l] = IF l = m THEN Increment(g.tombstones[l]) ELSE g.tombstones[l]
    BY <1>1 DEF Buries, Generation
  <2>3. h.tombstones[l] = Cardinality(LevelTombs(h, l))
    <3>1. CASE l = m
      <4>1. Cardinality(LevelTombs(h, l)) = g.tombstones[l] + 1
        BY <1>5, <2>1, <3>1, SizeGrows
      <4>2. g.tombstones[l] \in Nat /\ g.tombstones[l] + 1 <= MaxSlots
        BY <1>1, <2>1, <4>1, LevelType
      <4> QED BY <2>2, <3>1, <4>1, <4>2, IncrementFacts
    <3>2. CASE l # m
      BY <1>5, <2>1, <2>2, <3>2
    <3> QED BY <3>1, <3>2
  <2>4. CASE l = m
    <3>1. /\ Decrement(g.levelLen[l]) = g.levelLen[l] - 1
          /\ Cardinality(LevelLive(g, l) \ {s}) = g.levelLen[l] - 1
      BY <1>5, <2>1, <2>4, DropOne
    <3> QED BY <1>5, <2>2, <2>3, <2>4, <3>1
  <2>5. CASE l # m
    BY <1>5, <2>1, <2>2, <2>3, <2>5
  <2> QED BY <2>4, <2>5
<1>7. Exact(g) => Exact(h)
  BY <1>3, <1>6 DEF Exact
<1> QED BY <1>4, <1>7

LEMMA SweepsExact ==
  ASSUME NEW g \in Generation, NEW h, NEW s, Sweeps(g, h, s), Fits(g)
  PROVE  Fits(h) /\ (Exact(g) => Exact(h))
<1> DEFINE m == LevelAt(g, s)
<1>1. /\ s \in Slot /\ SlotsOf(g) \in SUBSET Slot /\ m \in Level /\ h \in Generation
      /\ s \in Live(g) /\ h.shape = g.shape /\ Live(h) = Live(g) \ {s}
  <2>1. s \in Slot
    BY DEF Sweeps, Live
  <2> QED BY <2>1, LevelFacts, LevelSlotFacts, LevelBitType DEF Sweeps
<1>2. Size(h) = Size(g) - 1 /\ h.len = g.len - 1
  BY <1>1, CountedDown DEF Size, Sweeps
<1>3. Fits(h)
  <2>1. /\ g.len \in Nat \ {0} /\ Size(g) \in Nat \ {0} /\ MaxInsertions[g.shape] \in Nat
        /\ Size(g) <= g.len /\ g.len <= MaxInsertions[g.shape]
    BY <1>1, CountedDown, LimitFacts DEF Fits, Generation
  <2> QED BY <1>1, <1>2, <2>1 DEF Fits
<1>4. ASSUME NEW l \in Level
      PROVE  /\ LevelLive(h, l) = LevelLive(g, l) \ {s}
             /\ s \in LevelLive(g, l) <=> l = m
             /\ LevelTombs(h, l) = IF l < m THEN {} ELSE LevelTombs(g, l)
  <2>1. s \in SlotsOf(g)
        /\ LevelSlots[g.shape][l] = {t \in SlotsOf(g) : LevelAt(g, t) = l}
    BY LevelSlotFacts DEF Sweeps
  <2>2. s \in LevelSlots[g.shape][l] <=> l = m
    BY <2>1
  <2>3. LevelSlots[h.shape][l] = LevelSlots[g.shape][l] /\ LevelSlots[g.shape][l] \subseteq Slot
    BY <1>1, <2>1
  <2>4. /\ h.ctrl[s] = EMPTY /\ g.ctrl[s] # TOMBSTONE
        /\ \A t \in LevelSlots[g.shape][l] : t # s =>
              h.ctrl[t] = IF l < m THEN EMPTY ELSE g.ctrl[t]
    BY <1>1, <2>1, <2>3, FreeAssumption DEF Sweeps, Live
  <2> HIDE DEF m
  <2>5. LevelLive(h, l) = LevelLive(g, l) \ {s} /\ (s \in LevelLive(g, l) <=> l = m)
    BY <1>1, <2>2, <2>3 DEF LevelLive
  <2>6. LevelTombs(h, l) = IF l < m THEN {} ELSE LevelTombs(g, l)
    BY <2>2, <2>3, <2>4, FreeAssumption DEF LevelTombs
  <2> QED BY <2>5, <2>6
<1>5. ASSUME Exact(g), NEW l \in Level
      PROVE  /\ h.levelLen[l] = Cardinality(LevelLive(h, l))
             /\ h.tombstones[l] = Cardinality(LevelTombs(h, l))
  <2>1. /\ g.levelLen[l] = Cardinality(LevelLive(g, l))
        /\ g.tombstones[l] = Cardinality(LevelTombs(g, l))
        /\ LevelLive(g, l) \in SUBSET Slot
    BY <1>5, LevelType DEF Exact
  <2>2. /\ h.levelLen[l] = IF l = m THEN Decrement(g.levelLen[l]) ELSE g.levelLen[l]
        /\ h.tombstones[l] = IF l < m THEN 0 ELSE g.tombstones[l]
    BY <1>1 DEF Sweeps, Generation
  <2>3. h.tombstones[l] = Cardinality(LevelTombs(h, l))
    BY <1>4, <2>1, <2>2, FS_EmptySet
  <2>4. CASE l = m
    <3>1. /\ Decrement(g.levelLen[l]) = g.levelLen[l] - 1
          /\ Cardinality(LevelLive(g, l) \ {s}) = g.levelLen[l] - 1
      BY <1>4, <2>1, <2>4, DropOne
    <3> QED BY <1>4, <2>2, <2>3, <2>4, <3>1
  <2>5. CASE l # m
    BY <1>4, <2>1, <2>2, <2>3, <2>5
  <2> QED BY <2>4, <2>5
<1>6. Exact(g) => Exact(h)
  BY <1>2, <1>5 DEF Exact
<1> QED BY <1>3, <1>6

------------------------------------------------------------------------------
(* The writes of the model are of these kinds.                             *)

(* h has the slots and the counters of g. *)
SameCounts(g, h) ==
  /\ h.shape = g.shape /\ h.ctrl = g.ctrl /\ h.len = g.len
  /\ h.levelLen = g.levelLen /\ h.tombstones = g.tombstones

LEMMA SameCountsFacts ==
  ASSUME NEW g, NEW h, SameCounts(g, h)
  PROVE  /\ Size(h) = Size(g) /\ Live(h) = Live(g)
         /\ Fits(g) => Fits(h)
         /\ Exact(g) => Exact(h)
         /\ Tally(g) => Tally(h)
<1>1. /\ Live(h) = Live(g)
      /\ \A l : LevelLive(h, l) = LevelLive(g, l) /\ LevelTombs(h, l) = LevelTombs(g, l)
  BY DEF SameCounts, Live, LevelLive, LevelTombs
<1> QED BY <1>1 DEF SameCounts, Fits, Exact, Tally, Size

LEMMA SameCountsFill ==
  ASSUME NEW g, NEW x, NEW h, NEW s, SameCounts(g, x), Fills(x, h, s)
  PROVE  Fills(g, h, s)
BY DEF SameCounts, Fills, SlotsOf, LevelAt, Free

LEMMA SyncedCounts == \A g \in Generation : SameCounts(g, Synced(g))
BY DEF Synced, Generation, SameCounts

LEMMA ExtendCounts == \A g \in Generation : \A p : SameCounts(g, ExtendProbeSchedule(g, p))
BY DEF ExtendProbeSchedule, Generation, SameCounts

LEMMA ClearMembershipCounts == \A g \in Generation : SameCounts(g, ClearMembership(g))
BY DEF ClearMembership, Generation, SameCounts

LEMMA WriteFills ==
  ASSUME NEW g \in Generation, NEW s \in SlotsOf(g), Free(g, s), NEW k \in Keys,
         NEW v \in Vals \cup {None}
  PROVE  Fills(g, WriteNewEntry(g, s, k, v), s)
<1> DEFINE l == LevelAt(g, s)
           r == RecordMembership(g, k, l)
           h == WriteNewEntry(g, s, k, v)
<1>1. s \in Slot
  BY SlotFacts DEF SlotsOf, Generation
<1>2. /\ h \in Generation /\ Frame(g, h) /\ Written(g, h, s, k)
      /\ r \in Generation /\ r.levelLen = g.levelLen /\ r.tombstones = g.tombstones
  BY <1>1, WriteFacts, RecordFacts DEF Recording
<1>3. /\ h.levelLen = [r.levelLen EXCEPT ![l] = @ + 1]
      /\ h.tombstones = [r.tombstones EXCEPT ![l] =
                           IF g.ctrl[s] = TOMBSTONE THEN Decrement(@) ELSE @]
  <2> DEFINE more == [r.levelLen EXCEPT ![l] = @ + 1]
             fewer == [r.tombstones EXCEPT ![l] =
                         IF g.ctrl[s] = TOMBSTONE THEN Decrement(@) ELSE @]
             ctrl == [r.ctrl EXCEPT ![s] = k]
             data == [r.data EXCEPT ![s] = v]
  <2>1. h = [r EXCEPT !.ctrl = ctrl, !.data = data, !.len = r.len + 1,
                      !.levelLen = more, !.tombstones = fewer]
    BY <1>2 DEF WriteNewEntry, Generation
  <2> HIDE DEF r, h, more, fewer, ctrl, data
  <2>2. h.levelLen = more /\ h.tombstones = fewer
    BY <1>2, <2>1 DEF Generation
  <2> QED BY <2>2 DEF more, fewer
<1> HIDE DEF r, h
<1>4. h.ctrl[s] = k /\ (\A t \in Slot : t # s => h.ctrl[t] = g.ctrl[t]) /\ h.len = g.len + 1
  <2>1. h.ctrl[s] = k /\ (\A t \in Slot : t # s => h.ctrl[t] = g.ctrl[t])
    BY <1>1, <1>2, WrittenSlot
  <2> QED BY <1>2, <2>1 DEF Written
<1>5. /\ h.levelLen = [g.levelLen EXCEPT ![l] = @ + 1]
      /\ h.tombstones = [g.tombstones EXCEPT ![l] =
                           IF g.ctrl[s] = TOMBSTONE THEN Decrement(@) ELSE @]
  BY <1>2, <1>3
<1>6. h \in Generation /\ h.shape = g.shape /\ h.ctrl[s] \in Keys
  BY <1>2, <1>4 DEF Frame
<1> QED BY <1>4, <1>5, <1>6 DEF Fills, h

LEMMA PlaceNewEntryFills ==
  ASSUME NEW g \in Generation, Good(g), NEW k \in Keys, NEW v \in Vals \cup {None},
         NEW p, Choice(g, k, p)
  PROVE  \E s \in Slot : Fills(g, PlaceNewEntry(g, p, k, v), s)
<1> DEFINE s == SlotOn(g, k, p.level, p.probe)
           x == ExtendProbeSchedule(g, p)
<1>1. /\ p.level \in Levels(g.shape) /\ p.probe \in Probes[p.level]
      /\ s # 0 /\ Free(g, s) /\ g.shape \in Shapes
  BY DEF Choice, Generation
<1>2. s \in SlotsOf(g) /\ s \in Slot
  BY <1>1, SlotOnFacts
<1>3. x \in Generation /\ Same(g, x) /\ SameCounts(g, x)
  BY <1>1, ExtendFacts, ExtendCounts DEF Good
<1>4. SlotOn(x, k, p.level, p.probe) = s
  BY <1>3 DEF SlotOn, Same
<1>5. PlaceNewEntry(g, p, k, v) = WriteNewEntry(x, s, k, v)
  BY <1>4 DEF PlaceNewEntry
<1> HIDE DEF s, x
<1>6. s \in SlotsOf(x) /\ Free(x, s)
  BY <1>1, <1>2, <1>3 DEF SameCounts, SlotsOf, Free
<1>7. Fills(x, WriteNewEntry(x, s, k, v), s)
  BY <1>3, <1>6, WriteFills
<1>8. Fills(g, WriteNewEntry(x, s, k, v), s)
  BY <1>3, <1>7, SameCountsFill
<1> QED BY <1>2, <1>5, <1>8

LEMMA PlaceExceptionalFills ==
  ASSUME NEW g \in Generation, NEW k \in Keys, NEW v \in Vals \cup {None},
         NEW s \in FirstFreeSlot(g)
  PROVE  s \in Slot /\ Fills(g, PlaceExceptional(g, s, k, v), s)
<1> DEFINE w == WriteNewEntry(g, s, k, v)
           h == PlaceExceptional(g, s, k, v)
<1>1. s \in SlotsOf(g) /\ s \in Slot /\ Free(g, s)
  BY FirstFreeFacts
<1>2. Fills(g, w, s) /\ w \in Generation
  BY <1>1, WriteFills DEF Fills
<1>3. h = [w EXCEPT !.exceptional = TRUE]
  BY DEF PlaceExceptional
<1> HIDE DEF w, h
<1>4. h \in Generation /\ SameCounts(w, h)
  BY <1>2, <1>3 DEF Generation, SameCounts
<1>5. Fills(g, h, s)
  BY <1>2, <1>4 DEF Fills, SameCounts
<1> QED BY <1>1, <1>5 DEF h

LEMMA ExtractBuries ==
  ASSUME NEW g \in Generation, Good(g), NEW s \in Live(g)
  PROVE  Buries(g, ExtractFinish(g, s), s)
<1> DEFINE t == TombstoneSlot(g, s)
           h == ExtractFinish(g, s)
           l == LevelAt(g, s)
           levelLen == [t.levelLen EXCEPT ![l] = Decrement(@)]
           tombstones == [t.tombstones EXCEPT ![l] = Increment(@)]
<1>1. h \in Generation /\ t \in Generation /\ t.shape = g.shape /\ t.len = g.len
      /\ t.ctrl = [g.ctrl EXCEPT ![s] = TOMBSTONE]
  BY ExtractFacts, TombstoneFacts DEF Shrunk, Frame
<1>2. t.levelLen = g.levelLen /\ t.tombstones = g.tombstones
  BY DEF TombstoneSlot, Generation
<1>3. h = [t EXCEPT !.len = Decrement(t.len), !.levelLen = levelLen,
                    !.tombstones = tombstones, !.stale = t.stale + 1]
  BY DEF ExtractFinish
<1> HIDE DEF t, h, levelLen, tombstones
<1>4. /\ h.shape = t.shape /\ h.ctrl = t.ctrl /\ h.len = Decrement(t.len)
      /\ h.levelLen = levelLen /\ h.tombstones = tombstones
  BY <1>1, <1>3 DEF Generation
<1>5. s \in Slot /\ s \in SlotsOf(g)
  BY DEF Live, Good, Scheduled
<1>6. h.ctrl[s] = TOMBSTONE /\ \A y \in Slot : y # s => h.ctrl[y] = g.ctrl[y]
  BY <1>1, <1>4, <1>5 DEF Generation
<1> QED BY <1>1, <1>2, <1>4, <1>5, <1>6 DEF Buries, h, levelLen, tombstones

LEMMA DrainResetSweeps ==
  ASSUME NEW g \in Generation, Good(g), NEW s \in Live(g), \A t \in Live(g) : s <= t
  PROVE  Sweeps(g, DrainResetEntry(g, s), s)
<1> DEFINE m == LevelAt(g, s)
           L == {l \in Level : l < m}
           r == ResetLevels(g, L)
           h == DrainResetEntry(g, s)
           levelLen == [r.levelLen EXCEPT ![m] = Decrement(@)]
<1>1. h \in Generation /\ h.shape = g.shape /\ Live(h) = Live(g) \ {s}
  BY DrainResetFacts, DrainResetLoses DEF Shrunk, Frame, Loses
<1>2. /\ r \in Generation /\ r.levelLen = g.levelLen /\ r.len = g.len
      /\ \A t \in Slot : r.ctrl[t] = IF t \in SlotsOf(g) /\ LevelAt(g, t) \in L
                                     THEN EMPTY ELSE g.ctrl[t]
  <2>1. L \in SUBSET Level
    OBVIOUS
  <2> HIDE DEF L
  <2> QED BY <2>1, ResetLevelsFacts
<1>3. r.tombstones = [l \in Level |-> IF l \in L THEN 0 ELSE g.tombstones[l]]
  BY DEF ResetLevels, Generation
<1>4. h = [r EXCEPT !.ctrl = [r.ctrl EXCEPT ![s] = EMPTY],
                    !.data = [r.data EXCEPT ![s] = None], !.len = Decrement(r.len),
                    !.levelLen = levelLen]
  BY DEF DrainResetEntry
<1> HIDE DEF r, h, levelLen
<1>5. /\ h.ctrl = [r.ctrl EXCEPT ![s] = EMPTY] /\ h.len = Decrement(r.len)
      /\ h.levelLen = levelLen /\ h.tombstones = r.tombstones
  BY <1>2, <1>4 DEF Generation
<1>6. s \in Slot /\ s \in SlotsOf(g)
  BY DEF Live, Good, Scheduled
<1>7. h.ctrl[s] = EMPTY /\ \A y \in Slot : y # s => h.ctrl[y] = r.ctrl[y]
  BY <1>2, <1>5, <1>6 DEF Generation
<1>8. \A t \in Slot : t # s =>
        h.ctrl[t] = IF t \in SlotsOf(g) /\ LevelAt(g, t) < m THEN EMPTY ELSE g.ctrl[t]
  <2>1. \A t \in Slot : LevelAt(g, t) \in Level
    BY LevelBitType
  <2> HIDE DEF m
  <2> QED BY <1>2, <1>7, <2>1 DEF L
<1>9. h.tombstones = [l \in Level |-> IF l < m THEN 0 ELSE g.tombstones[l]]
  BY <1>3, <1>5 DEF L
<1> QED BY <1>1, <1>2, <1>5, <1>6, <1>7, <1>8, <1>9 DEF Sweeps, h, levelLen

------------------------------------------------------------------------------
(* Tables without entries.                                                 *)

LEMMA NoEntries ==
  ASSUME NEW g, g.shape \in Shapes, Live(g) = {}, \A s \in SlotsOf(g) : g.ctrl[s] = EMPTY,
         g.tombstones = [l \in Level |-> 0]
  PROVE  /\ Size(g) = 0
         /\ \A l \in Level : /\ Cardinality(LevelLive(g, l)) = 0
                             /\ g.tombstones[l] = Cardinality(LevelTombs(g, l))
         /\ g.len = 0 /\ g.levelLen = [l \in Level |-> 0] => Exact(g) /\ Fits(g)
<1>1. Size(g) = 0
  BY FS_EmptySet DEF Size
<1>2. ASSUME NEW l \in Level
      PROVE  /\ Cardinality(LevelLive(g, l)) = 0
             /\ g.tombstones[l] = Cardinality(LevelTombs(g, l))
  <2>1. LevelSlots[g.shape][l] \subseteq SlotsOf(g)
    BY DEF LevelSlots, SlotsOf
  <2>2. LevelLive(g, l) = {} /\ LevelTombs(g, l) = {}
    BY <2>1, FreeAssumption DEF LevelLive, LevelTombs
  <2> QED BY <2>2, FS_EmptySet
<1>3. ASSUME g.len = 0, g.levelLen = [l \in Level |-> 0] PROVE Exact(g) /\ Fits(g)
  BY <1>1, <1>2, <1>3, LimitFacts DEF Exact, Fits
<1> QED BY <1>1, <1>2, <1>3

LEMMA FreshTally ==
  ASSUME NEW shape \in Shapes
  PROVE  LET g == Fresh(shape)
         IN  /\ g.shape = shape /\ g.len = 0 /\ Live(g) = {} /\ Exact(g) /\ Tally(g)
             /\ \A l \in Level : g.tombstones[l] = 0
<1> DEFINE g == Fresh(shape)
<1>1. /\ g.shape = shape /\ g.len = 0 /\ g.ctrl = [s \in Slot |-> EMPTY]
      /\ g.levelLen = [l \in Level |-> 0] /\ g.tombstones = [l \in Level |-> 0]
  BY DEF Fresh
<1> HIDE DEF g
<1>2. Live(g) = {} /\ \A s \in SlotsOf(g) : g.ctrl[s] = EMPTY
  BY <1>1, SlotFacts, FreeAssumption DEF Live, SlotsOf
<1>3. Exact(g) /\ Fits(g)
  BY <1>1, <1>2, NoEntries
<1> QED BY <1>1, <1>2, <1>3 DEF Tally, g

LEMMA ResetAfterClearCounts ==
  \A g \in Generation : SameCounts(g, ResetAfterClear(g))
BY DEF ResetAfterClear, ClearMembership, Generation, SameCounts

LEMMA WipeAllTally ==
  ASSUME NEW g \in Generation
  PROVE  Tally(WipeAll(g))
<1> DEFINE ctrl == [s \in Slot |-> EMPTY]
           data == [s \in Slot |-> None]
           counts == [l \in Level |-> 0]
           r == [g EXCEPT !.ctrl = ctrl, !.data = data, !.len = 0,
                          !.levelLen = counts, !.tombstones = counts]
<1>1. /\ ctrl \in [Slot -> Control] /\ data \in [Slot -> Vals \cup {None}]
      /\ counts \in [Level -> Nat] /\ \A s \in Slot : ctrl[s] = EMPTY
  BY DEF Control
<1>2. WipeAll(g) = ResetAfterClear(r)
  BY DEF WipeAll
<1> HIDE DEF ctrl, data
<1>3. r \in Generation /\ r.shape = g.shape /\ r.ctrl = ctrl /\ r.len = 0
      /\ r.levelLen = counts /\ r.tombstones = counts /\ r.shape \in Shapes
  BY <1>1 DEF Generation
<1> HIDE DEF r
<1>4. Live(r) = {} /\ \A s \in SlotsOf(r) : r.ctrl[s] = EMPTY
  <2>1. \A s \in Slot : r.ctrl[s] = EMPTY
    BY <1>1, <1>3
  <2>2. SlotsOf(r) \subseteq Slot
    BY <1>3, SlotFacts DEF SlotsOf
  <2>3. Live(r) = {}
    BY <2>1, FreeAssumption DEF Live
  <2> QED BY <2>1, <2>2, <2>3
<1>5. Tally(r)
  BY <1>3, <1>4, NoEntries DEF Tally
<1> QED BY <1>2, <1>3, <1>5, ResetAfterClearCounts, SameCountsFacts

(* The drops of a clear have counted everything out. *)
LEMMA FinishClearTally ==
  ASSUME NEW g \in Generation, Tally(g), Live(g) = {}
  PROVE  Tally(FinishClear(g))
<1> DEFINE r == ResetLevels(g, Level)
<1>1. /\ r \in Generation /\ r.shape = g.shape /\ r.len = g.len /\ r.levelLen = g.levelLen
      /\ \A s \in Slot : r.ctrl[s] = IF s \in SlotsOf(g) /\ LevelAt(g, s) \in Level
                                     THEN EMPTY ELSE g.ctrl[s]
  BY ResetLevelsFacts DEF Frame
<1>2. r.tombstones = [l \in Level |-> 0]
  BY DEF ResetLevels, Generation
<1>3. FinishClear(g) = ResetAfterClear(r)
  BY DEF FinishClear
<1> HIDE DEF r
<1>4. Live(r) = {}
  BY <1>1, FreeAssumption DEF Live
<1>5. r.shape \in Shapes /\ \A s \in SlotsOf(r) : r.ctrl[s] = EMPTY
  BY <1>1, SlotFacts, LevelBitType DEF Generation, SlotsOf
<1>6. Size(r) = 0 /\ Size(g) = 0
  BY <1>2, <1>4, <1>5, NoEntries, FS_EmptySet DEF Size
<1>7. Fits(r)
  BY <1>1, <1>6 DEF Fits, Tally
<1>8. ASSUME Exact(g) PROVE Exact(r)
  <2>1. ASSUME NEW l \in Level
        PROVE  /\ r.levelLen[l] = Cardinality(LevelLive(r, l))
               /\ r.tombstones[l] = Cardinality(LevelTombs(r, l))
    <3>1. LevelLive(g, l) = {}
      BY DEF LevelLive
    <3>2. g.levelLen[l] = 0
      BY <1>8, <3>1, FS_EmptySet DEF Exact
    <3> QED BY <1>1, <1>2, <1>4, <1>5, <3>2, NoEntries
  <2> QED BY <1>1, <1>6, <1>8, <2>1 DEF Exact
<1>9. Tally(r)
  BY <1>7, <1>8 DEF Tally
<1> QED BY <1>1, <1>3, <1>9, ResetAfterClearCounts, SameCountsFacts

------------------------------------------------------------------------------
(* Every step keeps the counts.                                            *)

LEMMA TallyPlain ==
  ASSUME Tally(table'), call'.at \notin {"rebuild", "place"}
  PROVE  TallyInv'
BY DEF TallyInv, Tally, Fits, Exact, Size, Live, LevelLive, LevelTombs

LEMMA TallyShrinks ==
  ASSUME NEW g \in Generation, Good(g), NEW s \in Live(g), Tally(g)
  PROVE  /\ ExtractFinish(g, s) \in Generation /\ Good(ExtractFinish(g, s))
         /\ Tally(ExtractFinish(g, s))
         /\ (\A t \in Live(g) : s <= t) => Tally(DrainResetEntry(g, s))
<1>1. Tally(ExtractFinish(g, s))
  BY ExtractBuries, BuriesExact DEF Tally
<1>2. ASSUME \A t \in Live(g) : s <= t PROVE Tally(DrainResetEntry(g, s))
  BY <1>2, DrainResetSweeps, SweepsExact DEF Tally
<1> QED BY <1>1, <1>2, ExtractFacts, ShrunkGood

LEMMA TombstoneFits ==
  ASSUME NEW g \in Generation, NEW s \in Live(g), Fits(g)
  PROVE  Fits(TombstoneSlot(g, s))
<1> DEFINE h == TombstoneSlot(g, s)
<1>1. h.shape = g.shape /\ h.len = g.len /\ h.ctrl = [g.ctrl EXCEPT ![s] = TOMBSTONE]
  BY TombstoneFacts DEF Shrunk, Frame
<1> HIDE DEF h
<1>2. Live(h) \subseteq Live(g)
  BY <1>1, FreeAssumption DEF Live, Generation
<1>3. Size(h) <= Size(g)
  BY <1>2, LiveFinite, FS_Subset DEF Size
<1>4. Size(h) \in Nat /\ Size(g) \in Nat /\ g.len \in Nat
  BY SizeType DEF Generation
<1> QED BY <1>1, <1>3, <1>4 DEF Fits, h

(* A rebuild begins into a shape that admits what is live. *)
LEMMA TallyRebuilding ==
  ASSUME NEW old \in Generation, Tally(old), NEW shape \in Shapes, NEW tr \in Transition,
         NEW rest \in Call, StartRebuild(old, shape, tr, rest), rest.cursor = 0,
         old.len <= MaxInsertions[shape],
         rest.then # "return" => old.len < MaxInsertions[shape]
  PROVE  TallyInv'
<1>1. /\ previous' = old /\ call'.at = "rebuild" /\ call'.cursor = 0
      /\ call'.then = rest.then /\ table' = Fresh(shape)
  BY DEF StartRebuild, Call
<1>2. /\ table'.shape = shape /\ table'.len = 0 /\ Exact(table')
      /\ \A l \in Level : table'.tombstones[l] = 0
  BY <1>1, FreshTally
<1>3. Passed' = {}
  BY <1>1, SlotFacts DEF Passed, Live, Slot
<1>4. Cardinality(Passed') = 0
  BY <1>3, FS_EmptySet
<1>5. RebuildCounts'
  BY <1>1, <1>2, <1>4
     DEF RebuildCounts, Tally, Fits, Exact, Size, Live, LevelLive, LevelTombs
<1> QED BY <1>1, <1>5 DEF TallyInv

LEMMA TallyPlaced ==
  ASSUME Tally(table), table \in Generation, table.len < MaxInsertions[table.shape],
         NEW g \in Generation, SameCounts(table, g), NEW h, NEW s, Fills(g, h, s),
         NEW k, NEW v, NEW e, Placed(k, v, h, e)
  PROVE  TallyInv'
<1>1. table' = h /\ call' = Idle
  BY DEF Placed
<1>2. Size(h) = Size(g) + 1 /\ h.len = g.len + 1 /\ h.shape = g.shape
      /\ (Exact(g) => Exact(h))
  BY FillsExact DEF Fills
<1>3. Tally(g) /\ g.len < MaxInsertions[g.shape]
  BY SameCountsFacts DEF SameCounts
<1>4. /\ g.len \in Nat /\ Size(g) \in Nat /\ MaxInsertions[g.shape] \in Nat
      /\ Size(g) <= g.len
  BY <1>3, SizeType, LimitFacts DEF Generation, Tally, Fits
<1>5. Fits(h)
  BY <1>2, <1>3, <1>4 DEF Fits
<1>6. Tally(h)
  BY <1>2, <1>3, <1>5 DEF Tally
<1> QED BY <1>1, <1>6, CallFacts, TallyPlain

LEMMA TallyPlaceAbsent ==
  ASSUME Inv, Tally(table), table.len < MaxInsertions[table.shape],
         NEW k \in Keys, NEW v \in Vals \cup {None}, PlaceAbsent(k, v)
  PROVE  TallyInv'
<1> DEFINE g == Synced(table)
<1>1. /\ table \in Generation /\ Good(table)
      /\ g \in Generation /\ Good(g) /\ SameCounts(table, g) /\ g.scheduler.index \in Nat
      /\ g.shape \in Shapes
  BY SyncedFacts, SyncedCounts DEF Inv, TypeOK, Good, Generation
<1> HIDE DEF g
<1>2. ASSUME NEW p, Choice(g, k, p), Placed(k, v, PlaceNewEntry(g, p, k, v), epoch)
      PROVE  TallyInv'
  <2>1. PICK s \in Slot : Fills(g, PlaceNewEntry(g, p, k, v), s)
    BY <1>1, <1>2, PlaceNewEntryFills
  <2> QED BY <1>1, <1>2, <2>1, TallyPlaced
<1>3. ASSUME NEW s \in FirstFreeSlot(g),
             Placed(k, v, PlaceExceptional(g, s, k, v), NotePlacementRecovery(epoch))
      PROVE  TallyInv'
  <2>1. Fills(g, PlaceExceptional(g, s, k, v), s)
    BY <1>1, PlaceExceptionalFills
  <2> QED BY <1>1, <1>3, <2>1, TallyPlaced
<1> DEFINE rest == [Idle EXCEPT !.then = "recovered", !.key = k, !.val = v]
<1>4. CASE StartRebuild(g, g.shape, "PlacementRecovery", rest)
  <2>1. rest \in Call /\ rest.cursor = 0 /\ "PlacementRecovery" \in Transition
    BY DEF Idle, Call, Transition
  <2>2. Tally(g) /\ g.len < MaxInsertions[g.shape] /\ g.len <= MaxInsertions[g.shape]
    BY <1>1, SameCountsFacts DEF SameCounts, Tally, Fits
  <2> HIDE DEF rest
  <2> QED BY <1>1, <1>4, <2>1, <2>2, TallyRebuilding
<1>5. CASE PlaceAfterTargetFailure(k, v, g)
  <2>1. \A p \in ChooseSlotOnOtherTargets(g, k, g.scheduler.index) : Choice(g, k, p)
    BY <1>1, OtherTargetFacts
  <2> QED BY <1>2, <1>3, <1>4, <1>5, <2>1 DEF PlaceAfterTargetFailure
<1>6. \A p \in ChooseSlot(g, k, g.scheduler.index) : Choice(g, k, p)
  BY <1>1, ChooseSlotFacts
<1> QED BY <1>2, <1>5, <1>6 DEF PlaceAbsent, g

(* At the limit the slots double, and so does the limit grow. *)
LEMMA TallyInsertAbsent ==
  ASSUME Inv, Tally(table), NEW k \in Keys, NEW v \in Vals, InsertAbsent(k, v)
  PROVE  TallyInv'
<1> DEFINE rest == [Idle EXCEPT !.then = "grown", !.key = k, !.val = v]
           shape == table.shape + 1
<1>1. table \in Generation /\ table.shape \in Shapes /\ table.len \in Nat
      /\ table.len <= MaxInsertions[table.shape] /\ LastShape \in Nat
  BY ShapeAssumption DEF Inv, TypeOK, Generation, Tally, Fits
<1>2. CASE table.shape < LastShape /\ StartRebuild(table, shape, "Growth", rest)
  <2>1. rest \in Call /\ rest.cursor = 0 /\ "Growth" \in Transition
    BY DEF Idle, Call, Transition
  <2>2. shape \in Shapes /\ table.shape \in Shapes \ {LastShape}
    BY <1>1, <1>2 DEF Shapes
  <2>3. MaxInsertions[table.shape] < MaxInsertions[shape]
    BY <2>2, GrowthAssumption
  <2>4. table.len < MaxInsertions[shape] /\ table.len <= MaxInsertions[shape]
    BY <1>1, <2>2, <2>3, LimitFacts
  <2> HIDE DEF rest, shape
  <2> QED BY <1>1, <1>2, <2>1, <2>2, <2>4, TallyRebuilding
<1>3. CASE table.len < MaxInsertions[table.shape] /\ PlaceAbsent(k, v)
  BY <1>3, TallyPlaceAbsent
<1> QED BY <1>2, <1>3 DEF InsertAbsent

LEMMA TallySettle ==
  ASSUME NEW g \in Generation, Tally(g), NEW needsCleanup, Settle(g, needsCleanup)
  PROVE  TallyInv'
<1>1. /\ Idle \in Call /\ Idle.cursor = 0 /\ Idle.then = "return" /\ g.shape \in Shapes
      /\ "TombstoneCleanup" \in Transition /\ g.len <= MaxInsertions[g.shape]
  BY CallFacts DEF Transition, Generation, Tally, Fits
<1>2. CASE StartRebuild(g, g.shape, "TombstoneCleanup", Idle)
  BY <1>1, <1>2, TallyRebuilding
<1>3. CASE table' = ClearMembership(g) /\ call' = Scanning("refresh")
  <2>1. Tally(table')
    BY <1>3, ClearMembershipCounts, SameCountsFacts
  <2> QED BY <1>3, <2>1, CallFacts, TallyPlain DEF FaultPoints
<1>4. CASE table' = g /\ call' = Idle
  BY <1>4, CallFacts, TallyPlain
<1> QED BY <1>2, <1>3, <1>4 DEF Settle

LEMMA TallyRebuildStep ==
  ASSUME Inv, TallyInv, RebuildStep
  PROVE  TallyInv'
<1> DEFINE g == Synced(table)
<1>1. /\ call.at = "rebuild" /\ previous' = previous /\ previous \in Generation
      /\ table \in Generation /\ Good(table) /\ call \in Call /\ RebuildCounts
  BY DEF RebuildStep, Inv, TypeOK, TallyInv
<1>2. /\ g \in Generation /\ Good(g) /\ SameCounts(table, g) /\ g.scheduler.index \in Nat
  BY <1>1, SyncedFacts, SyncedCounts DEF Good
<1> DEFINE choice(s) == ChooseSlot(g, previous.ctrl[s], g.scheduler.index)
<1>3. PICK s \in NextLive(previous) :
        /\ \/ \E p \in choice(s) :
                table' = PlaceNewEntry(g, p, previous.ctrl[s], previous.data[s])
           \/ \E t \in FirstFreeSlot(g) :
                table' = PlaceExceptional(g, t, previous.ctrl[s], previous.data[s])
        /\ call' = [call EXCEPT !.cursor = s, !.recovered = @ \/ choice(s) = {}]
  BY DEF RebuildStep
<1>4. /\ s \in Live(previous) /\ s \in Nat /\ s > call.cursor /\ previous.ctrl[s] \in Keys
      /\ previous.data[s] \in Vals \cup {None}
      /\ \A y \in Live(previous) : y > call.cursor => s <= y
  BY <1>1, NextLiveFacts DEF Generation
<1> HIDE DEF g
<1>5. \E t \in Slot : Fills(g, table', t)
  <2>1. ASSUME NEW p \in choice(s),
               table' = PlaceNewEntry(g, p, previous.ctrl[s], previous.data[s])
        PROVE  \E t \in Slot : Fills(g, table', t)
    <3>1. Choice(g, previous.ctrl[s], p)
      BY <1>2, <1>4, ChooseSlotFacts
    <3> QED BY <1>2, <1>4, <2>1, <3>1, PlaceNewEntryFills
  <2>2. ASSUME NEW t \in FirstFreeSlot(g),
               table' = PlaceExceptional(g, t, previous.ctrl[s], previous.data[s])
        PROVE  t \in Slot /\ Fills(g, table', t)
    BY <1>2, <1>4, <2>2, PlaceExceptionalFills
  <2> QED BY <1>3, <2>1, <2>2
<1>6. PICK t \in Slot : Fills(table, table', t)
  BY <1>2, <1>5, SameCountsFill
<1>7. /\ table'.shape = table.shape /\ table'.len = table.len + 1 /\ Exact(table')
      /\ \A l \in Level : table'.tombstones[l] = 0
  BY <1>1, <1>6, FillsExact DEF RebuildCounts, Fills
<1>8. call'.at = "rebuild" /\ call'.then = call.then /\ call'.cursor = s
  BY <1>1, <1>3 DEF Call
<1>9. Cardinality(Passed') = Cardinality(Passed) + 1
  <2>1. Live(previous) \subseteq Nat /\ call.cursor \in Nat
    BY <1>1, SlotFacts DEF Live, Call
  <2>2. Passed' = {y \in Live(previous) : y <= s}
    BY <1>1, <1>8 DEF Passed, Live
  <2>3. \A y \in Live(previous) : y <= s <=> y <= call.cursor \/ y = s
    BY <1>4, <2>1
  <2>4. Passed' = Passed \cup {s} /\ s \notin Passed
    BY <1>4, <2>1, <2>2, <2>3 DEF Passed
  <2> QED BY <2>4, SizeGrows, SizeType
<1>10. RebuildCounts'
  <2>1. Tally(previous)'
    BY <1>1 DEF RebuildCounts, Tally, Fits, Exact, Size, Live, LevelLive, LevelTombs
  <2>2. Exact(table)'
    BY <1>7 DEF Exact, Size, Live, LevelLive, LevelTombs
  <2>3. table'.len = Cardinality(Passed')
    BY <1>1, <1>7, <1>9 DEF RebuildCounts
  <2>4. /\ previous'.len <= MaxInsertions[table'.shape]
        /\ call'.then # "return" => previous'.len < MaxInsertions[table'.shape]
    BY <1>1, <1>7, <1>8 DEF RebuildCounts
  <2> QED BY <1>7, <2>1, <2>2, <2>3, <2>4 DEF RebuildCounts
<1> QED BY <1>8, <1>10 DEF TallyInv

(* The committed generation holds as many entries as the one it replaces. *)
LEMMA CommitTally ==
  ASSUME Inv, TallyInv, call.at = "rebuild", ScanDone(previous)
  PROVE  /\ Tally(table) /\ Size(table) = Size(previous)
         /\ \A l \in Level : table.tombstones[l] = 0
         /\ call.then # "return" => table.len < MaxInsertions[table.shape]
<1>1. RebuildCounts /\ previous \in Generation /\ table \in Generation
  BY DEF TallyInv, Inv, TypeOK
<1>2. Passed = Live(previous)
  BY DEF Passed, ScanDone
<1>3. /\ table.len = Size(table) /\ table.len = Size(previous)
      /\ Size(previous) <= previous.len /\ previous.len <= MaxInsertions[table.shape]
      /\ call.then # "return" => previous.len < MaxInsertions[table.shape]
      /\ Exact(table) /\ \A l \in Level : table.tombstones[l] = 0
  BY <1>1, <1>2 DEF RebuildCounts, Tally, Fits, Exact, Size
<1>4. /\ previous.len \in Nat /\ Size(previous) \in Nat
      /\ MaxInsertions[table.shape] \in Nat
  BY <1>1, SizeType, LimitFacts DEF Generation
<1> QED BY <1>3, <1>4 DEF Tally, Fits

LEMMA TallyRebuildCommit ==
  ASSUME Inv, TallyInv, RebuildCommit
  PROVE  TallyInv'
<1>1. /\ call.at = "rebuild" /\ call \in Call /\ table' = table
      /\ call' = IF call.then = "return" THEN Idle ELSE [call EXCEPT !.at = "place"]
      /\ Tally(table)
      /\ call.then # "return" => table.len < MaxInsertions[table.shape]
  BY CommitTally DEF RebuildCommit, Inv, TypeOK
<1>2. CASE call.then = "return"
  BY <1>1, <1>2, CallFacts, TallyPlain
<1>3. CASE call.then # "return"
  <2>1. call'.at = "place"
    BY <1>1, <1>3 DEF Call
  <2> QED BY <1>1, <1>3, <2>1
          DEF TallyInv, Tally, Fits, Exact, Size, Live, LevelLive, LevelTombs
<1> QED BY <1>2, <1>3

LEMMA TallyInit == Init => TallyInv
<1> SUFFICES ASSUME Init PROVE TallyInv
  OBVIOUS
<1>1. PICK shape \in Shapes : table = Fresh(shape)
  BY SlotFacts, ShapesOfSearch DEF Init
<1>2. Tally(table)
  BY <1>1, FreshTally
<1> QED BY <1>2, CallFacts DEF Init, TallyInv, Tally

LEMMA SearchAdmits ==
  ASSUME NEW from \in {1} \cup Shapes, NEW n, NEW shape \in ShapeFor(from, n)
  PROVE  shape \in Shapes /\ MaxInsertions[shape] >= n
BY ShapesOfSearch DEF ShapeFor, First

LEMMA TallyNext ==
  ASSUME Inv, TallyInv, [Next]_vars
  PROVE  TallyInv'
<1>1. /\ table \in Generation /\ Good(table) /\ call \in Call /\ table.len \in Nat
      /\ table.shape \in Shapes
      /\ call.at \notin {"rebuild", "drain"} => Tally(table)
      /\ call.at # "rebuild" => Fits(table)
      /\ Idle.at = "idle" /\ Idle \in Call /\ Idle.cursor = 0 /\ Idle.then = "return"
      /\ table.schedule \subseteq Routes[table.shape]
  BY CallFacts DEF Inv, TypeOK, TallyInv, Generation, Good, Scheduled, RoutesBetween
<1>2. ASSUME NEW k \in Keys, NEW v \in Vals, Insert(k, v) \/ EntryOrInsert(k, v)
      PROVE  TallyInv'
  <2>1. call = Idle /\ Tally(table)
    BY <1>1, <1>2 DEF Insert, EntryOrInsert
  <2>2. ASSUME NEW s, table' = [table EXCEPT !.data[s] = v], call' = call PROVE TallyInv'
    <3>1. SameCounts(table, table')
      BY <1>1, <2>2 DEF SameCounts, Generation
    <3> QED BY <1>1, <2>1, <2>2, <3>1, SameCountsFacts, TallyPlain
  <2>3. ASSUME table' = table, call' = call PROVE TallyInv'
    BY <1>1, <2>1, <2>3, TallyPlain
  <2>4. ASSUME InsertAbsent(k, v) PROVE TallyInv'
    BY <2>1, <2>4, TallyInsertAbsent
  <2>5. CASE Insert(k, v)
    BY <2>2, <2>4, <2>5 DEF Insert
  <2>6. CASE EntryOrInsert(k, v)
    BY <2>3, <2>4, <2>6 DEF EntryOrInsert
  <2> QED BY <1>2, <2>5, <2>6
<1>3. ASSUME NEW k \in Keys, Get(k) PROVE TallyInv'
  BY <1>1, <1>3, TallyPlain DEF Get
<1>4. ASSUME NEW k \in Keys, Remove(k) PROVE TallyInv'
  <2>1. call = Idle /\ Tally(table)
    BY <1>1, <1>4 DEF Remove
  <2>2. ASSUME NEW s \in Find(table, k), NEW needsCleanup,
               Settle(ExtractFinish(table, s), needsCleanup)
        PROVE  TallyInv'
    <3>1. s \in Live(table)
      BY <1>1, FindHoldsKey DEF Live
    <3>2. ExtractFinish(table, s) \in Generation /\ Tally(ExtractFinish(table, s))
      BY <1>1, <2>1, <3>1, TallyShrinks
    <3> QED BY <2>2, <3>2, TallySettle
  <2>3. CASE UNCHANGED <<table, previous, call, epoch>>
    BY <1>1, <2>1, <2>3, TallyPlain
  <2> QED BY <1>4, <2>2, <2>3 DEF Remove
<1>5. ASSUME NEW at \in {"clear", "drain", "extract"}, StartScan(at) PROVE TallyInv'
  <2>1. call'.at = at /\ table' = table /\ Tally(table)
    BY <1>1, <1>5, CallFacts DEF StartScan, FaultPoints
  <2> QED BY <2>1, TallyPlain
<1>6. ASSUME NEW n \in 0..MaxInsertions[LastShape], Reserve(n) \/ ShrinkTo(n)
      PROVE  TallyInv'
  <2>1. call = Idle /\ Tally(table) /\ n \in Nat /\ "ExplicitResize" \in Transition
    BY <1>1, <1>6 DEF Reserve, ShrinkTo, Transition
  <2>2. /\ Larger(table.shape, 1) \in {1} \cup Shapes /\ 1 \in {1} \cup Shapes
        /\ 0 \in Shapes /\ MaxInsertions[0] \in Nat
    BY <1>1, SlotFacts, LimitFacts DEF Larger
  <2>3. PICK shape \in Shapes : /\ StartRebuild(table, shape, "ExplicitResize", Idle)
                                /\ table.len <= MaxInsertions[shape]
    <3>1. CASE Reserve(n)
      <4>1. PICK shape \in ShapeFor(Larger(table.shape, 1), table.len + n) : Resize(shape)
        BY <3>1 DEF Reserve
      <4>2. shape \in Shapes /\ MaxInsertions[shape] >= table.len + n
        BY <2>2, <4>1, SearchAdmits
      <4> QED BY <1>1, <2>1, <4>1, <4>2, LimitFacts DEF Resize
    <3>2. CASE ShrinkTo(n) /\ table.len = 0 /\ Resize(0)
      BY <2>2, <3>2 DEF Resize
    <3>3. CASE ShrinkTo(n) /\ ~(table.len = 0 /\ Resize(0))
      <4> DEFINE needed == Larger(Larger(table.len, n), SlotCount[1])
      <4>1. PICK shape \in ShapeFor(1, needed) : Resize(shape)
        BY <3>3 DEF ShrinkTo
      <4>2. SlotCount[1] \in Nat
        BY SlotFacts, LimitFacts
      <4>3. needed \in Nat /\ needed >= table.len
        BY <1>1, <2>1, <4>2 DEF Larger
      <4> HIDE DEF needed
      <4>4. shape \in Shapes /\ MaxInsertions[shape] >= needed
        BY <4>1, SearchAdmits
      <4> QED BY <1>1, <4>1, <4>3, <4>4, LimitFacts DEF Resize
    <3> QED BY <1>6, <3>1, <3>2, <3>3
  <2> QED BY <1>1, <2>1, <2>3, TallyRebuilding
<1>7. CASE RebuildStep
  BY <1>7, TallyRebuildStep
<1>8. CASE RebuildCommit
  BY <1>8, TallyRebuildCommit
<1>9. CASE RebuildPanic
  <2>1. Tally(previous) /\ table' = previous /\ call' = Idle
    BY <1>9 DEF RebuildPanic, TallyInv, RebuildCounts
  <2> QED BY <1>1, <2>1, TallyPlain
<1>10. CASE ResumePlace
  <2> DEFINE g == Synced(table)
  <2>0. PICK k \in Keys, v \in Vals \cup {None} : k = call.key /\ v = call.val
    BY <1>1, <1>10 DEF Inv, CallInv, ResumePlace, Call
  <2>1. /\ call.at = "place" /\ Tally(table) /\ table.len < MaxInsertions[table.shape]
    BY <1>1, <1>10 DEF ResumePlace, TallyInv
  <2>2. /\ g \in Generation /\ Good(g) /\ SameCounts(table, g) /\ g.scheduler.index \in Nat
    BY <1>1, SyncedFacts, SyncedCounts DEF Good
  <2> HIDE DEF g
  <2>3. ASSUME NEW p \in ChooseSlot(g, k, g.scheduler.index),
               Placed(k, v, PlaceNewEntry(g, p, k, v), epoch)
        PROVE  TallyInv'
    <3>1. Choice(g, k, p)
      BY <2>2, ChooseSlotFacts
    <3>2. PICK s \in Slot : Fills(g, PlaceNewEntry(g, p, k, v), s)
      BY <2>2, <3>1, PlaceNewEntryFills
    <3> QED BY <1>1, <2>1, <2>2, <2>3, <3>2, TallyPlaced
  <2>4. ASSUME NEW s \in FirstFreeSlot(g), Placed(k, v, PlaceExceptional(g, s, k, v), epoch)
        PROVE  TallyInv'
    <3>1. Fills(g, PlaceExceptional(g, s, k, v), s)
      BY <2>2, PlaceExceptionalFills
    <3> QED BY <1>1, <2>1, <2>2, <2>4, <3>1, TallyPlaced
  <2>5. ASSUME PlaceAbsent(k, v) PROVE TallyInv'
    BY <2>1, <2>5, TallyPlaceAbsent
  <2> QED BY <1>10, <2>0, <2>3, <2>4, <2>5 DEF ResumePlace, g
<1>11. CASE RefreshStep \/ RefreshDone \/ RefreshPanic
  <2>1. call.at = "refresh" /\ Tally(table)
    BY <1>1, <1>11 DEF RefreshStep, RefreshDone, RefreshPanic
  <2>2. SameCounts(table, table')
    BY <1>1, <1>11 DEF RefreshStep, RefreshDone, RefreshPanic, RecordMembership,
                      SameCounts, Generation
  <2>3. call'.at \in {"refresh", "idle"}
    BY <1>1, <1>11, <2>1 DEF RefreshStep, RefreshDone, RefreshPanic, Call
  <2> QED BY <2>1, <2>2, <2>3, SameCountsFacts, TallyPlain
<1>12. CASE ClearStep
  <2>1. PICK s \in NextLive(table) : table' = DrainResetEntry(table, s)
    BY <1>12 DEF ClearStep
  <2>2. s \in Live(table) /\ Tally(table) /\ \A t \in Live(table) : t > 0 => s <= t
    BY <1>1, <1>12, <2>1, NextLiveFacts DEF ClearStep, Inv, CallInv
  <2>3. \A t \in Live(table) : s <= t
    BY <2>2, SlotFacts DEF Live
  <2>4. call'.at \in {"clear", "idle"}
    BY <1>1, <1>12 DEF ClearStep
  <2> QED BY <1>1, <2>1, <2>2, <2>3, <2>4, TallyShrinks, TallyPlain
<1>13. CASE DrainStep
  <2>1. PICK s \in NextLive(table) : table' = TombstoneSlot(table, s)
    BY <1>13 DEF DrainStep
  <2>2. s \in Live(table) /\ Fits(table) /\ call.at = "drain" /\ call' = call
    BY <1>1, <1>13, <2>1, NextLiveFacts DEF DrainStep
  <2>3. Fits(table')
    BY <1>1, <2>1, <2>2, TombstoneFits
  <2> QED BY <2>2, <2>3 DEF TallyInv, Fits, Size, Live
<1>14. CASE DrainAbandon
  <2>1. Tally(table) /\ table' = table /\ call' = Idle
    BY <1>1, <1>14 DEF DrainAbandon, Tally
  <2> QED BY <1>1, <2>1, TallyPlain
<1>15. CASE Wipe
  <2>1. call' = Idle /\ call.at \in {"clear", "drain"} /\ ScanDone(table)
        /\ table' = IF call.at = "clear" THEN FinishClear(table) ELSE WipeAll(table)
    BY <1>15 DEF Wipe
  <2>2. CASE call.at = "clear"
    <3>1. \A s \in Live(table) : s \in Nat \ {0} /\ s <= 0
      BY <2>1, <2>2, SlotFacts DEF Inv, CallInv, ScanDone, Live
    <3>2. Live(table) = {}
      BY <3>1
    <3>3. Tally(table')
      BY <1>1, <2>1, <2>2, <3>2, FinishClearTally
    <3> QED BY <1>1, <2>1, <3>3, TallyPlain
  <2>3. CASE call.at # "clear"
    BY <1>1, <2>1, <2>3, WipeAllTally, TallyPlain
  <2> QED BY <2>2, <2>3
<1>16. CASE ExtractStep
  <2>1. PICK s \in NextLive(table) : /\ call' = [call EXCEPT !.cursor = s]
                                     /\ table' \in {table, ExtractFinish(table, s)}
    BY <1>16 DEF ExtractStep
  <2>2. s \in Live(table) /\ Tally(table) /\ call'.at = "extract"
    BY <1>1, <1>16, <2>1, NextLiveFacts DEF ExtractStep, Call
  <2> QED BY <1>1, <2>1, <2>2, TallyShrinks, TallyPlain
<1>17. CASE ExtractEnd
  BY <1>1, <1>17, TallySettle DEF ExtractEnd
<1>18. CASE ExtractForget
  BY <1>1, <1>18, TallyPlain DEF ExtractForget
<1>19. CASE UNCHANGED vars
  BY <1>19 DEF vars, TallyInv, RebuildCounts, Passed, Tally, Fits, Exact, Size, Live,
               LevelLive, LevelTombs
<1> QED BY <1>2, <1>3, <1>4, <1>5, <1>6, <1>7, <1>8, <1>9, <1>10, <1>11, <1>12, <1>13,
           <1>14, <1>15, <1>16, <1>17, <1>18, <1>19 DEF Next, Begin, Progress, Fault

LEMMA TallyInvariant == Spec => [](Inv /\ TallyInv)
<1>1. Init => Inv /\ TallyInv
  BY InvInit, TallyInit
<1>2. Inv /\ TallyInv /\ [Next]_vars => Inv' /\ TallyInv'
  BY InvNext, TallyNext
<1> QED BY <1>1, <1>2, PTL DEF Spec

------------------------------------------------------------------------------
(* Fewer live keys than slots leave a free slot, and so a first one. *)
LEMMA RoomLeft ==
  ASSUME NEW g \in Generation, Size(g) < SlotCount[g.shape]
  PROVE  FirstFreeSlot(g) # {}
<1> DEFINE free == {s \in SlotsOf(g) : Free(g, s)}
<1>1. SlotsOf(g) \subseteq Slot /\ SlotCount[g.shape] \in Nat /\ Slot \subseteq Nat
  BY SlotFacts, LimitFacts DEF SlotsOf, Generation
<1>2. Cardinality(SlotsOf(g)) = SlotCount[g.shape]
  BY <1>1, CountTo DEF SlotsOf
<1>3. free # {}
  <2> SUFFICES ASSUME free = {} PROVE FALSE
    OBVIOUS
  <2>1. \A s \in SlotsOf(g) : g.ctrl[s] \in Keys
    BY <1>1 DEF Generation, Control, Free
  <2>2. SlotsOf(g) \in SUBSET Live(g)
    BY <1>1, <2>1 DEF Live
  <2>3. Cardinality(SlotsOf(g)) <= Size(g)
    BY <2>2, SizeType, SlotsFinite, FS_Subset DEF Size
  <2> QED BY <1>1, <1>2, <2>3, SizeType
<1>4. PICK s \in free : \A y \in free : s <= y
  <2>1. free \in SUBSET Nat
    BY <1>1
  <2> QED BY <1>3, <2>1, LeastNat
<1> QED BY <1>4 DEF FirstFreeSlot, First

(* Wherever a placement is due a slot is free, so the expect of
   place_exceptional_entry holds, also where the limit reserves nothing and
   whatever user code abandons: a generation that a rebuild fills admits every
   entry it is given, the limit grows with the slots, and a drain that is
   forgotten leaves the count too large, never too small. *)
THEOREM PlacementHasRoomHolds == Spec => []PlacementHasRoom
<1>1. Inv /\ TallyInv => PlacementHasRoom
  <2> SUFFICES ASSUME Inv, TallyInv,
                      \/ call.at = "rebuild" /\ ~ScanDone(previous)
                      \/ call.at = "place"
                      \/ call = Idle /\ table.len < MaxInsertions[table.shape]
               PROVE  FirstFreeSlot(table) # {}
    BY DEF PlacementHasRoom
  <2>1. /\ table \in Generation /\ table.len \in Nat /\ Size(table) \in Nat
        /\ MaxInsertions[table.shape] \in Nat /\ SlotCount[table.shape] \in Nat
        /\ MaxInsertions[table.shape] <= SlotCount[table.shape]
    BY SizeType, LimitFacts DEF Inv, TypeOK, Generation
  <2>2. Size(table) < MaxInsertions[table.shape]
    <3>1. CASE call.at = "rebuild" /\ ~ScanDone(previous)
      <4>1. RebuildCounts /\ previous \in Generation
        BY <3>1 DEF TallyInv, Inv, TypeOK
      <4>2. PICK s \in Live(previous) : ~(s <= call.cursor)
        BY <3>1 DEF ScanDone
      <4>3. Passed \in SUBSET (Live(previous) \ {s})
        BY <4>2 DEF Passed
      <4>4. Cardinality(Live(previous) \ {s}) = Size(previous) - 1
        BY <4>2, SizeGrows, SizeType DEF Size
      <4>5. Cardinality(Passed) <= Size(previous) - 1
        <5>1. Live(previous) \ {s} \in SUBSET Slot
          BY SizeType
        <5> QED BY <4>3, <4>4, <5>1, SlotsFinite, FS_Subset
      <4>6. /\ Size(table) = Cardinality(Passed) /\ Size(previous) <= previous.len
            /\ previous.len <= MaxInsertions[table.shape]
        BY <4>1 DEF RebuildCounts, Tally, Fits, Exact
      <4> QED BY <2>1, <4>1, <4>5, <4>6, SizeType DEF Generation
    <3>2. CASE call.at = "place"
      BY <2>1, <3>2 DEF TallyInv, Fits
    <3>3. CASE call = Idle /\ table.len < MaxInsertions[table.shape]
      BY <2>1, <3>3, CallFacts DEF TallyInv, Fits
    <3> QED BY <3>1, <3>2, <3>3
  <2>3. Size(table) < SlotCount[table.shape]
    BY <2>1, <2>2
  <2> QED BY <2>1, <2>3, RoomLeft
<1> QED BY <1>1, TallyInvariant, PTL

(* Between calls each level counts its live entries and its tombstones, and
   the table the entries of all, unless a drain was abandoned: after clears
   that a panicking drop cut short, leaked scans, refreshes and rebuilds that
   were undone.  The run elastic_clear_assert shows that the assumption is
   needed. *)
THEOREM CountersExactHolds ==
  ASSUME "drain" \notin Faults
  PROVE  Spec => []CountersExact
<1>1. Inv /\ TallyInv => CountersExact
  <2> SUFFICES ASSUME Inv, TallyInv, call = Idle
               PROVE  /\ table.len = Cardinality(Live(table))
                      /\ \A l \in Levels(table.shape) :
                           LET S == LevelSlots[table.shape][l]
                           IN  /\ table.levelLen[l] = Cardinality(S \cap Live(table))
                               /\ table.tombstones[l]
                                    = Cardinality({s \in S : table.ctrl[s] = TOMBSTONE})
    BY DEF CountersExact
  <2>1. Exact(table) /\ Levels(table.shape) \subseteq Level
    BY CallFacts, LevelFacts DEF TallyInv, Tally, Inv, TypeOK, Generation
  <2> QED BY <2>1 DEF Exact, Size, LevelLive, LevelTombs
<1> QED BY <1>1, TallyInvariant, PTL

(* The generation a rebuild commits has the contents of the one it replaces. *)
LEMMA CommittedContents ==
  ASSUME Sound, RebuildCommit
  PROVE  Contents(table') = Contents(previous)
<1>1. call.at = "rebuild" /\ ScanDone(previous) /\ table' = table /\ Copied /\ Complete
      /\ Distinct(table) /\ Distinct(previous)
  BY SoundTable DEF RebuildCommit, Sound, MapInv, DataInv
<1>2. ASSUME NEW s \in Live(previous)
      PROVE  \E t \in Live(table) : /\ table.ctrl[t] = previous.ctrl[s]
                                    /\ table.data[t] = previous.data[s]
  <2>1. PICK t \in Live(table) : table.ctrl[t] = previous.ctrl[s]
    BY <1>1 DEF Complete, ScanDone
  <2>2. PICK y \in Live(previous) :
          previous.ctrl[y] = table.ctrl[t] /\ previous.data[y] = table.data[t]
    BY <1>1 DEF Copied
  <2>3. y = s
    BY <1>1, <2>1, <2>2 DEF Distinct
  <2> QED BY <2>1, <2>2, <2>3
<1>3. \A t \in Live(table) : \E s \in Live(previous) : table.ctrl[t] = previous.ctrl[s]
  BY <1>1 DEF Copied
<1> QED BY <1>1, <1>2, <1>3, ContentsEqual

(* A rebuild ends with the old generation and the old epoch, or with every
   entry moved, no tombstone in any level and a new epoch: never with part of
   the keys. *)
THEOREM RebuildAtomicHolds ==
  ASSUME "refresh" \notin Faults
  PROVE  Spec => RebuildAtomic
<1> DEFINE atomic ==
      call.at = "rebuild" /\ call'.at # "rebuild" =>
        \/ table' = previous /\ epoch' = epoch
        \/ /\ Contents(table') = Contents(previous)
           /\ Cardinality(Live(table')) = Cardinality(Live(previous))
           /\ \A l \in Level : table'.tombstones[l] = 0
           /\ epoch'.transition = call.transition
<1>1. Sound /\ TallyInv /\ [Next]_vars => [atomic]_vars
  <2> SUFFICES ASSUME Sound, TallyInv, Next, call.at = "rebuild", call'.at # "rebuild"
               PROVE  atomic
    BY DEF vars
  <2>1. Idle.at = "idle" /\ call \in Call
    BY SoundTable, CallFacts
  <2>2. RebuildPanic \/ RebuildCommit
    <3>1. ~RebuildStep
      BY <2>1 DEF RebuildStep, Call
    <3>2. ~Begin
      BY <2>1 DEF Begin, Insert, EntryOrInsert, Get, Remove, StartScan, Reserve, ShrinkTo
    <3>3. ~(\/ ResumePlace \/ RefreshStep \/ RefreshDone \/ ClearStep \/ DrainStep \/ Wipe
            \/ ExtractStep \/ ExtractEnd \/ RefreshPanic \/ DrainAbandon \/ ExtractForget)
      BY DEF ResumePlace, RefreshStep, RefreshDone, ClearStep, DrainStep, Wipe,
             ExtractStep, ExtractEnd, RefreshPanic, DrainAbandon, ExtractForget
    <3> QED BY <3>1, <3>2, <3>3 DEF Next, Progress, Fault
  <2>3. CASE RebuildPanic
    BY <2>3 DEF RebuildPanic
  <2>4. CASE RebuildCommit
    <3>1. /\ table' = table /\ ScanDone(previous)
          /\ \E recovered : epoch' = StartEpoch(epoch, call.transition, recovered)
      BY <2>4 DEF RebuildCommit
    <3>2. /\ Cardinality(Live(table')) = Cardinality(Live(previous))
          /\ \A l \in Level : table'.tombstones[l] = 0
      BY <3>1, CommitTally DEF Sound, Size
    <3>3. Contents(table') = Contents(previous)
      BY <2>4, CommittedContents
    <3>4. epoch'.transition = call.transition
      BY <3>1 DEF StartEpoch, StartOf, StartWithPlacementRecovery
    <3> QED BY <3>2, <3>3, <3>4
  <2> QED BY <2>2, <2>3, <2>4
<1>2. [][atomic]_vars => RebuildAtomic
  BY DEF RebuildAtomic
<1> QED BY <1>1, <1>2, TallyInvariant, SoundInvariant, PTL DEF Spec

(***************************************************************************)
(* Recoveries.  A step counts one exactly when it owes one.                *)
(***************************************************************************)
Accounted ==
  epoch'.recoveries = IF OwesRecovery THEN SaturatingSucc(epoch.recoveries, RecMax)
                      ELSE epoch.recoveries

(* A running rebuild remembers that it flagged its table. *)
FlagInv == call.at = "rebuild" => (table.exceptional <=> call.recovered)

(* Only a last resort sets the flag. *)
LEMMA PlacementFlag ==
  ASSUME NEW g \in Generation, NEW p, NEW k, NEW v
  PROVE  PlaceNewEntry(g, p, k, v).exceptional = g.exceptional
<1> DEFINE x == ExtendProbeSchedule(g, p)
<1>1. /\ x.exceptional = g.exceptional /\ "exceptional" \in DOMAIN x
      /\ \A f : f \in DOMAIN x <=> f \in DOMAIN g
  BY DEF Generation, ExtendProbeSchedule
<1>2. \A s : WriteNewEntry(x, s, k, v).exceptional = x.exceptional
  <2> HIDE DEF x
  <2> QED BY <1>1 DEF WriteNewEntry, RecordMembership
<1> QED BY <1>1, <1>2 DEF PlaceNewEntry

LEMMA LastResortFlag ==
  ASSUME NEW g \in Generation, NEW s, NEW k, NEW v
  PROVE  PlaceExceptional(g, s, k, v).exceptional = TRUE
<1>1. "exceptional" \in DOMAIN WriteNewEntry(g, s, k, v)
  BY DEF Generation, WriteNewEntry, RecordMembership
<1> QED BY <1>1 DEF PlaceExceptional

(* The count of recoveries, as each epoch operation leaves it. *)
LEMMA RecoveryFacts ==
  ASSUME NEW e \in Epoch
  PROVE  /\ NoteDelete(e).recoveries = e.recoveries
         /\ NotePlacementRecovery(e).recoveries = SaturatingSucc(e.recoveries, RecMax)
         /\ \A t : /\ StartOf(e, t).recoveries = e.recoveries
                   /\ \A r \in BOOLEAN :
                        StartEpoch(e, t, r).recoveries =
                          IF r THEN SaturatingSucc(e.recoveries, RecMax) ELSE e.recoveries
<1>1. NoteDelete(e).recoveries = e.recoveries
  BY DEF Epoch, NoteDelete
<1>2. NotePlacementRecovery(e).recoveries = SaturatingSucc(e.recoveries, RecMax)
  BY DEF Epoch, NotePlacementRecovery
<1>3. \A x, t : StartOf(x, t).recoveries = x.recoveries
  BY DEF StartOf
<1> QED BY <1>1, <1>2, <1>3 DEF StartEpoch, StartWithPlacementRecovery

LEMMA OwnerIs ==
  /\ call.at # "rebuild" => Owner = table
  /\ call.at = "rebuild" => Owner = previous
  /\ call'.at # "rebuild" => Owner' = table'
  /\ call'.at = "rebuild" => Owner' = previous'
BY DEF Owner

------------------------------------------------------------------------------
(* The choices look at the shape, the slots and the level counts alone.    *)
LEMMA SameChoice ==
  ASSUME NEW g, NEW h, h.shape = g.shape, h.ctrl = g.ctrl, h.levelLen = g.levelLen
  PROVE  \A k, t : ChooseSlot(h, k, t) = ChooseSlot(g, k, t)
<1>1. \A l : /\ LevelCapacity(h, l) = LevelCapacity(g, l)
             /\ FreeSlots(h, l) = FreeSlots(g, l)
  BY DEF LevelCapacity, FreeSlots
<1>2. \A k, l, b : VacancyWithin(h, k, l, b) = VacancyWithin(g, k, l, b)
  BY DEF VacancyWithin, SlotOn, Free
<1>3. \A k, l : UniformVacancy(h, k, l) = UniformVacancy(g, k, l)
  BY <1>2 DEF UniformVacancy
<1>4. ASSUME NEW k, NEW c
      PROVE  PairVacancy(h, k, c) = PairVacancy(g, k, c)
  <2>1. /\ FreeSlots(h, c) = FreeSlots(g, c) /\ FreeSlots(h, c + 1) = FreeSlots(g, c + 1)
        /\ LevelCapacity(h, c) = LevelCapacity(g, c)
        /\ LevelCapacity(h, c + 1) = LevelCapacity(g, c + 1)
    BY <1>1
  <2>2. /\ UniformVacancy(h, k, c) = UniformVacancy(g, k, c)
        /\ UniformVacancy(h, k, c + 1) = UniformVacancy(g, k, c + 1)
    BY <1>3
  <2>3. \A b : VacancyWithin(h, k, c, b) = VacancyWithin(g, k, c, b)
    BY <1>2
  <2> QED BY <2>1, <2>2, <2>3 DEF PairVacancy
<1> QED BY <1>3, <1>4, Zenon DEF ChooseSlot

LEMMA SyncedChoice ==
  ASSUME NEW g \in Generation
  PROVE  \A k, t : ChooseSlot(Synced(g), k, t) = ChooseSlot(g, k, t)
<1>1. /\ Synced(g).shape = g.shape /\ Synced(g).ctrl = g.ctrl
      /\ Synced(g).levelLen = g.levelLen
  BY DEF Synced, Generation
<1> QED BY <1>1, SameChoice

(* Only the targets of the shape have a choice. *)
LEMMA TargetsChoose ==
  ASSUME NEW g \in Generation, NEW k, NEW t \in Nat, ChooseSlot(g, k, t) # {}
  PROVE  t \in Levels(g.shape)
<1>1. g.shape \in Shapes /\ g.shape # 0
  BY DEF Generation, ChooseSlot
<1>2. CASE t = 0
  BY <1>1, <1>2, LevelFacts
<1>3. CASE t # 0
  <2> DEFINE c == t - 1
  <2>1. PairVacancy(g, k, c) # {} /\ c + 1 = t
    BY <1>1, <1>3 DEF ChooseSlot
  <2> HIDE DEF c
  <2> QED BY <2>1 DEF PairVacancy
<1> QED BY <1>2, <1>3

(* A level whose exact count leaves no slot has no free slot. *)
LEMMA FullLevel ==
  ASSUME NEW g \in Generation, Exact(g), NEW l \in Levels(g.shape), FreeSlots(g, l) = 0
  PROVE  \A s \in SlotsOf(g) : LevelAt(g, s) = l => ~Free(g, s)
<1>1. g.shape \in Shapes /\ l \in Level
  BY LevelFacts DEF Generation
<1> DEFINE all == LevelSlots[g.shape][l]
           live == LevelLive(g, l)
<1>2. all = {s \in SlotsOf(g) : LevelAt(g, s) = l} /\ all \in SUBSET Slot
  BY <1>1, LevelSlotFacts
<1>3. LevelCapacity(g, l) = Cardinality(all)
  BY <1>1 DEF LevelCapacity, Capacities
<1>4. live \subseteq all /\ g.levelLen[l] = Cardinality(live)
  BY <1>1 DEF LevelLive, Exact
<1> HIDE DEF all, live
<1>5. /\ IsFiniteSet(all) /\ Cardinality(all) \in Nat /\ Cardinality(live) \in Nat
      /\ Cardinality(live) <= Cardinality(all)
      /\ Cardinality(live) = Cardinality(all) => live = all
  BY <1>2, <1>4, SlotsFinite, FS_Subset
<1>6. Cardinality(live) = Cardinality(all)
  BY <1>3, <1>4, <1>5 DEF FreeSlots
<1>7. \A s \in all : s \in Live(g)
  BY <1>5, <1>6 DEF live, LevelLive
<1> QED BY <1>2, <1>7, FreeAssumption DEF Live, Free

LEMMA FullLevelChoice ==
  ASSUME NEW g \in Generation, Exact(g), NEW k \in Keys, NEW l \in Levels(g.shape),
         FreeSlots(g, l) = 0
  PROVE  \A budget : VacancyWithin(g, k, l, budget) = {}
<1> SUFFICES ASSUME NEW budget, NEW p \in VacancyWithin(g, k, l, budget) PROVE FALSE
  OBVIOUS
<1>1. Choice(g, k, p)
  BY VacancyFacts
<1>2. p.level = l
  <2> DEFINE free == {q \in Probes[l] : /\ q <= budget
                                      /\ SlotOn(g, k, l, q) # 0
                                      /\ Free(g, SlotOn(g, k, l, q))}
  <2>1. PICK q \in First(free) : p = [level |-> l, probe |-> q]
    BY DEF VacancyWithin, Placement
  <2> QED BY <2>1
<1>3. /\ SlotOn(g, k, l, p.probe) \in SlotsOf(g)
      /\ LevelAt(g, SlotOn(g, k, l, p.probe)) = l
      /\ Free(g, SlotOn(g, k, l, p.probe))
  BY <1>1, <1>2, SlotOnFacts DEF Choice
<1> QED BY <1>3, FullLevel

(* A target whose counters show no room has no slot for any key. *)
LEMMA NoRoomNoChoice ==
  ASSUME NEW g \in Generation, Exact(g), NEW k \in Keys, NEW t \in Levels(g.shape),
         \A l \in {t - 1, t} \cap Levels(g.shape) : ~(FreeSlots(g, l) > 0)
  PROVE  ChooseSlot(g, k, t) = {}
<1>1. g.shape \in Shapes /\ t \in Nat
  BY LevelFacts DEF Generation
<1>2. ASSUME NEW l \in {t - 1, t}, l \in Levels(g.shape)
      PROVE  \A budget : VacancyWithin(g, k, l, budget) = {}
  <2>1. l \in Level /\ g.levelLen[l] \in Nat /\ LevelCapacity(g, l) \in Nat
    <3>1. l \in Level
      BY <1>1, <1>2, LevelFacts
    <3>2. LevelSlots[g.shape][l] \in SUBSET Slot
      BY <3>1, LevelSlotFacts
    <3> QED BY <1>1, <3>1, <3>2, SlotsFinite DEF LevelCapacity, Capacities, Generation
  <2>2. FreeSlots(g, l) = 0
    BY <1>2, <2>1 DEF FreeSlots
  <2> QED BY <1>2, <2>2, FullLevelChoice
<1>3. CASE t = 0
  BY <1>2, <1>3 DEF ChooseSlot, UniformVacancy
<1>4. CASE t # 0
  <2> DEFINE c == t - 1
  <2>1. c \in Levels(g.shape) /\ c + 1 = t
    BY <1>1, <1>4, LevelFacts
  <2>2. /\ \A budget : VacancyWithin(g, k, c, budget) = {}
        /\ \A budget : VacancyWithin(g, k, t, budget) = {}
    BY <1>2, <2>1
  <2>3. ChooseSlot(g, k, t) \in {{}, PairVacancy(g, k, c)}
    BY <1>4 DEF ChooseSlot
  <2> HIDE DEF c
  <2>4. PairVacancy(g, k, c) = {}
    BY <2>1, <2>2 DEF PairVacancy, UniformVacancy
  <2> QED BY <2>3, <2>4
<1> QED BY <1>3, <1>4

(* The key that neither its target nor any other target with room has a slot
   for has a slot with none: the counters overlook no slot. *)
LEMMA LastResortUnplaceable ==
  ASSUME NEW g \in Generation, Exact(g), NEW k \in Keys, NEW target,
         ChooseSlot(g, k, target) = {}, ChooseSlotOnOtherTargets(g, k, target) = {}
  PROVE  Unplaceable(g, k)
<1> DEFINE room(t) == \E l \in {t - 1, t} \cap Levels(g.shape) : FreeSlots(g, l) > 0
           others == {t \in Levels(g.shape) : t # target /\ room(t)}
           choices == [t \in others |-> ChooseSlot(g, k, t)]
           found == {t \in DOMAIN choices : choices[t] # {}}
<1>1. UNION {choices[t] : t \in First(found)} = {}
  BY Zenon DEF ChooseSlotOnOtherTargets, FirstChoice
<1>2. found \in SUBSET Nat /\ found = {t \in others : ChooseSlot(g, k, t) # {}}
  BY LevelFacts DEF Generation
<1>3. \A t \in found : choices[t] = ChooseSlot(g, k, t) /\ choices[t] # {}
  OBVIOUS
<1>4. found = {}
  <2> HIDE DEF found, choices
  <2>1. \A t \in First(found) : choices[t] = {}
    BY <1>1
  <2>2. found # {} => \E t \in found : \A y \in found : t <= y
    BY <1>2, LeastNat
  <2> QED BY <1>3, <2>1, <2>2 DEF First
<1>5. ASSUME NEW t \in Levels(g.shape) PROVE ChooseSlot(g, k, t) = {}
  <2>1. CASE t = target
    BY <2>1
  <2>2. CASE t # target /\ room(t)
    BY <1>2, <1>4, <2>2
  <2>3. CASE ~room(t)
    BY <2>3, NoRoomNoChoice
  <2> QED BY <2>1, <2>2, <2>3
<1> QED BY <1>5 DEF Unplaceable

------------------------------------------------------------------------------
(* The steps.                                                              *)

LEMMA AccountedPlain ==
  ASSUME call.at # "rebuild", Live(Owner') \subseteq Live(Owner),
         epoch'.recoveries = epoch.recoveries
  PROVE  Accounted
BY DEF Accounted, OwesRecovery

LEMMA FlagPlain == call'.at # "rebuild" => FlagInv'
BY DEF FlagInv

LEMMA FlagRebuilding ==
  ASSUME NEW old, NEW shape, NEW tr, NEW rest \in Call, StartRebuild(old, shape, tr, rest),
         ~rest.recovered
  PROVE  FlagInv' /\ Owner' = old
<1>1. /\ previous' = old /\ call'.at = "rebuild" /\ call'.recovered = rest.recovered
      /\ ~table'.exceptional
  BY DEF StartRebuild, Call, Fresh
<1> QED BY <1>1, OwnerIs DEF FlagInv

(* A placement adds its key, and owes what the choices of the key say. *)
LEMMA AccountedPlaced ==
  ASSUME Inv, call.at # "rebuild", call.then # "recovered",
         NEW k \in Keys, NEW v, NEW h, NEW e, Placed(k, v, h, e),
         NEW s \in Slot, Stores(table, h, s, k),
         e.recoveries = IF Unplaceable(table, k) THEN SaturatingSucc(epoch.recoveries, RecMax)
                        ELSE epoch.recoveries
  PROVE  Accounted /\ FlagInv'
<1>1. /\ table' = h /\ epoch' = e /\ call'.at = "idle" /\ table \in Generation
  BY CallFacts DEF Placed, Inv, TypeOK
<1>2. Owner = table /\ Owner' = h
  BY <1>1, OwnerIs
<1>3. Live(h) \ Live(table) = {s} /\ h.ctrl[s] = k
  BY <1>1, StoresLive
<1>4. OwesRecovery <=> Unplaceable(table, k)
  BY <1>2, <1>3 DEF OwesRecovery
<1> QED BY <1>1, <1>4, FlagPlain DEF Accounted

LEMMA AccountedPlaceAbsent ==
  ASSUME Inv, Exact(table), call.at # "rebuild", call.then # "recovered",
         NEW k \in Keys, NEW v \in Vals \cup {None}, PlaceAbsent(k, v)
  PROVE  Accounted /\ FlagInv'
<1> DEFINE g == Synced(table)
<1>1. table \in Generation /\ Good(table) /\ epoch \in Epoch
  BY DEF Inv, TypeOK
<1>2. /\ g \in Generation /\ Good(g) /\ Same(table, g) /\ SameCounts(table, g)
      /\ g.scheduler.index \in Nat
  BY <1>1, SyncedFacts, SyncedCounts DEF Good
<1>3. \A t : ChooseSlot(g, k, t) = ChooseSlot(table, k, t)
  BY <1>1, SyncedChoice
<1>4. Exact(g)
  BY <1>1, <1>2, SameCountsFacts
<1> HIDE DEF g
<1>5. Unplaceable(g, k) <=> Unplaceable(table, k)
  BY <1>2, <1>3 DEF Unplaceable, Same
<1>6. ASSUME NEW p, Choice(g, k, p), ~Unplaceable(g, k),
             Placed(k, v, PlaceNewEntry(g, p, k, v), epoch)
      PROVE  Accounted /\ FlagInv'
  <2>1. PICK s \in Slot : Stores(g, PlaceNewEntry(g, p, k, v), s, k)
    BY <1>2, <1>6, PlaceNewEntryFacts
  <2>2. Stores(table, PlaceNewEntry(g, p, k, v), s, k)
    BY <1>2, <2>1, PlacedSynced
  <2> QED BY <1>5, <1>6, <2>2, AccountedPlaced
<1>7. ASSUME NEW t \in Nat, NEW p \in ChooseSlot(g, k, t)
      PROVE  Choice(g, k, p) /\ ~Unplaceable(g, k)
  BY <1>2, <1>7, ChooseSlotFacts, TargetsChoose DEF Unplaceable
<1>8. ASSUME NEW p \in ChooseSlotOnOtherTargets(g, k, g.scheduler.index)
      PROVE  Choice(g, k, p) /\ ~Unplaceable(g, k)
  <2>1. \E t \in Levels(g.shape) : p \in ChooseSlot(g, k, t)
    BY <1>8 DEF ChooseSlotOnOtherTargets, FirstChoice, First
  <2> QED BY <1>2, <1>8, <2>1, OtherTargetFacts DEF Unplaceable
<1>9. ASSUME NEW s \in FirstFreeSlot(g), Unplaceable(g, k),
             Placed(k, v, PlaceExceptional(g, s, k, v), NotePlacementRecovery(epoch))
      PROVE  Accounted /\ FlagInv'
  <2>1. s \in Slot /\ Stores(table, PlaceExceptional(g, s, k, v), s, k)
    BY <1>2, PlaceExceptionalFacts, PlacedSynced
  <2>2. NotePlacementRecovery(epoch).recoveries = SaturatingSucc(epoch.recoveries, RecMax)
    BY <1>1, RecoveryFacts
  <2> QED BY <1>5, <1>9, <2>1, <2>2, AccountedPlaced
<1> DEFINE rest == [Idle EXCEPT !.then = "recovered", !.key = k, !.val = v]
<1>10. CASE StartRebuild(g, g.shape, "PlacementRecovery", rest) /\ UNCHANGED epoch
  <2>1. rest \in Call /\ ~rest.recovered
    BY DEF Idle, Call, Transition
  <2> HIDE DEF rest
  <2>2. FlagInv' /\ Owner' = g
    BY <1>10, <2>1, FlagRebuilding
  <2>3. Live(g) = Live(table) /\ Owner = table
    BY <1>2, OwnerIs DEF Same, Live
  <2> QED BY <1>10, <2>2, <2>3, AccountedPlain
<1>11. ASSUME ChooseSlot(g, k, g.scheduler.index) = {},
              ChooseSlotOnOtherTargets(g, k, g.scheduler.index) = {}
       PROVE  Unplaceable(g, k)
  BY <1>2, <1>4, <1>11, LastResortUnplaceable
<1> HIDE DEF rest
<1>12. CASE /\ ChooseSlot(g, k, g.scheduler.index) = {}
            /\ PlaceAfterTargetFailure(k, v, g)
  <2>1. \/ \E p \in ChooseSlotOnOtherTargets(g, k, g.scheduler.index) :
             Placed(k, v, PlaceNewEntry(g, p, k, v), epoch)
        \/ /\ ChooseSlotOnOtherTargets(g, k, g.scheduler.index) = {}
           /\ \E s \in FirstFreeSlot(g) :
                Placed(k, v, PlaceExceptional(g, s, k, v), NotePlacementRecovery(epoch))
        \/ StartRebuild(g, g.shape, "PlacementRecovery", rest) /\ UNCHANGED epoch
    BY <1>12 DEF PlaceAfterTargetFailure, rest
  <2> QED BY <1>6, <1>8, <1>9, <1>10, <1>11, <1>12, <2>1
<1>13. CASE \E p \in ChooseSlot(g, k, g.scheduler.index) :
              Placed(k, v, PlaceNewEntry(g, p, k, v), epoch)
  BY <1>2, <1>6, <1>7, <1>13
<1> QED BY <1>12, <1>13 DEF PlaceAbsent, g

LEMMA AccountedInsertAbsent ==
  ASSUME Inv, Exact(table), call = Idle, NEW k \in Keys, NEW v \in Vals,
         InsertAbsent(k, v)
  PROVE  Accounted /\ FlagInv'
<1> DEFINE rest == [Idle EXCEPT !.then = "grown", !.key = k, !.val = v]
<1>1. CASE StartRebuild(table, table.shape + 1, "Growth", rest) /\ UNCHANGED epoch
  <2>1. rest \in Call /\ ~rest.recovered
    BY DEF Idle, Call, Transition
  <2> HIDE DEF rest
  <2>2. FlagInv' /\ Owner' = table /\ Owner = table /\ call.at # "rebuild"
    BY <1>1, <2>1, FlagRebuilding, OwnerIs, CallFacts
  <2> QED BY <1>1, <2>2, AccountedPlain
<1>2. CASE PlaceAbsent(k, v)
  BY <1>2, CallFacts, AccountedPlaceAbsent
<1> QED BY <1>1, <1>2 DEF InsertAbsent

LEMMA AccountedSettle ==
  ASSUME call.at # "rebuild", NEW g \in Generation, Live(g) \subseteq Live(table),
         NEW needsCleanup, Settle(g, needsCleanup), epoch'.recoveries = epoch.recoveries
  PROVE  Accounted /\ FlagInv'
<1>1. Owner = table
  BY OwnerIs
<1>2. CASE StartRebuild(g, g.shape, "TombstoneCleanup", Idle)
  <2>1. Idle \in Call /\ ~Idle.recovered
    BY CallFacts DEF Idle
  <2> QED BY <1>1, <1>2, <2>1, FlagRebuilding, AccountedPlain
<1>3. CASE table' = ClearMembership(g) /\ call' = Scanning("refresh")
  <2>1. Owner' = table' /\ call'.at = "refresh"
    BY <1>3, CallFacts, OwnerIs DEF FaultPoints
  <2>2. Live(table') = Live(g)
    BY <1>3 DEF ClearMembership, Generation, Live
  <2> QED BY <1>1, <2>1, <2>2, AccountedPlain, FlagPlain
<1>4. CASE table' = g /\ call' = Idle
  BY <1>1, <1>4, CallFacts, OwnerIs, AccountedPlain, FlagPlain
<1> QED BY <1>2, <1>3, <1>4 DEF Settle

LEMMA AccountedRebuildStep ==
  ASSUME Inv, FlagInv, RebuildStep
  PROVE  Accounted /\ FlagInv'
<1> DEFINE g == Synced(table)
           choice(s) == ChooseSlot(g, previous.ctrl[s], g.scheduler.index)
<1>1. /\ call.at = "rebuild" /\ call \in Call /\ UNCHANGED <<previous, epoch>>
      /\ table \in Generation /\ g \in Generation
      /\ (table.exceptional <=> call.recovered)
  BY SyncedFacts DEF RebuildStep, Inv, TypeOK, Good, FlagInv
<1>2. PICK s \in NextLive(previous) :
        /\ \/ /\ choice(s) # {}
              /\ \E p \in choice(s) :
                   table' = PlaceNewEntry(g, p, previous.ctrl[s], previous.data[s])
           \/ /\ choice(s) = {}
              /\ \E t : table' = PlaceExceptional(g, t, previous.ctrl[s], previous.data[s])
        /\ call' = [call EXCEPT !.cursor = s, !.recovered = @ \/ choice(s) = {}]
  BY DEF RebuildStep
<1>3. call'.at = "rebuild" /\ call'.recovered = (call.recovered \/ choice(s) = {})
  <2> HIDE DEF choice
  <2> QED BY <1>1, <1>2 DEF Call
<1>4. g.exceptional = table.exceptional
  BY <1>1 DEF Synced, Generation
<1> HIDE DEF g, choice
<1>5. table'.exceptional = (table.exceptional \/ choice(s) = {})
  <2>1. ASSUME NEW p, table' = PlaceNewEntry(g, p, previous.ctrl[s], previous.data[s])
        PROVE  table'.exceptional = table.exceptional
    BY <1>1, <1>4, <2>1, PlacementFlag
  <2>2. ASSUME NEW t, table' = PlaceExceptional(g, t, previous.ctrl[s], previous.data[s])
        PROVE  table'.exceptional = TRUE
    BY <1>1, <2>2, LastResortFlag
  <2>3. table.exceptional \in BOOLEAN
    BY <1>1 DEF Generation
  <2> QED BY <1>2, <2>1, <2>2, <2>3
<1>6. FlagInv'
  BY <1>1, <1>3, <1>5 DEF FlagInv
<1> QED BY <1>1, <1>3, <1>6 DEF Accounted, OwesRecovery

LEMMA AccountedRebuildCommit ==
  ASSUME Inv, FlagInv, RebuildCommit
  PROVE  Accounted /\ FlagInv'
<1> DEFINE owed == call.transition = "PlacementRecovery" \/ call.recovered
<1>1. /\ call.at = "rebuild" /\ call \in Call /\ epoch \in Epoch /\ table' = table
      /\ (table.exceptional <=> call.recovered) /\ owed \in BOOLEAN
      /\ epoch' = StartEpoch(epoch, call.transition, owed)
      /\ call'.at # "rebuild"
  BY CallFacts DEF RebuildCommit, Inv, TypeOK, FlagInv, Call
<1>2. owed <=> OwesRecovery
  BY <1>1 DEF OwesRecovery
<1> HIDE DEF owed
<1>3. epoch'.recoveries = IF owed THEN SaturatingSucc(epoch.recoveries, RecMax)
                          ELSE epoch.recoveries
  BY <1>1, RecoveryFacts
<1> QED BY <1>1, <1>2, <1>3, FlagPlain DEF Accounted

(* An abandoned rebuild never leaves the new generation installed: fewer
   entries have moved than the old one holds. *)
LEMMA AccountedRebuildPanic ==
  ASSUME Inv, TallyInv, RebuildPanic
  PROVE  Accounted /\ FlagInv'
<1>1. /\ call.at = "rebuild" /\ table' = previous /\ call' = Idle /\ epoch' = epoch
      /\ ~ScanDone(previous) /\ RebuildCounts
  BY DEF RebuildPanic, TallyInv
<1>2. table # previous
  <2>1. PICK s \in Live(previous) : s \notin Passed
    BY <1>1 DEF ScanDone, Passed
  <2>2. Passed \subseteq Live(previous) /\ Passed # Live(previous)
    BY <2>1 DEF Passed
  <2>3. IsFiniteSet(Live(previous))
    BY SizeType, SlotsFinite
  <2>4. Cardinality(Passed) # Cardinality(Live(previous))
    BY <2>2, <2>3, FS_Subset
  <2>5. Size(table) = Cardinality(Passed)
    BY <1>1 DEF RebuildCounts, Exact
  <2> QED BY <2>4, <2>5 DEF Size
<1> QED BY <1>1, <1>2, CallFacts, FlagPlain DEF Accounted, OwesRecovery

LEMMA AccountedInit == Init => FlagInv
BY CallFacts DEF Init, FlagInv

LEMMA AccountedNext ==
  ASSUME "drain" \notin Faults, Inv, TallyInv, FlagInv, Next
  PROVE  Accounted /\ FlagInv'
<1>1. /\ table \in Generation /\ Good(table) /\ call \in Call /\ epoch \in Epoch
      /\ Idle.at = "idle" /\ Idle \in Call /\ ~Idle.recovered
      /\ table.schedule \subseteq Routes[table.shape]
      /\ call.at \notin {"rebuild", "drain"} => Exact(table)
  BY CallFacts DEF Inv, TypeOK, Good, Scheduled, RoutesBetween, TallyInv, Tally, Idle
<1>2. ASSUME call.at # "rebuild", call'.at # "rebuild",
             Live(table') \subseteq Live(table), epoch'.recoveries = epoch.recoveries
      PROVE  Accounted /\ FlagInv'
  BY <1>2, OwnerIs, AccountedPlain, FlagPlain
<1>3. ASSUME NEW k \in Keys, NEW v \in Vals, Insert(k, v) \/ EntryOrInsert(k, v)
      PROVE  Accounted /\ FlagInv'
  <2>1. call = Idle
    BY <1>3 DEF Insert, EntryOrInsert
  <2>2. ASSUME NEW s, table' = [table EXCEPT !.data[s] = v], UNCHANGED <<call, epoch>>
        PROVE  Accounted /\ FlagInv'
    <3>1. Live(table') = Live(table)
      BY <1>1, <2>2 DEF Generation, Live
    <3> QED BY <1>1, <1>2, <2>1, <2>2, <3>1
  <2>3. ASSUME UNCHANGED <<table, call, epoch>> PROVE Accounted /\ FlagInv'
    BY <1>1, <1>2, <2>1, <2>3
  <2>4. ASSUME InsertAbsent(k, v) PROVE Accounted /\ FlagInv'
    BY <1>1, <2>1, <2>4, AccountedInsertAbsent
  <2>5. CASE Insert(k, v)
    BY <2>2, <2>4, <2>5 DEF Insert
  <2>6. CASE EntryOrInsert(k, v)
    BY <2>3, <2>4, <2>6 DEF EntryOrInsert
  <2> QED BY <1>3, <2>5, <2>6
<1>4. ASSUME NEW k \in Keys, Get(k) PROVE Accounted /\ FlagInv'
  BY <1>1, <1>2, <1>4 DEF Get
<1>5. ASSUME NEW s \in Live(table)
      PROVE  /\ ExtractFinish(table, s) \in Generation
             /\ Live(ExtractFinish(table, s)) \subseteq Live(table)
             /\ Live(TombstoneSlot(table, s)) \subseteq Live(table)
  <2>1. Shrunk(table, ExtractFinish(table, s)) /\ Shrunk(table, TombstoneSlot(table, s))
    BY <1>1, ExtractFacts, TombstoneFacts DEF Shrunk, Live
  <2> QED BY <2>1, ShrunkKept, KeptLive DEF Shrunk
<1>6. ASSUME NEW k \in Keys, Remove(k) PROVE Accounted /\ FlagInv'
  <2>1. call = Idle
    BY <1>6 DEF Remove
  <2>2. ASSUME NEW s \in Find(table, k), NEW needsCleanup,
               Settle(ExtractFinish(table, s), needsCleanup), epoch' = NoteDelete(epoch)
        PROVE  Accounted /\ FlagInv'
    <3>1. s \in Live(table)
      BY <1>1, FindHoldsKey DEF Live
    <3>2. epoch'.recoveries = epoch.recoveries
      BY <1>1, <2>2, RecoveryFacts
    <3> QED BY <1>1, <1>5, <2>1, <2>2, <3>1, <3>2, AccountedSettle
  <2>3. CASE UNCHANGED <<table, previous, call, epoch>>
    BY <1>1, <1>2, <2>1, <2>3
  <2> QED BY <1>6, <2>2, <2>3 DEF Remove
<1>7. ASSUME NEW at \in {"clear", "drain", "extract"}, StartScan(at)
      PROVE  Accounted /\ FlagInv'
  <2>1. call'.at = at
    BY <1>7, CallFacts DEF StartScan, FaultPoints
  <2> QED BY <1>1, <1>2, <1>7, <2>1 DEF StartScan
<1>8. ASSUME NEW n, Reserve(n) \/ ShrinkTo(n) PROVE Accounted /\ FlagInv'
  <2>1. PICK shape : Resize(shape)
    BY <1>8 DEF Reserve, ShrinkTo
  <2>2. call.at # "rebuild" /\ Owner = table /\ epoch' = epoch
    BY <1>1, <1>8, <2>1, OwnerIs DEF Reserve, ShrinkTo, Resize
  <2>3. Owner' = table /\ FlagInv'
    BY <1>1, <2>1, FlagRebuilding DEF Resize
  <2> QED BY <2>2, <2>3, AccountedPlain
<1>9. CASE RebuildStep
  BY <1>9, AccountedRebuildStep
<1>10. CASE RebuildCommit
  BY <1>10, AccountedRebuildCommit
<1>11. CASE RebuildPanic
  BY <1>11, AccountedRebuildPanic
<1>12. CASE ResumePlace
  <2>1. PICK k \in Keys, v \in Vals \cup {None} : k = call.key /\ v = call.val
    BY <1>1, <1>12 DEF Inv, CallInv, ResumePlace, Call
  <2>2. CASE call.then = "grown" /\ PlaceAbsent(k, v)
    BY <1>1, <1>12, <2>2, AccountedPlaceAbsent DEF ResumePlace
  <2>3. CASE call.then = "recovered"
    <3>1. epoch' = epoch /\ call' = Idle /\ call.at = "place"
      BY <1>12, <2>3 DEF ResumePlace, Placed
    <3> QED BY <1>1, <2>3, <3>1, FlagPlain DEF Accounted, OwesRecovery
  <2> QED BY <1>12, <2>1, <2>2, <2>3 DEF ResumePlace
<1>13. CASE RefreshStep \/ RefreshDone \/ RefreshPanic
  <2>1. call.at = "refresh" /\ epoch' = epoch
    BY <1>13 DEF RefreshStep, RefreshDone, RefreshPanic
  <2>2. Live(table') = Live(table)
    BY <1>1, <1>13 DEF RefreshStep, RefreshDone, RefreshPanic, RecordMembership,
                       Generation, Live
  <2>3. call'.at \in {"refresh", "idle"}
    BY <1>1, <1>13, <2>1 DEF RefreshStep, RefreshDone, RefreshPanic, Call
  <2> QED BY <1>2, <2>1, <2>2, <2>3
<1>14. CASE ClearStep \/ DrainStep
  <2>1. PICK s \in NextLive(table) : /\ call.at = "clear" => table' = DrainResetEntry(table, s)
                                     /\ call.at # "clear" => table' = TombstoneSlot(table, s)
    BY <1>14 DEF ClearStep, DrainStep
  <2>2. /\ call.at \in {"clear", "drain"} /\ epoch' = epoch
        /\ call'.at \in {"clear", "drain", "idle"}
    BY <1>1, <1>14 DEF ClearStep, DrainStep
  <2>3. s \in Live(table) /\ (call.at = "clear" => \A t \in Live(table) : s <= t)
    <3>1. s \in Live(table) /\ \A t \in Live(table) : t > call.cursor => s <= t
      BY <1>1, <2>1, NextLiveFacts
    <3>2. call.at = "clear" => call.cursor = 0
      BY DEF Inv, CallInv
    <3>3. \A t \in Live(table) : t > 0
      BY DEF Live, Slot
    <3> QED BY <3>1, <3>2, <3>3
  <2>4. Live(table') \subseteq Live(table)
    <3>1. CASE call.at = "clear"
      BY <1>1, <2>1, <2>3, <3>1, DrainResetSweeps DEF Sweeps
    <3>2. CASE call.at # "clear"
      BY <1>5, <2>1, <2>3, <3>2
    <3> QED BY <3>1, <3>2
  <2> QED BY <1>2, <2>2, <2>4
<1>15. CASE Wipe
  <2>1. /\ call.at \in {"clear", "drain"} /\ call' = Idle /\ ScanDone(table)
        /\ epoch' = StartOf(epoch, "Clear")
    BY <1>15 DEF Wipe
  <2>2. Live(table') = {}
    <3>1. CASE call.at = "clear"
      <4>1. table' = FinishClear(table) /\ call.cursor = 0
        BY <1>15, <3>1 DEF Wipe, Inv, CallInv
      <4>2. \A s \in Live(table) : s \in Nat /\ s > 0
        BY DEF Live, Slot
      <4>3. Live(table) = {}
        BY <2>1, <4>1, <4>2 DEF ScanDone
      <4> QED BY <1>1, <4>1, <4>3, FinishClearFacts
    <3>2. CASE call.at # "clear"
      <4>1. table' = WipeAll(table)
        BY <1>15, <3>2 DEF Wipe
      <4> QED BY <1>1, <4>1, WipeAllFacts
    <3> QED BY <3>1, <3>2
  <2>3. epoch'.recoveries = epoch.recoveries
    BY <1>1, <2>1, RecoveryFacts
  <2> QED BY <1>1, <1>2, <2>1, <2>2, <2>3
<1>16. CASE DrainAbandon \/ ExtractForget
  BY <1>1, <1>2, <1>16 DEF DrainAbandon, ExtractForget
<1>17. CASE ExtractStep
  <2>1. PICK s \in NextLive(table) :
          \/ UNCHANGED <<table, epoch>>
          \/ table' = ExtractFinish(table, s) /\ epoch' = NoteDelete(epoch)
    BY <1>17 DEF ExtractStep
  <2>2. call.at = "extract" /\ call'.at = "extract" /\ s \in Live(table)
    BY <1>1, <1>17, <2>1, NextLiveFacts DEF ExtractStep, Call
  <2>3. Live(table') \subseteq Live(table) /\ epoch'.recoveries = epoch.recoveries
    BY <1>1, <1>5, <2>1, <2>2, RecoveryFacts
  <2> QED BY <1>2, <2>2, <2>3
<1>18. CASE ExtractEnd
  <2>1. PICK needsCleanup : Settle(table, needsCleanup)
    BY <1>18 DEF ExtractEnd
  <2>2. call.at = "extract" /\ epoch' = epoch
    BY <1>18 DEF ExtractEnd
  <2> QED BY <1>1, <2>1, <2>2, AccountedSettle
<1> QED BY <1>3, <1>4, <1>6, <1>7, <1>8, <1>9, <1>10, <1>11, <1>12, <1>13,
           <1>14, <1>15, <1>16, <1>17, <1>18 DEF Next, Begin, Progress, Fault

(* Exactly the steps that owe a recovery count one, in a flagged generation
   too; a rebuild undone counts none.  The insert that takes the last resort
   in a flagged generation has asked only the targets with room by their
   level counters: that this overlooks no slot needs the counters exact, and
   so no drain abandoned. *)
THEOREM RecoveryCountedHolds ==
  ASSUME "drain" \notin Faults
  PROVE  Spec => RecoveryCounted
<1>1. Inv /\ TallyInv /\ FlagInv /\ [Next]_vars => FlagInv'
  <2>1. CASE UNCHANGED vars
    BY <2>1 DEF vars, FlagInv
  <2> QED BY <2>1, AccountedNext
<1>2. Inv /\ TallyInv /\ FlagInv /\ [Next]_vars => [Accounted]_vars
  BY AccountedNext
<1>3. [][Accounted]_vars => RecoveryCounted
  BY DEF RecoveryCounted, Accounted
<1> QED BY <1>1, <1>2, <1>3, AccountedInit, TallyInvariant, PTL DEF Spec
==============================================================================
