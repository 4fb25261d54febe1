-------------------------- MODULE FunnelMap_proofs --------------------------
(***************************************************************************)
(* The Funnel map implements MapSpec: what a caller sees is a partial      *)
(* function from keys to values, over rebuilds that commit or are undone,  *)
(* recoveries, deferred maintenance and bulk removals that user code cuts  *)
(* short, as long as no hasher panics inside a filter refresh.  And its    *)
(* counters: under every fault the live keys never exceed the count and    *)
(* the count never the insertion limit, so that every placement finds a    *)
(* free slot; unless a drain is abandoned both counters are exact, so that *)
(* the clean scan of insert sees every slot it may take.  The last section *)
(* reads off every step what it does to the count, the last-resort flag    *)
(* and the epoch of the generation in use.                                 *)
(***************************************************************************)
EXTENDS FunnelTable_proofs, FiniteSetTheorems

(* Every live slot holds a value. *)
Valued(g) == \A s \in Live(g) : g.data[s] \in Vals

(* A rebuild has moved the entries it has passed, as they were, and no other. *)
Copied ==
  \A t \in Live(table) : \E s \in Live(previous) :
     /\ s <= call.cursor
     /\ previous.ctrl[s] = table.ctrl[t] /\ previous.data[s] = table.data[t]
Complete ==
  \A s \in Live(previous) : s <= call.cursor =>
     \E t \in Live(table) : table.ctrl[t] = previous.ctrl[s]

(* A pending insert has its value; a bulk removal is what the caller last
   asked for, and clear and drain take the first entry left. *)
Pending ==
  /\ call.at = "place" \/ (call.at = "rebuild" /\ call.then # "return") => call.val \in Vals
  /\ call.at \in Bulk => event.op \in Bulk
  /\ call.at \in {"clear", "drain"} => call.cursor = 0

DataInv ==
  /\ Valued(table) /\ Pending
  /\ call.at = "rebuild" => Valued(previous) /\ Copied /\ Complete

------------------------------------------------------------------------------
(* The contents of a generation.                                           *)

(* h has the entries of g, in their slots. *)
SameEntries(g, h) == h.ctrl = g.ctrl /\ h.data = g.data

(* h is g with the entry of slot s, of key k and value v, and no other change. *)
Gains(g, h, s, k, v) ==
  Free(g, s) /\ h.ctrl = [g.ctrl EXCEPT ![s] = k] /\ h.data = [g.data EXCEPT ![s] = v]

(* h has the entries of g but for slot s. *)
Loses(g, h, s) ==
  /\ Live(h) = Live(g) \ {s}
  /\ \A t \in Live(h) : h.ctrl[t] = g.ctrl[t] /\ h.data[t] = g.data[t]

LEMMA ContentsAt ==
  ASSUME NEW g, Distinct(g), NEW s \in Live(g)
  PROVE  Contents(g)[g.ctrl[s]] = g.data[s]
<1>1. g.ctrl[s] \in Keys /\ s \in Slot
  BY DEF Live
<1>2. \A t \in Slot : g.ctrl[t] = g.ctrl[s] => t = s
  BY <1>1 DEF Distinct, Live
<1>3. (CHOOSE t \in Slot : g.ctrl[t] = g.ctrl[s]) = s
  BY <1>1, <1>2
<1> QED BY <1>1, <1>3 DEF Contents

LEMMA ContentsAbsent ==
  ASSUME NEW g, NEW k \in Keys, ~Holds(g, k)
  PROVE  Contents(g)[k] = None
BY DEF Contents, Holds, Live

LEMMA ContentsType == \A g : Contents(g) = [k \in Keys |-> Contents(g)[k]]
BY DEF Contents

(* Two generations with the same entries, wherever they are. *)
LEMMA ContentsEqual ==
  ASSUME NEW g, NEW h, Distinct(g), Distinct(h),
         \A s \in Live(g) : \E t \in Live(h) : h.ctrl[t] = g.ctrl[s] /\ h.data[t] = g.data[s],
         \A t \in Live(h) : \E s \in Live(g) : h.ctrl[t] = g.ctrl[s]
  PROVE  Contents(h) = Contents(g)
<1>1. ASSUME NEW k \in Keys PROVE Contents(h)[k] = Contents(g)[k]
  <2>1. ASSUME NEW s \in Live(g), g.ctrl[s] = k PROVE Contents(h)[k] = Contents(g)[k]
    <3>1. PICK t \in Live(h) : h.ctrl[t] = k /\ h.data[t] = g.data[s]
      BY <2>1
    <3>2. Contents(h)[k] = h.data[t]
      BY <3>1, ContentsAt
    <3>3. Contents(g)[k] = g.data[s]
      BY <2>1, ContentsAt
    <3> QED BY <3>1, <3>2, <3>3
  <2>2. CASE ~Holds(g, k)
    <3>1. ~Holds(h, k)
      BY <2>2 DEF Holds
    <3> QED BY <2>2, <3>1, ContentsAbsent
  <2> QED BY <2>1, <2>2 DEF Holds
<1> QED BY <1>1, ContentsType

LEMMA ContentsSame ==
  ASSUME NEW g, NEW h, SameEntries(g, h)
  PROVE  Contents(h) = Contents(g) /\ (Valued(g) => Valued(h))
BY DEF SameEntries, Contents, Valued, Live

LEMMA ContentsEmpty ==
  ASSUME NEW g, Live(g) = {}
  PROVE  Contents(g) = [k \in Keys |-> None] /\ Valued(g)
<1>1. \A k \in Keys : Contents(g)[k] = None
  BY ContentsAbsent DEF Holds
<1> QED BY <1>1, ContentsType DEF Valued

LEMMA ContentsLost ==
  ASSUME NEW g, NEW h, NEW s \in Live(g), Distinct(g), Loses(g, h, s)
  PROVE  /\ Contents(h) = [Contents(g) EXCEPT ![g.ctrl[s]] = None]
         /\ Valued(g) => Valued(h)
<1>1. Distinct(h)
  BY DEF Distinct, Loses
<1>2. ASSUME NEW k \in Keys
      PROVE  Contents(h)[k] = IF k = g.ctrl[s] THEN None ELSE Contents(g)[k]
  <2>1. CASE k = g.ctrl[s]
    <3>1. ~Holds(h, k)
      BY <2>1 DEF Holds, Loses, Distinct
    <3> QED BY <2>1, <3>1, ContentsAbsent
  <2>2. ASSUME NEW t \in Live(h), h.ctrl[t] = k
        PROVE  k # g.ctrl[s] /\ Contents(h)[k] = Contents(g)[k]
    <3>1. t \in Live(g) /\ t # s /\ h.ctrl[t] = g.ctrl[t] /\ h.data[t] = g.data[t]
      BY <2>2 DEF Loses
    <3>2. Contents(h)[k] = h.data[t] /\ Contents(g)[k] = g.data[t]
      BY <1>1, <2>2, <3>1, ContentsAt
    <3> QED BY <2>2, <3>1, <3>2 DEF Distinct
  <2>3. CASE k # g.ctrl[s] /\ ~Holds(h, k)
    <3>1. ~Holds(g, k)
      BY <2>3 DEF Holds, Loses
    <3> QED BY <2>3, <3>1, ContentsAbsent
  <2> QED BY <2>1, <2>2, <2>3 DEF Holds
<1>3. Contents(h) = [Contents(g) EXCEPT ![g.ctrl[s]] = None]
  BY <1>2, ContentsType
<1> QED BY <1>3 DEF Valued, Loses

LEMMA GainsLive ==
  ASSUME NEW g \in Generation, NEW h, NEW s \in Slot, NEW k \in Keys, NEW v,
         Gains(g, h, s, k, v)
  PROVE  /\ Live(h) = Live(g) \cup {s} /\ s \notin Live(g)
         /\ h.ctrl[s] = k /\ h.data[s] = v
         /\ \A t \in Live(g) : h.ctrl[t] = g.ctrl[t] /\ h.data[t] = g.data[t]
<1>1. h.ctrl[s] = k /\ h.data[s] = v
  BY DEF Gains, Generation
<1>2. \A t \in Slot : t # s => h.ctrl[t] = g.ctrl[t] /\ h.data[t] = g.data[t]
  BY DEF Gains, Generation
<1>3. s \notin Live(g)
  BY FreeAssumption DEF Gains, Free, Live
<1>4. Live(h) = Live(g) \cup {s}
  BY <1>1, <1>2 DEF Live
<1> QED BY <1>1, <1>2, <1>3, <1>4 DEF Live

LEMMA ContentsGained ==
  ASSUME NEW g \in Generation, NEW h, NEW s \in Slot, NEW k \in Keys, NEW v \in Vals,
         Distinct(g), ~Holds(g, k), Gains(g, h, s, k, v)
  PROVE  /\ Contents(h) = [Contents(g) EXCEPT ![k] = v]
         /\ Valued(g) => Valued(h)
<1>1. /\ Live(h) = Live(g) \cup {s} /\ s \notin Live(g)
      /\ h.ctrl[s] = k /\ h.data[s] = v
      /\ \A t \in Live(g) : h.ctrl[t] = g.ctrl[t] /\ h.data[t] = g.data[t]
  BY GainsLive
<1>2. Distinct(h)
  BY <1>1 DEF Distinct, Holds
<1>3. ASSUME NEW x \in Keys
      PROVE  Contents(h)[x] = IF x = k THEN v ELSE Contents(g)[x]
  <2>1. CASE x = k
    <3>1. s \in Live(h)
      BY <1>1
    <3> QED BY <1>1, <1>2, <2>1, <3>1, ContentsAt
  <2>2. ASSUME NEW t \in Live(g), g.ctrl[t] = x
        PROVE  x # k /\ Contents(h)[x] = Contents(g)[x]
    <3>1. t \in Live(h) /\ h.ctrl[t] = x /\ h.data[t] = g.data[t]
      BY <1>1, <2>2
    <3>2. Contents(h)[x] = h.data[t] /\ Contents(g)[x] = g.data[t]
      BY <1>2, <2>2, <3>1, ContentsAt
    <3> QED BY <2>2, <3>1, <3>2 DEF Holds
  <2>3. CASE x # k /\ ~Holds(g, x)
    <3>1. ~Holds(h, x)
      BY <1>1, <2>3 DEF Holds
    <3> QED BY <2>3, <3>1, ContentsAbsent
  <2> QED BY <2>1, <2>2, <2>3 DEF Holds
<1>4. Contents(h) = [Contents(g) EXCEPT ![k] = v]
  BY <1>3, ContentsType
<1>5. Valued(g) => Valued(h)
  BY <1>1 DEF Valued
<1> QED BY <1>4, <1>5

(* An insert that finds its key replaces the value. *)
LEMMA ContentsReplaced ==
  ASSUME NEW g \in Generation, NEW s \in Live(g), NEW v \in Vals, Distinct(g)
  PROVE  LET h == [g EXCEPT !.data[s] = v]
         IN  /\ Contents(h) = [Contents(g) EXCEPT ![g.ctrl[s]] = v]
             /\ Valued(g) => Valued(h)
<1> DEFINE h == [g EXCEPT !.data[s] = v]
<1>1. /\ h.ctrl = g.ctrl /\ h.data = [g.data EXCEPT ![s] = v] /\ s \in Slot
  BY DEF Generation, Live
<1> HIDE DEF h
<1>2. /\ Live(h) = Live(g) /\ h.data[s] = v
      /\ \A t \in Live(g) : t # s => h.data[t] = g.data[t]
  BY <1>1 DEF Live, Generation
<1>3. Distinct(h)
  BY <1>1, <1>2 DEF Distinct
<1>4. ASSUME NEW k \in Keys
      PROVE  Contents(h)[k] = IF k = g.ctrl[s] THEN v ELSE Contents(g)[k]
  <2>1. ASSUME NEW t \in Live(g), g.ctrl[t] = k
        PROVE  Contents(h)[k] = IF k = g.ctrl[s] THEN v ELSE Contents(g)[k]
    <3>0. t \in Live(h) /\ h.ctrl[t] = k
      BY <1>1, <1>2, <2>1
    <3>1. Contents(h)[k] = h.data[t] /\ Contents(g)[k] = g.data[t]
      BY <1>3, <2>1, <3>0, ContentsAt
    <3>2. k = g.ctrl[s] => t = s
      BY <2>1 DEF Distinct
    <3>3. t = s => k = g.ctrl[s]
      BY <2>1
    <3> QED BY <1>2, <3>1, <3>2, <3>3
  <2>2. CASE ~Holds(g, k)
    <3>1. ~Holds(h, k) /\ k # g.ctrl[s]
      BY <1>1, <1>2, <2>2 DEF Holds
    <3> QED BY <2>2, <3>1, ContentsAbsent
  <2> QED BY <2>1, <2>2 DEF Holds
<1>5. Contents(h) = [Contents(g) EXCEPT ![g.ctrl[s]] = v]
  BY <1>4, ContentsType
<1>6. Valued(g) => Valued(h)
  BY <1>2 DEF Valued
<1> QED BY <1>5, <1>6 DEF h

------------------------------------------------------------------------------
(* What the writes do to the entries.                                      *)

LEMMA PlaceNewEntryGains ==
  ASSUME NEW g \in Generation, NEW s \in Slot, NEW k \in Keys, NEW v, NEW outside, Free(g, s)
  PROVE  Gains(g, PlaceNewEntry(g, s, k, v, outside), s, k, v)
<1> DEFINE r == RecordMembership(g, k, s)
<1>1. r \in Generation /\ r.ctrl = g.ctrl /\ r.data = g.data
  BY RecordFacts DEF Recording
<1> HIDE DEF r
<1>2. /\ PlaceNewEntry(g, s, k, v, outside).ctrl = [r.ctrl EXCEPT ![s] = k]
      /\ PlaceNewEntry(g, s, k, v, outside).data = [r.data EXCEPT ![s] = v]
  BY <1>1 DEF PlaceNewEntry, Generation, r
<1> QED BY <1>1, <1>2 DEF Gains

(* A removal, a slot of clear and a slot of a drain. *)
LEMMA RemovalLoses ==
  ASSUME NEW g \in Generation, NEW s \in Live(g)
  PROVE  /\ Loses(g, TombstoneSlot(g, s), s)
         /\ Loses(g, ExtractFinish(g, s), s)
         /\ Loses(g, ClearSlot(g, s), s)
<1> DEFINE h == TombstoneSlot(g, s)
<1>1. h.ctrl = [g.ctrl EXCEPT ![s] = TOMBSTONE] /\ h.data = [g.data EXCEPT ![s] = None]
  BY DEF TombstoneSlot, Generation
<1>2. SameEntries(h, ExtractFinish(g, s)) /\ SameEntries(h, ClearSlot(g, s))
  <2>1. h \in Generation
    BY RemoveFacts DEF Emptied, Live
  <2> QED BY <2>1 DEF ExtractFinish, ClearSlot, SameEntries, Generation
<1> HIDE DEF h
<1>3. /\ s \in Slot /\ h.ctrl[s] = TOMBSTONE
      /\ \A t \in Slot : t # s => h.ctrl[t] = g.ctrl[t] /\ h.data[t] = g.data[t]
  BY <1>1 DEF Live, Generation
<1>4. Live(h) = Live(g) \ {s}
  BY <1>3, FreeAssumption DEF Live
<1>5. Loses(g, h, s)
  BY <1>3, <1>4 DEF Loses, Live
<1> QED BY <1>2, <1>5 DEF Loses, SameEntries, Live, h

------------------------------------------------------------------------------
(* The steps of MapSpec, on the contents of the owner.                     *)

LEMMA OwnerFacts ==
  /\ call.at # "rebuild" => Contents(Owner) = Contents(table)
  /\ call.at = "rebuild" => Contents(Owner) = Contents(previous)
  /\ call'.at # "rebuild" => Contents(Owner)' = Contents(table')
  /\ call'.at = "rebuild" => Contents(Owner)' = Contents(previous')
BY DEF Owner, Contents

(* The caller sees no change, or the end of a call without an answer. *)
LEMMA SilentStep ==
  ASSUME Contents(Owner)' = Contents(Owner), event' \in {event, Quiet}
  PROVE  [Map!Next]_Map!vars
BY DEF Map!Next, Map!Silent, Map!vars, Map!Quiet, Map!Answered, Quiet, Answered

LEMMA AnswerStep ==
  ASSUME NEW k \in Keys, Contents(Owner)' = Contents(Owner),
         event' = Answered("get", k, None, Contents(Owner)[k])
  PROVE  [Map!Next]_Map!vars
BY DEF Map!Next, Map!Get, Map!Answered, Answered

LEMMA BulkStep ==
  ASSUME NEW op \in Bulk, Contents(Owner)' = Contents(Owner), event' = Bulky(op)
  PROVE  [Map!Next]_Map!vars
BY DEF Map!Next, Map!Start, Map!Answered, Answered, Map!Bulky, Bulky, Map!Bulk, Bulk

LEMMA StoreStep ==
  ASSUME NEW k \in Keys, NEW v \in Vals,
         Contents(Owner)' = [Contents(Owner) EXCEPT ![k] = v],
         event' = Answered("insert", k, v, Contents(Owner)[k])
  PROVE  [Map!Next]_Map!vars
BY DEF Map!Next, Map!Insert, Map!Answered, Answered

LEMMA RemoveStep ==
  ASSUME NEW k \in Keys, Contents(Owner)' = [Contents(Owner) EXCEPT ![k] = None],
         event' = Answered("remove", k, None, Contents(Owner)[k])
  PROVE  [Map!Next]_Map!vars
BY DEF Map!Next, Map!Remove, Map!Answered, Answered

LEMMA DiscardStep ==
  ASSUME NEW k \in Keys, Contents(Owner)' = [Contents(Owner) EXCEPT ![k] = None],
         event' = event, event.op \in Bulk, Contents(Owner)[k] # None
  PROVE  [Map!Next]_Map!vars
BY DEF Map!Next, Map!Discard, Map!Bulk, Bulk

(* Keys that are absent are removed without effect. *)
LEMMA RemoveAbsent ==
  ASSUME NEW g, NEW k \in Keys, ~Holds(g, k)
  PROVE  [Contents(g) EXCEPT ![k] = None] = Contents(g)
BY ContentsAbsent, ContentsType

------------------------------------------------------------------------------
(* Every step is one of MapSpec, and moves the entries as they are.        *)

Sound == TypeInv /\ ReachInv /\ MapInv /\ DataInv

LEMMA SoundTable ==
  ASSUME Sound
  PROVE  /\ table \in Generation /\ Reach(table) /\ Distinct(table) /\ Valued(table)
         /\ call \in Call /\ epoch \in Epoch
         /\ call.at # "refresh" => Covered(table)
         /\ call.at # "rebuild" => previous = None
BY DEF Sound, TypeInv, TypeOK, ReachInv, MapInv, DataInv, Membership

(* A key is absent and neither search finds it, or both find it at the one
   slot that holds it. *)
LEMMA LookupFacts ==
  ASSUME Sound, call = Idle, NEW k \in Keys
  PROVE  \/ FindLocation(table, k) = {} /\ Locate(table, k) = {} /\ ~Holds(table, k)
         \/ \E s \in Live(table) : /\ FindLocation(table, k) = {s}
                                   /\ Locate(table, k) = {s} /\ table.ctrl[s] = k
<1>1. table \in Generation /\ Reach(table) /\ Distinct(table) /\ Covered(table)
  BY SoundTable, CallFacts
<1>2. ASSUME NEW s \in Live(table), table.ctrl[s] = k
      PROVE  FindLocation(table, k) = {s} /\ Locate(table, k) = {s}
  BY <1>1, <1>2, SearchesComplete DEF Covered
<1>3. \A s \in FindLocation(table, k) \cup Locate(table, k) :
        s \in Live(table) /\ table.ctrl[s] = k
  BY <1>1, HitHoldsKey DEF Live
<1> QED BY <1>2, <1>3 DEF Holds

(* A lookup that hits answers what the contents say. *)
LEMMA HitFacts ==
  ASSUME Sound, call = Idle, NEW k \in Keys,
         NEW s \in FindLocation(table, k) \cup Locate(table, k)
  PROVE  /\ s \in Live(table) /\ table.ctrl[s] = k
         /\ FindLocation(table, k) = {s} /\ Locate(table, k) = {s}
         /\ Contents(table)[k] = table.data[s]
<1>1. /\ s \in Live(table) /\ table.ctrl[s] = k
      /\ FindLocation(table, k) = {s} /\ Locate(table, k) = {s}
  BY LookupFacts
<1> QED BY <1>1, SoundTable, ContentsAt

LEMMA PlainData ==
  ASSUME Valued(table'), call'.at \notin Bulk \cup {"rebuild", "place"}
  PROVE  DataInv'
BY DEF DataInv, Pending, Valued, Live, Bulk

(* The table is the owner before and after a step outside a rebuild. *)
LEMMA PlainContents ==
  ASSUME call.at # "rebuild", call'.at # "rebuild"
  PROVE  Contents(Owner) = Contents(table) /\ Contents(Owner)' = Contents(table')
BY OwnerFacts

LEMMA RebuildData ==
  ASSUME NEW old \in Generation, Valued(old), NEW shape \in Shapes, NEW tr \in Transition,
         NEW rest \in Call, StartRebuild(old, shape, tr, rest), rest.cursor = 0,
         rest.then # "return" => rest.val \in Vals
  PROVE  DataInv' /\ Contents(Owner)' = Contents(old)
<1>1. previous' = old /\ call' = [rest EXCEPT !.at = "rebuild", !.transition = tr]
  BY DEF StartRebuild
<1>2. /\ call'.at = "rebuild" /\ call'.then = rest.then /\ call'.val = rest.val
      /\ call'.cursor = 0
  BY <1>1 DEF Call
<1>3. Live(table') = {}
  BY StartRebuildFacts DEF Live
<1>4. Valued(table') /\ Valued(previous')
  BY <1>1, <1>3, ContentsEmpty
<1>5. \A s \in Live(previous') : ~(s <= 0)
  BY SlotFacts DEF Live, Slot
<1>6. Copied' /\ Complete'
  BY <1>2, <1>3, <1>5 DEF Copied, Complete, Live
<1>7. Pending'
  BY <1>2 DEF Pending, Bulk
<1>8. Contents(Owner)' = Contents(old)
  BY <1>1, <1>2, OwnerFacts
<1> QED BY <1>4, <1>6, <1>7, <1>8 DEF DataInv, Valued, Live

(* A rebuild begins for an insert: the caller sees nothing yet. *)
LEMMA RebuildForInsertData ==
  ASSUME Sound, call.at # "rebuild", NEW shape \in Shapes, NEW tr \in Transition,
         NEW rest \in Call, rest.cursor = 0, rest.val \in Vals,
         StartRebuild(table, shape, tr, rest), event' = Quiet
  PROVE  DataInv' /\ [Map!Next]_Map!vars
<1>1. DataInv' /\ Contents(Owner)' = Contents(table)
  BY SoundTable, RebuildData
<1>2. Contents(Owner) = Contents(table)
  BY OwnerFacts
<1> QED BY <1>1, <1>2, SilentStep

(* The slots a search may answer for an absent key. *)
Vacant(vacancy) == \A s \in vacancy : s \in Slot /\ Free(table, s)

LEMMA VacantFacts ==
  ASSUME table \in Generation, NEW k \in Keys, NEW p \in Seeds
  PROVE  /\ Vacant(SearchVacancy(table, p, k)) /\ Vacant(FirstFreeGlobal(table))
         /\ \A clean \in BOOLEAN : Vacant(ExactVacancy(table, p, k, clean))
BY VacancyIsFree DEF Vacant

LEMMA PlaceResolvedData ==
  ASSUME Sound, call.at # "rebuild", NEW k \in Keys, NEW v \in Vals, ~Holds(table, k),
         NEW vacancy, Vacant(vacancy), NEW rebuilt, PlaceResolved(k, v, vacancy, rebuilt)
  PROVE  DataInv' /\ [Map!Next]_Map!vars
<1>1. table \in Generation /\ Distinct(table) /\ Valued(table)
  BY SoundTable
<1>2. PICK s \in ResolveVacancy(table, vacancy) :
        table' = PlaceNewEntry(table, s, k, v, vacancy = {})
  BY DEF PlaceResolved
<1>3. s \in Slot /\ Free(table, s)
  BY <1>1, SlotFacts, VacantFacts DEF ResolveVacancy, Vacant
<1>4. Gains(table, table', s, k, v)
  BY <1>1, <1>2, <1>3, PlaceNewEntryGains
<1>5. Contents(table') = [Contents(table) EXCEPT ![k] = v] /\ Valued(table')
  BY <1>1, <1>3, <1>4, ContentsGained
<1>6. call' = Idle /\ Idle.at = "idle" /\ event' = Answered("insert", k, v, None)
  BY CallFacts DEF PlaceResolved
<1>7. Contents(Owner) = Contents(table) /\ Contents(Owner)' = Contents(table')
  BY <1>6, PlainContents
<1>8. Contents(table)[k] = None
  BY ContentsAbsent
<1>9. DataInv'
  BY <1>5, <1>6, PlainData DEF Bulk
<1> QED BY <1>5, <1>6, <1>7, <1>8, <1>9, StoreStep

LEMMA PlaceAbsentData ==
  ASSUME Sound, call.at # "rebuild", NEW k \in Keys, NEW v \in Vals, ~Holds(table, k),
         NEW vacancy, Vacant(vacancy), PlaceAbsent(k, v, vacancy)
  PROVE  DataInv' /\ [Map!Next]_Map!vars
<1> DEFINE rest == [Idle EXCEPT !.then = "recovered", !.key = k, !.val = v]
<1>1. /\ rest \in Call /\ rest.cursor = 0 /\ rest.val \in Vals
      /\ table.shape \in Shapes /\ "PlacementRecovery" \in Transition
  BY CallFacts, SoundTable DEF Idle, Call, Then, Transition, Generation
<1>2. CASE StartRebuild(table, table.shape, "PlacementRecovery", rest) /\ event' = Quiet
  <2> HIDE DEF rest
  <2> QED BY <1>1, <1>2, RebuildForInsertData
<1>3. CASE PlaceResolved(k, v, vacancy, FALSE)
  BY <1>3, PlaceResolvedData
<1> QED BY <1>2, <1>3 DEF PlaceAbsent

LEMMA InsertAbsentData ==
  ASSUME Sound, call = Idle, NEW k \in Keys, NEW v \in Vals, ~Holds(table, k),
         NEW vacancy, Vacant(vacancy), InsertAbsent(k, v, vacancy)
  PROVE  DataInv' /\ [Map!Next]_Map!vars
<1> DEFINE rest == [Idle EXCEPT !.then = "grown", !.key = k, !.val = v, !.probe = table.seed]
<1>1. /\ rest \in Call /\ rest.cursor = 0 /\ rest.val \in Vals
      /\ call.at # "rebuild" /\ "Growth" \in Transition
  BY CallFacts, SoundTable DEF Idle, Call, Then, Transition, Generation
<1>2. ASSUME NEW shape \in NextGrowthShape(table, table.len + 1),
             StartRebuild(table, shape, "Growth", rest), event' = Quiet
      PROVE  DataInv' /\ [Map!Next]_Map!vars
  <2>1. shape \in Shapes
    BY SearchesAreShapes
  <2> HIDE DEF rest
  <2> QED BY <1>1, <1>2, <2>1, RebuildForInsertData
<1>3. CASE PlaceAbsent(k, v, vacancy)
  BY <1>1, <1>3, PlaceAbsentData
<1> QED BY <1>2, <1>3 DEF InsertAbsent

LEMMA InsertData ==
  ASSUME Sound, NEW k \in Keys, NEW v \in Vals, Insert(k, v) \/ EntryOrInsert(k, v)
  PROVE  DataInv' /\ [Map!Next]_Map!vars
<1>1. /\ call = Idle /\ Idle.at \notin Bulk \cup {"rebuild", "place"} /\ call.at # "rebuild"
      /\ table \in Generation /\ table.seed \in Seeds
  BY CallFacts, SoundTable DEF Insert, EntryOrInsert, Bulk, Generation
<1>2. ASSUME NEW s \in Locate(table, k), table' = [table EXCEPT !.data[s] = v],
             event' = Answered("insert", k, v, table.data[s]), UNCHANGED call
      PROVE  DataInv' /\ [Map!Next]_Map!vars
  <2>1. s \in Live(table) /\ table.ctrl[s] = k /\ Contents(table)[k] = table.data[s]
    BY <1>1, HitFacts
  <2>2. Contents(table') = [Contents(table) EXCEPT ![k] = v] /\ Valued(table')
    BY <1>2, <2>1, SoundTable, ContentsReplaced
  <2>3. Contents(Owner) = Contents(table) /\ Contents(Owner)' = Contents(table')
    BY <1>1, <1>2, PlainContents
  <2>4. DataInv'
    BY <1>1, <1>2, <2>2, PlainData
  <2> QED BY <1>2, <2>1, <2>2, <2>3, <2>4, StoreStep
<1>3. ASSUME NEW s \in Locate(table, k), event' = Answered("get", k, None, table.data[s]),
             UNCHANGED <<table, previous, call>>
      PROVE  DataInv' /\ [Map!Next]_Map!vars
  <2>1. Contents(table)[k] = table.data[s]
    BY <1>1, HitFacts
  <2>2. Contents(Owner) = Contents(table) /\ Contents(Owner)' = Contents(table')
    BY <1>1, <1>3, PlainContents
  <2>3. DataInv'
    BY <1>1, <1>3, SoundTable, PlainData
  <2> QED BY <1>3, <2>1, <2>2, <2>3, AnswerStep
<1>4. ASSUME NEW vacancy, Vacant(vacancy), Locate(table, k) = {}, InsertAbsent(k, v, vacancy)
      PROVE  DataInv' /\ [Map!Next]_Map!vars
  <2>1. ~Holds(table, k)
    BY <1>1, <1>4, LookupFacts
  <2> QED BY <1>1, <1>4, <2>1, InsertAbsentData
<1>5. CASE Insert(k, v)
  BY <1>1, <1>2, <1>4, <1>5, VacantFacts DEF Insert
<1>6. CASE EntryOrInsert(k, v)
  BY <1>1, <1>3, <1>4, <1>6, VacantFacts DEF EntryOrInsert
<1> QED BY <1>5, <1>6

LEMMA GetData ==
  ASSUME Sound, NEW k \in Keys, Get(k)
  PROVE  DataInv' /\ [Map!Next]_Map!vars
<1> DEFINE answer == LET found == FindLocation(table, k)
                     IN  IF found = {} THEN None
                         ELSE table.data[CHOOSE s \in found : TRUE]
<1>1. /\ call = Idle /\ Idle.at \notin Bulk \cup {"rebuild", "place"} /\ call.at # "rebuild"
      /\ UNCHANGED <<table, call>> /\ event' = Answered("get", k, None, answer)
  BY CallFacts DEF Get, Bulk
<1>2. answer = Contents(table)[k]
  <2>1. CASE FindLocation(table, k) = {}
    BY <1>1, <2>1, LookupFacts, ContentsAbsent
  <2>2. ASSUME NEW s \in FindLocation(table, k) PROVE answer = Contents(table)[k]
    BY <1>1, <2>2, HitFacts
  <2> QED BY <2>1, <2>2
<1> HIDE DEF answer
<1>3. Contents(Owner) = Contents(table) /\ Contents(Owner)' = Contents(table')
  BY <1>1, PlainContents
<1>4. DataInv'
  BY <1>1, SoundTable, PlainData
<1> QED BY <1>1, <1>2, <1>3, <1>4, AnswerStep

(* The insert after its rebuild stores the value it was called with. *)
LEMMA ResumePlaceData ==
  ASSUME Sound, ResumePlace
  PROVE  DataInv' /\ [Map!Next]_Map!vars
<1>1. PICK k \in Keys, v \in Vals : k = call.key /\ v = call.val
  BY DEF Sound, TypeInv, PendingKey, DataInv, Pending, ResumePlace
<1>2. call.at = "place" /\ call.at # "rebuild" /\ ~Holds(table, k)
  BY <1>1 DEF ResumePlace, Sound, MapInv, PendingAbsent
<1>3. table \in Generation /\ table.seed \in Seeds /\ call.probe \in Seeds
  BY SoundTable DEF Generation, Call
<1>4. Vacant(SearchVacancy(table, call.probe, k)) /\ Vacant(SearchVacancy(table, table.seed, k))
  BY <1>3, VacantFacts
<1>5. CASE PlaceAbsent(k, v, SearchVacancy(table, call.probe, k))
  BY <1>2, <1>4, <1>5, PlaceAbsentData
<1>6. CASE PlaceResolved(k, v, SearchVacancy(table, table.seed, k), TRUE)
  BY <1>2, <1>4, <1>6, PlaceResolvedData
<1> QED BY <1>1, <1>5, <1>6 DEF ResumePlace

(* The deferred maintenance moves no entry at once: a rebuild that begins
   has the table g as its owner, a refresh keeps the slots. *)
LEMMA SettleData ==
  ASSUME NEW g \in Generation, Valued(g), Settle(g)
  PROVE  DataInv' /\ Contents(Owner)' = Contents(g)
<1>1. /\ Idle \in Call /\ Idle.cursor = 0 /\ Idle.then = "return"
      /\ g.shape \in Shapes /\ Idle.at \notin Bulk \cup {"rebuild", "place"}
  BY CallFacts DEF Idle, Bulk, Generation
<1>2. CASE StartRebuild(g, g.shape, "TombstoneCleanup", Idle)
  <2>1. "TombstoneCleanup" \in Transition
    BY DEF Transition
  <2> QED BY <1>1, <1>2, <2>1, RebuildData
<1>3. CASE table' = ClearMembership(g) /\ call' = Scanning("refresh")
  <2>1. call'.at = "refresh"
    BY <1>3, CallFacts DEF At, FaultPoints
  <2>2. SameEntries(g, table')
    BY <1>3 DEF ClearMembership, SameEntries, Generation
  <2>3. Contents(table') = Contents(g) /\ Valued(table')
    BY <2>2, ContentsSame
  <2>4. Contents(Owner)' = Contents(table')
    BY <2>1, OwnerFacts
  <2>5. DataInv'
    BY <2>1, <2>3, PlainData DEF Bulk
  <2> QED BY <2>3, <2>4, <2>5
<1>4. CASE table' = g /\ call' = Idle
  <2>1. Contents(Owner)' = Contents(table')
    BY <1>1, <1>4, OwnerFacts
  <2> QED BY <1>1, <1>4, <2>1, PlainData
<1> QED BY <1>2, <1>3, <1>4 DEF Settle

LEMMA RemoveData ==
  ASSUME Sound, NEW k \in Keys, Remove(k)
  PROVE  DataInv' /\ [Map!Next]_Map!vars
<1>1. call = Idle /\ Idle.at = "idle" /\ call.at # "rebuild"
      /\ Contents(Owner) = Contents(table)
  BY CallFacts, OwnerFacts DEF Remove
<1>2. ASSUME NEW s \in FindLocation(table, k) \cup Locate(table, k),
             event' = Answered("remove", k, None, table.data[s]),
             Settle(ExtractFinish(table, s))
      PROVE  DataInv' /\ [Map!Next]_Map!vars
  <2> DEFINE g == ExtractFinish(table, s)
  <2>1. s \in Live(table) /\ table.ctrl[s] = k /\ Contents(table)[k] = table.data[s]
    BY <1>1, HitFacts
  <2>2. g \in Generation /\ Loses(table, g, s)
    BY <2>1, SoundTable, RemoveFacts, RemovalLoses DEF Emptied, Live
  <2>3. Contents(g) = [Contents(table) EXCEPT ![k] = None] /\ Valued(g)
    BY <2>1, <2>2, SoundTable, ContentsLost
  <2>4. DataInv' /\ Contents(Owner)' = Contents(g)
    BY <1>2, <2>2, <2>3, SettleData
  <2> QED BY <1>1, <1>2, <2>1, <2>3, <2>4, RemoveStep
<1>3. CASE /\ FindLocation(table, k) = {} /\ event' = Answered("remove", k, None, None)
           /\ UNCHANGED <<table, previous, call>>
  <2>1. ~Holds(table, k)
    BY <1>1, <1>3, LookupFacts
  <2>2. Contents(Owner)' = Contents(table)
    BY <1>1, <1>3, OwnerFacts
  <2>3. DataInv'
    BY <1>1, <1>3, SoundTable, PlainData DEF Bulk
  <2> QED BY <1>1, <1>3, <2>1, <2>2, <2>3, RemoveAbsent, ContentsAbsent, RemoveStep
<1> QED BY <1>2, <1>3 DEF Remove

LEMMA RebuildStepData ==
  ASSUME Sound, RebuildStep
  PROVE  DataInv' /\ [Map!Next]_Map!vars
<1>1. /\ call.at = "rebuild" /\ previous' = previous /\ event' = event
      /\ previous \in Generation /\ Valued(previous) /\ Copied /\ Complete
      /\ call.then # "return" => call.val \in Vals
  BY DEF RebuildStep, Sound, TypeInv, TypeOK, DataInv, Pending
<1>2. /\ table \in Generation /\ table.seed \in Seeds /\ Valued(table) /\ call \in Call
  BY SoundTable DEF Generation
<1>3. PICK s \in NextLive(previous) :
        LET vacancy == SearchVacancy(table, table.seed, previous.ctrl[s])
        IN  \E t \in ResolveVacancy(table, vacancy) :
              /\ table' = PlaceNewEntry(table, t, previous.ctrl[s], previous.data[s],
                                        vacancy = {})
              /\ call' = [call EXCEPT !.cursor = s, !.recovered = @ \/ vacancy = {}]
  BY DEF RebuildStep
<1>4. /\ s \in Live(previous) /\ s \in Nat /\ s > call.cursor /\ previous.ctrl[s] \in Keys
      /\ \A y \in Live(previous) : y > call.cursor => s <= y
      /\ previous.data[s] \in Vals
  BY <1>1, <1>2, NextLiveFacts DEF Valued
<1>5. /\ call'.at = "rebuild" /\ call'.then = call.then /\ call'.val = call.val
      /\ call'.cursor = s
  BY <1>1, <1>2, <1>3 DEF Call
<1>6. PICK t \in Slot : Gains(table, table', t, previous.ctrl[s], previous.data[s])
  <2> DEFINE vacancy == SearchVacancy(table, table.seed, previous.ctrl[s])
  <2>1. PICK t \in ResolveVacancy(table, vacancy) :
          table' = PlaceNewEntry(table, t, previous.ctrl[s], previous.data[s], vacancy = {})
    BY <1>3
  <2>2. t \in Slot /\ Free(table, t)
    BY <1>2, <1>4, VacantFacts, SlotFacts DEF ResolveVacancy, Vacant
  <2> QED BY <1>2, <1>4, <2>1, <2>2, PlaceNewEntryGains
<1>7. /\ Live(table') = Live(table) \cup {t}
      /\ table'.ctrl[t] = previous.ctrl[s] /\ table'.data[t] = previous.data[s]
      /\ \A x \in Live(table) : table'.ctrl[x] = table.ctrl[x] /\ table'.data[x] = table.data[x]
  BY <1>2, <1>4, <1>6, GainsLive
<1>8. Live(previous) \subseteq Nat /\ call.cursor \in Nat
  BY <1>2, SlotFacts DEF Live, Call
<1>9. \A x \in Live(table') : \E y \in Live(previous) :
         /\ y <= s /\ previous.ctrl[y] = table'.ctrl[x] /\ previous.data[y] = table'.data[x]
  <2> SUFFICES ASSUME NEW x \in Live(table')
               PROVE  \E y \in Live(previous) :
                        /\ y <= s /\ previous.ctrl[y] = table'.ctrl[x]
                        /\ previous.data[y] = table'.data[x]
    OBVIOUS
  <2>1. CASE x = t
    BY <1>4, <1>7, <2>1
  <2>2. CASE x \in Live(table)
    <3>1. PICK y \in Live(previous) :
            /\ y <= call.cursor /\ previous.ctrl[y] = table.ctrl[x]
            /\ previous.data[y] = table.data[x]
      BY <1>1, <2>2 DEF Copied
    <3>2. y <= s
      BY <1>4, <1>8, <3>1
    <3> QED BY <1>7, <2>2, <3>1, <3>2
  <2> QED BY <1>7, <2>1, <2>2
<1>10. \A y \in Live(previous) : y <= s => \E x \in Live(table') : table'.ctrl[x] = previous.ctrl[y]
  <2> SUFFICES ASSUME NEW y \in Live(previous), y <= s
               PROVE  \E x \in Live(table') : table'.ctrl[x] = previous.ctrl[y]
    OBVIOUS
  <2>1. CASE y <= call.cursor
    BY <1>1, <1>7, <2>1 DEF Complete
  <2>2. CASE y > call.cursor
    <3>1. y = s
      BY <1>4, <1>8, <2>2
    <3> QED BY <1>7, <3>1
  <2> QED BY <1>8, <2>1, <2>2
<1>11. Copied' /\ Complete'
  BY <1>1, <1>5, <1>9, <1>10 DEF Copied, Complete
<1>12. Valued(table')
  BY <1>2, <1>4, <1>7 DEF Valued
<1>13. Pending'
  BY <1>1, <1>5 DEF Pending, Bulk
<1>14. DataInv'
  BY <1>1, <1>11, <1>12, <1>13 DEF DataInv
<1>15. Contents(Owner)' = Contents(Owner)
  BY <1>1, <1>5, OwnerFacts
<1> QED BY <1>1, <1>14, <1>15, SilentStep

(* When every entry is moved, the new generation holds what the old one did. *)
LEMMA CommittedContents ==
  ASSUME Sound, call.at = "rebuild", ScanDone(previous)
  PROVE  Contents(table) = Contents(previous)
<1>1. Distinct(table) /\ Distinct(previous) /\ Copied /\ Complete
  BY SoundTable DEF Sound, MapInv, DataInv
<1>2. ASSUME NEW s \in Live(previous)
      PROVE  \E t \in Live(table) : /\ table.ctrl[t] = previous.ctrl[s]
                                    /\ table.data[t] = previous.data[s]
  <2>1. PICK t \in Live(table) : table.ctrl[t] = previous.ctrl[s]
    BY <1>1 DEF Complete, ScanDone
  <2>2. PICK y \in Live(previous) :
          previous.ctrl[y] = table.ctrl[t] /\ previous.data[y] = table.data[t]
    BY <1>1 DEF Copied
  <2>3. y = s
    BY <1>1, <2>1, <2>2 DEF Distinct
  <2> QED BY <2>1, <2>2, <2>3
<1>3. \A t \in Live(table) : \E s \in Live(previous) : table.ctrl[t] = previous.ctrl[s]
  BY <1>1 DEF Copied
<1> QED BY <1>1, <1>2, <1>3, ContentsEqual

LEMMA RebuildCommitData ==
  ASSUME Sound, RebuildCommit
  PROVE  DataInv' /\ [Map!Next]_Map!vars
<1>1. /\ call.at = "rebuild" /\ ScanDone(previous) /\ call \in Call
      /\ table' = table /\ event' = event /\ Valued(table)
      /\ call' = IF call.then = "return" THEN Idle ELSE [call EXCEPT !.at = "place"]
      /\ call.then # "return" => call.val \in Vals
  BY SoundTable DEF RebuildCommit, Sound, DataInv, Pending
<1>2. Contents(table) = Contents(previous)
  BY <1>1, CommittedContents
<1>3. call'.at # "rebuild" /\ DataInv'
  <2>1. CASE call.then = "return"
    <3>1. call' = Idle
      BY <1>1, <2>1
    <3> QED BY <1>1, <3>1, CallFacts, PlainData DEF Bulk
  <2>2. CASE call.then # "return"
    <3>1. call'.at = "place" /\ call'.val = call.val
      BY <1>1, <2>2 DEF Call
    <3>2. Pending'
      BY <1>1, <2>2, <3>1 DEF Pending, Bulk
    <3> QED BY <1>1, <3>1, <3>2 DEF DataInv, Valued
  <2> QED BY <2>1, <2>2
<1>4. Contents(Owner)' = Contents(Owner)
  BY <1>1, <1>2, <1>3, OwnerFacts
<1> QED BY <1>1, <1>3, <1>4, SilentStep

(* An uncommitted rebuild leaves the caller the old generation. *)
LEMMA RebuildPanicData ==
  ASSUME Sound, RebuildPanic
  PROVE  DataInv' /\ [Map!Next]_Map!vars
<1>1. /\ call.at = "rebuild" /\ table' = previous /\ call' = Idle /\ event' = event
      /\ Valued(previous)
  BY DEF RebuildPanic, Sound, DataInv
<1>2. Contents(Owner)' = Contents(Owner)
  BY <1>1, CallFacts, OwnerFacts
<1>3. DataInv'
  BY <1>1, CallFacts, PlainData DEF Bulk
<1> QED BY <1>1, <1>2, <1>3, SilentStep

LEMMA RefreshData ==
  ASSUME Sound, RefreshStep \/ RefreshDone \/ RefreshPanic
  PROVE  DataInv' /\ [Map!Next]_Map!vars
<1>1. /\ call.at = "refresh" /\ event' = event /\ call \in Call /\ table \in Generation
  BY SoundTable DEF RefreshStep, RefreshDone, RefreshPanic
<1>2. SameEntries(table, table')
  BY <1>1 DEF RefreshStep, RefreshDone, RefreshPanic, RecordMembership, SameEntries, Generation
<1>3. call'.at \in {"refresh", "idle"}
  BY <1>1, CallFacts DEF RefreshStep, RefreshDone, RefreshPanic, Call
<1>4. Contents(table') = Contents(table) /\ Valued(table')
  BY <1>2, SoundTable, ContentsSame
<1>5. Contents(Owner)' = Contents(Owner)
  BY <1>1, <1>3, <1>4, PlainContents
<1>6. DataInv'
  BY <1>3, <1>4, PlainData DEF Bulk
<1> QED BY <1>1, <1>5, <1>6, SilentStep

(* A bulk removal lets one entry go. *)
LEMMA DiscardData ==
  ASSUME Sound, call.at \in Bulk, NEW s \in Live(table), Loses(table, table', s),
         event' = event, call'.at # "rebuild"
  PROVE  Valued(table') /\ [Map!Next]_Map!vars
<1>1. call.at # "rebuild" /\ event.op \in Bulk
  BY DEF Sound, DataInv, Pending, Bulk
<1>2. table.ctrl[s] \in Keys /\ table.data[s] # None
  BY SoundTable, FreeAssumption DEF Live, Valued
<1>3. /\ Contents(table') = [Contents(table) EXCEPT ![table.ctrl[s]] = None]
      /\ Contents(table)[table.ctrl[s]] = table.data[s] /\ Valued(table')
  BY SoundTable, ContentsLost, ContentsAt
<1>4. Contents(Owner) = Contents(table) /\ Contents(Owner)' = Contents(table')
  BY <1>1, PlainContents
<1> QED BY <1>1, <1>2, <1>3, <1>4, DiscardStep

(* A bulk removal goes on, or is left: it stays what the caller asked for. *)
LEMMA BulkPending ==
  ASSUME Sound, call.at \in Bulk, Valued(table'), event' = event,
         \/ call' = call
         \/ call' = Idle
         \/ call.at = "extract" /\ call'.at = "extract"
  PROVE  DataInv'
<1>1. CASE call' = Idle
  BY <1>1, CallFacts, PlainData DEF Bulk
<1>2. CASE call' = call
  BY <1>2 DEF Sound, DataInv, Pending, Bulk, Valued, Live
<1>3. CASE call.at = "extract" /\ call'.at = "extract"
  BY <1>3 DEF Sound, DataInv, Pending, Bulk, Valued, Live
<1> QED BY <1>1, <1>2, <1>3

LEMMA BulkData ==
  ASSUME Sound, ClearStep \/ DrainStep \/ DrainAbandon \/ ExtractStep \/ ExtractForget
  PROVE  DataInv' /\ [Map!Next]_Map!vars
<1>1. /\ call.at \in Bulk /\ event' = event /\ table \in Generation
      /\ call \in Call /\ Valued(table) /\ call.at # "rebuild"
  BY SoundTable DEF ClearStep, DrainStep, DrainAbandon, ExtractStep, ExtractForget, Bulk
<1>2. \/ call' = call
      \/ call' = Idle
      \/ call.at = "extract" /\ call'.at = "extract"
  BY <1>1 DEF ClearStep, DrainStep, DrainAbandon, ExtractStep, ExtractForget, Call
<1>3. call'.at # "rebuild"
  BY <1>1, <1>2, CallFacts
<1>4. ASSUME NEW s \in Live(table), Loses(table, table', s)
      PROVE  DataInv' /\ [Map!Next]_Map!vars
  BY <1>1, <1>2, <1>3, <1>4, DiscardData, BulkPending
<1>5. CASE table' = table
  <2>1. Contents(Owner)' = Contents(Owner)
    BY <1>1, <1>3, <1>5, PlainContents
  <2> QED BY <1>1, <1>2, <1>5, <2>1, SilentStep, BulkPending
<1>6. CASE ClearStep
  BY <1>1, <1>4, <1>6, NextLiveFacts, RemovalLoses DEF ClearStep
<1>7. CASE DrainStep
  BY <1>1, <1>4, <1>7, NextLiveFacts, RemovalLoses DEF DrainStep
<1>8. CASE DrainAbandon \/ ExtractForget
  BY <1>5, <1>8 DEF DrainAbandon, ExtractForget
<1>9. CASE ExtractStep
  <2>1. PICK s \in NextLive(table) : table' \in {table, ExtractFinish(table, s)}
    BY <1>9 DEF ExtractStep
  <2> QED BY <1>1, <1>4, <1>5, <2>1, NextLiveFacts, RemovalLoses
<1> QED BY <1>6, <1>7, <1>8, <1>9

(* clear and drain wipe a table that has nothing left. *)
LEMMA WipeData ==
  ASSUME Sound, Wipe
  PROVE  DataInv' /\ [Map!Next]_Map!vars
<1>1. /\ call.at \in {"clear", "drain"} /\ call.at # "rebuild" /\ call' = Idle
      /\ event' = Quiet /\ call.cursor = 0 /\ table \in Generation
  BY SoundTable DEF Wipe, Sound, DataInv, Pending
<1>2. Live(table) = {}
  <2>1. \A s \in Live(table) : s <= 0 /\ s \in Nat \ {0}
    BY <1>1, SlotFacts DEF Wipe, ScanDone, Live, Slot
  <2> QED BY <2>1
<1>3. Live(table') = {}
  BY <1>1, ResetFacts DEF Wipe
<1>4. Contents(table') = Contents(table) /\ Valued(table')
  BY <1>2, <1>3, ContentsEmpty
<1>5. Contents(Owner)' = Contents(Owner)
  BY <1>1, <1>4, CallFacts, PlainContents
<1>6. DataInv'
  BY <1>1, <1>4, CallFacts, PlainData DEF Bulk
<1> QED BY <1>1, <1>5, <1>6, SilentStep

LEMMA ExtractEndData ==
  ASSUME Sound, ExtractEnd
  PROVE  DataInv' /\ [Map!Next]_Map!vars
<1>1. call.at # "rebuild" /\ event' = Quiet
  BY DEF ExtractEnd
<1>2. DataInv' /\ Contents(Owner)' = Contents(table)
  BY SoundTable, SettleData DEF ExtractEnd
<1>3. Contents(Owner) = Contents(table)
  BY <1>1, OwnerFacts
<1> QED BY <1>1, <1>2, <1>3, SilentStep

LEMMA ResizeData ==
  ASSUME Sound, NEW n \in 0..MaxInsertions[LastShape], Reserve(n) \/ ShrinkTo(n)
  PROVE  DataInv' /\ [Map!Next]_Map!vars
<1>1. call = Idle /\ call.at # "rebuild" /\ event' = Quiet
  BY CallFacts DEF Reserve, ShrinkTo
<1>2. PICK shape \in Shapes : StartRebuild(table, shape, "ExplicitResize", Idle)
  BY SearchesAreShapes DEF Reserve, ShrinkTo
<1>3. /\ "ExplicitResize" \in Transition
      /\ Idle \in Call /\ Idle.cursor = 0 /\ Idle.then = "return"
  BY CallFacts DEF Transition, Idle
<1>4. DataInv' /\ Contents(Owner)' = Contents(table)
  BY <1>2, <1>3, SoundTable, RebuildData
<1>5. Contents(Owner) = Contents(table)
  BY <1>1, OwnerFacts
<1> QED BY <1>1, <1>4, <1>5, SilentStep

LEMMA StartScanData ==
  ASSUME Sound, NEW at \in {"clear", "drain", "extract"}, StartScan(at)
  PROVE  DataInv' /\ [Map!Next]_Map!vars
<1>1. /\ call = Idle /\ call.at # "rebuild" /\ at \in Bulk /\ at \in At
      /\ call' = Scanning(at) /\ event' = Bulky(at) /\ UNCHANGED <<table, previous>>
  BY CallFacts DEF StartScan, Bulk, At, FaultPoints
<1>2. call'.at = at /\ call'.cursor = 0 /\ call'.at \notin {"rebuild", "place"}
  BY <1>1, CallFacts
<1>3. event'.op = at
  BY <1>1 DEF Bulky, Answered
<1>4. Contents(Owner)' = Contents(Owner)
  BY <1>1, <1>2, PlainContents
<1>5. DataInv'
  BY <1>1, <1>2, <1>3, SoundTable DEF DataInv, Pending, Valued
<1> QED BY <1>1, <1>4, <1>5, BulkStep

------------------------------------------------------------------------------
LEMMA DataInit == Init => DataInv /\ Map!Init
<1> SUFFICES ASSUME Init PROVE DataInv /\ Map!Init
  OBVIOUS
<1>1. /\ Live(table) = {} /\ call = Idle /\ Idle.at = "idle" /\ event = Quiet
  <2>1. PICK shape \in Shapes : table = Fresh(shape, 0)
    BY DEF Init
  <2> QED BY <2>1, SlotFacts, ResetFacts, CallFacts DEF Init
<1>2. Contents(table) = [k \in Keys |-> None] /\ Valued(table)
  BY <1>1, ContentsEmpty
<1>3. Contents(Owner) = Contents(table)
  BY <1>1, OwnerFacts
<1>4. DataInv
  BY <1>1, <1>2 DEF DataInv, Pending, Bulk
<1> QED BY <1>1, <1>2, <1>3, <1>4
        DEF Map!Init, Map!Quiet, Map!Answered, Quiet, Answered

LEMMA DataNext ==
  ASSUME Sound, [Next]_vars
  PROVE  DataInv' /\ [Map!Next]_Map!vars
<1>1. ASSUME NEW k \in Keys, NEW v \in Vals, Insert(k, v) \/ EntryOrInsert(k, v)
      PROVE  DataInv' /\ [Map!Next]_Map!vars
  BY <1>1, InsertData
<1>2. ASSUME NEW k \in Keys, Get(k) \/ Remove(k) PROVE DataInv' /\ [Map!Next]_Map!vars
  BY <1>2, GetData, RemoveData
<1>3. ASSUME NEW at \in {"clear", "drain", "extract"}, StartScan(at)
      PROVE  DataInv' /\ [Map!Next]_Map!vars
  BY <1>3, StartScanData
<1>4. ASSUME NEW n \in 0..MaxInsertions[LastShape], Reserve(n) \/ ShrinkTo(n)
      PROVE  DataInv' /\ [Map!Next]_Map!vars
  BY <1>4, ResizeData
<1>5. CASE RebuildStep
  BY <1>5, RebuildStepData
<1>6. CASE RebuildCommit
  BY <1>6, RebuildCommitData
<1>7. CASE RebuildPanic
  BY <1>7, RebuildPanicData
<1>8. CASE ResumePlace
  BY <1>8, ResumePlaceData
<1>9. CASE RefreshStep \/ RefreshDone \/ RefreshPanic
  BY <1>9, RefreshData
<1>10. CASE ClearStep \/ DrainStep \/ DrainAbandon \/ ExtractStep \/ ExtractForget
  BY <1>10, BulkData
<1>11. CASE Wipe
  BY <1>11, WipeData
<1>12. CASE ExtractEnd
  BY <1>12, ExtractEndData
<1>13. CASE UNCHANGED vars
  <2>1. /\ table' = table /\ previous' = previous /\ call' = call /\ event' = event
    BY <1>13 DEF vars
  <2>2. DataInv'
    BY <2>1 DEF Sound, DataInv, Valued, Pending, Copied, Complete, Live
  <2>3. Contents(Owner)' = Contents(Owner)
    BY <2>1, OwnerFacts
  <2> QED BY <2>1, <2>2, <2>3, SilentStep
<1> QED BY <1>1, <1>2, <1>3, <1>4, <1>5, <1>6, <1>7, <1>8, <1>9, <1>10, <1>11, <1>12,
           <1>13 DEF Next, Begin, Progress, Fault

LEMMA SoundInvariant ==
  ASSUME "refresh" \notin Faults
  PROVE  Spec => []Sound
<1>1. Init => Sound
  BY TypeInit, ReachInit, MapInit, DataInit DEF Sound
<1>2. Sound /\ [Next]_vars => Sound'
  BY TypeNext, ReachNext, MapNext, DataNext DEF Sound
<1> QED BY <1>1, <1>2, PTL DEF Spec

(* A caller of the Funnel map sees a partial function: every answer is the
   one MapSpec gives, the contents change only by its steps, and a rebuild, a
   recovery, a refresh or a bulk removal that is abandoned changes nothing
   else.  For every hasher, every plan of levels and buckets, and every fault
   but a panic inside a filter refresh. *)
THEOREM ImplementsMapHolds ==
  ASSUME "refresh" \notin Faults
  PROVE  Spec => ImplementsMap
<1>1. Init => Map!Init
  BY DataInit
<1>2. Sound /\ [Next]_vars => [Map!Next]_Map!vars
  BY DataNext
<1> QED BY <1>1, <1>2, SoundInvariant, PTL DEF Spec, ImplementsMap, Map!Spec

------------------------------------------------------------------------------
(* Counters.                                                               *)

Tombs(g) == {s \in Slot : g.ctrl[s] = TOMBSTONE}
Size(g) == Cardinality(Live(g))

(* The count covers the live keys and respects the limit. *)
Counts(g) == Size(g) <= g.len /\ g.len <= MaxInsertions[g.shape]

(* Both counters say what is in the slots. *)
Exact(g) == g.len = Size(g) /\ g.tombstones = Cardinality(Tombs(g))

Tally(g) == Counts(g) /\ ("drain" \notin Faults => Exact(g))

(* The entries a rebuild has moved. *)
Passed == {s \in Live(previous) : s <= call.cursor}

(* A new generation has room for the entries of the old one, and for the key
   of a pending insert; it counts exactly what it has been given. *)
RebuildCounts ==
  /\ Tally(previous) /\ previous.len <= MaxInsertions[table.shape]
  /\ call.then # "return" => previous.len < MaxInsertions[table.shape]
  /\ table.len = Size(table) /\ table.len = Cardinality(Passed)
  /\ Tombs(table) = {} /\ table.tombstones = 0

(* A drain counts nothing while it runs. *)
CountInv ==
  /\ call.at = "rebuild" => RebuildCounts
  /\ call.at # "rebuild" => Counts(table)
  /\ call.at \notin {"rebuild", "drain"} => Tally(table)
  /\ call.at = "place" => table.len < MaxInsertions[table.shape]

------------------------------------------------------------------------------
(* Cardinalities of sets of slots.                                         *)

LEMMA SlotsFinite ==
  \A S \in SUBSET Slot : /\ IsFiniteSet(S) /\ Cardinality(S) \in Nat
                         /\ Cardinality(S) <= MaxSlots
<1>1. IsFiniteSet(Slot) /\ Cardinality(Slot) = MaxSlots
  BY SlotFacts, FS_Interval, SMT DEF Slot
<1> QED BY <1>1, FS_Subset, FS_CardinalityType, SlotFacts

LEMMA SizeType ==
  /\ \A g : /\ Live(g) \in SUBSET Slot /\ Tombs(g) \in SUBSET Slot
            /\ Size(g) \in Nat /\ Cardinality(Tombs(g)) \in Nat
            /\ Size(g) <= MaxSlots /\ Cardinality(Tombs(g)) <= MaxSlots
  /\ Passed \in SUBSET Slot /\ Cardinality(Passed) \in Nat
BY SlotsFinite DEF Live, Tombs, Size, Passed

LEMMA SizeGrows ==
  ASSUME NEW S \in SUBSET Slot, NEW s
  PROVE  /\ Cardinality(S \cup {s}) = IF s \in S THEN Cardinality(S) ELSE Cardinality(S) + 1
         /\ Cardinality(S \ {s}) = IF s \in S THEN Cardinality(S) - 1 ELSE Cardinality(S)
BY SlotsFinite, FS_AddElement, FS_RemoveElement

LEMMA SizeEmpty == \A S \in SUBSET Slot : Cardinality(S) = 0 <=> S = {}
BY SlotsFinite, FS_EmptySet

LEMMA ModOfLess == ASSUME NEW a \in Nat, NEW b \in Nat \ {0}, a < b PROVE a % b = a
OBVIOUS

(* Counters that do not pass a bound below the word do not wrap. *)
LEMMA DecrementFacts ==
  ASSUME NEW n \in Nat \ {0}, n <= MaxSlots
  PROVE  Decrement(n) = n - 1
<1>1. n - 1 \in Nat /\ WordSize \in Nat \ {0} /\ n - 1 < WordSize
  BY SlotFacts, ShapeAssumption, HashAssumption
<1> QED BY <1>1, ModOfLess DEF Decrement

LEMMA IncrementFacts ==
  ASSUME NEW n \in Nat, n + 1 <= MaxSlots
  PROVE  Increment(n) = n + 1
<1>1. n + 1 \in Nat /\ WordSize \in Nat \ {0} /\ n + 1 < WordSize
  BY SlotFacts, ShapeAssumption, HashAssumption
<1> QED BY <1>1, ModOfLess DEF Increment

LEMMA LimitFacts ==
  \A sh \in Shapes : /\ MaxInsertions[sh] \in Nat /\ SlotCount[sh] \in Nat
                     /\ MaxInsertions[sh] <= MaxSlots
                     /\ MaxInsertions[sh] # 0 => MaxInsertions[sh] < SlotCount[sh]
BY ShapeAssumption, SlotFacts

------------------------------------------------------------------------------
(* What the writes do to the counters.                                     *)

LEMMA PlacedCounts ==
  ASSUME NEW g \in Generation, NEW s \in Slot, Free(g, s), NEW k \in Keys, NEW v,
         NEW outside
  PROVE  LET h == PlaceNewEntry(g, s, k, v, outside)
         IN  /\ h.shape = g.shape /\ h.len = g.len + 1
             /\ Size(h) = Size(g) + 1
             /\ Tombs(h) = Tombs(g) \ {s}
             /\ h.tombstones = IF s \in Tombs(g) THEN Decrement(g.tombstones)
                               ELSE g.tombstones
<1> DEFINE r == RecordMembership(g, k, s)
           h == PlaceNewEntry(g, s, k, v, outside)
<1>1. r \in Generation /\ r.shape = g.shape /\ r.ctrl = g.ctrl
  BY RecordFacts DEF Recording
<1>2. r.len = g.len /\ r.tombstones = g.tombstones
  BY DEF RecordMembership, Generation
<1> HIDE DEF r
<1>3. /\ h.shape = r.shape /\ h.len = r.len + 1
      /\ h.tombstones = IF g.ctrl[s] = TOMBSTONE THEN Decrement(r.tombstones)
                        ELSE r.tombstones
      /\ h.ctrl = [r.ctrl EXCEPT ![s] = k]
  BY <1>1 DEF PlaceNewEntry, Generation, r
<1>4. Gains(g, h, s, k, v)
  BY PlaceNewEntryGains
<1> HIDE DEF h
<1>5. Live(h) = Live(g) \cup {s} /\ s \notin Live(g)
  BY <1>4, GainsLive
<1>6. Size(h) = Size(g) + 1
  BY <1>5, SizeGrows, SizeType DEF Size
<1>7. h.ctrl[s] = k /\ \A t \in Slot : t # s => h.ctrl[t] = g.ctrl[t]
  BY <1>1, <1>3 DEF Generation
<1>8. Tombs(h) = Tombs(g) \ {s}
  BY <1>7, FreeAssumption DEF Tombs
<1> QED BY <1>1, <1>2, <1>3, <1>6, <1>8 DEF Tombs, h

LEMMA RemovedCounts ==
  ASSUME NEW g \in Generation, NEW s \in Live(g)
  PROVE  /\ \A h \in {TombstoneSlot(g, s), ExtractFinish(g, s), ClearSlot(g, s)} :
              /\ h \in Generation /\ h.shape = g.shape /\ Size(h) = Size(g) - 1
              /\ Cardinality(Tombs(h)) = Cardinality(Tombs(g)) + 1
         /\ TombstoneSlot(g, s).len = g.len
         /\ \A h \in {ExtractFinish(g, s), ClearSlot(g, s)} :
              h.len = Decrement(g.len) /\ h.tombstones = Increment(g.tombstones)
<1>1. s \in Slot
  BY DEF Live
<1>2. ASSUME NEW h \in {TombstoneSlot(g, s), ExtractFinish(g, s), ClearSlot(g, s)}
      PROVE  /\ h \in Generation /\ h.shape = g.shape /\ Size(h) = Size(g) - 1
             /\ Cardinality(Tombs(h)) = Cardinality(Tombs(g)) + 1
  <2>1. Emptied(g, h, s) /\ Loses(g, h, s)
    BY <1>1, <1>2, RemoveFacts, RemovalLoses
  <2>2. h.ctrl[s] = TOMBSTONE /\ \A t \in Slot : t # s => h.ctrl[t] = g.ctrl[t]
    BY <1>1, <2>1 DEF Emptied, Generation
  <2>3. Tombs(h) = Tombs(g) \cup {s} /\ s \notin Tombs(g)
    BY <1>1, <2>2, FreeAssumption DEF Tombs, Live
  <2>4. Live(h) = Live(g) \ {s}
    BY <2>1 DEF Loses
  <2> QED BY <2>1, <2>3, <2>4, SizeGrows, SizeType DEF Emptied, Size
<1>3. /\ TombstoneSlot(g, s) \in Generation
      /\ TombstoneSlot(g, s).len = g.len /\ TombstoneSlot(g, s).tombstones = g.tombstones
  BY <1>2 DEF TombstoneSlot, Generation
<1>4. \A h \in {ExtractFinish(g, s), ClearSlot(g, s)} :
        h.len = Decrement(g.len) /\ h.tombstones = Increment(g.tombstones)
  BY <1>3 DEF ExtractFinish, ClearSlot, Generation
<1> QED BY <1>2, <1>3, <1>4

(* Generations with the same controls and counters. *)
SameCounts(g, h) ==
  h.shape = g.shape /\ h.ctrl = g.ctrl /\ h.len = g.len /\ h.tombstones = g.tombstones

LEMMA SameCountsFacts ==
  ASSUME NEW g, NEW h, SameCounts(g, h)
  PROVE  (Counts(g) => Counts(h)) /\ (Tally(g) => Tally(h))
BY DEF SameCounts, Tally, Counts, Exact, Size, Live, Tombs

(* A removal keeps the tally. *)
LEMMA RemovedKeeps ==
  ASSUME NEW g \in Generation, NEW s \in Live(g), Counts(g),
         NEW h \in {ExtractFinish(g, s), ClearSlot(g, s)}
  PROVE  Tally(g) => Tally(h)
<1>1. /\ h.shape = g.shape /\ Size(h) = Size(g) - 1 /\ h.len = Decrement(g.len)
      /\ h.tombstones = Increment(g.tombstones)
      /\ Cardinality(Tombs(h)) = Cardinality(Tombs(g)) + 1 /\ h \in Generation
  BY RemovedCounts
<1>2. Size(g) # 0
  BY SizeEmpty, SizeType DEF Size
<1>3. /\ g.len \in Nat /\ Size(g) \in Nat /\ g.len <= MaxInsertions[g.shape]
      /\ MaxInsertions[g.shape] \in Nat /\ MaxInsertions[g.shape] <= MaxSlots
      /\ Size(g) <= g.len
  BY SizeType, LimitFacts DEF Counts, Generation
<1>4. h.len = g.len - 1
  BY <1>1, <1>2, <1>3, DecrementFacts, SlotFacts
<1>5. Exact(g) => h.tombstones = g.tombstones + 1
  <2>1. /\ Cardinality(Tombs(h)) \in Nat /\ Cardinality(Tombs(h)) <= MaxSlots
        /\ Cardinality(Tombs(g)) \in Nat
    BY <1>1, SizeType, SlotsFinite DEF Tombs
  <2> QED BY <1>1, <2>1, IncrementFacts DEF Exact
<1> QED BY <1>1, <1>3, <1>4, <1>5 DEF Tally, Counts, Exact

(* A placement below the limit too. *)
LEMMA PlacedKeeps ==
  ASSUME NEW g \in Generation, NEW s \in Slot, Free(g, s), NEW k \in Keys, NEW v,
         NEW outside, Counts(g), g.len < MaxInsertions[g.shape]
  PROVE  LET h == PlaceNewEntry(g, s, k, v, outside)
         IN  Tally(g) => Tally(h)
<1> DEFINE h == PlaceNewEntry(g, s, k, v, outside)
<1>1. /\ h.shape = g.shape /\ h.len = g.len + 1 /\ Size(h) = Size(g) + 1
      /\ Tombs(h) = Tombs(g) \ {s}
      /\ h.tombstones = IF s \in Tombs(g) THEN Decrement(g.tombstones) ELSE g.tombstones
  BY PlacedCounts
<1> HIDE DEF h
<1>2. /\ g.len \in Nat /\ Size(g) \in Nat /\ Size(g) <= g.len
      /\ MaxInsertions[g.shape] \in Nat /\ g.len < MaxInsertions[g.shape]
  BY SizeType, LimitFacts DEF Counts, Generation
<1>3. Counts(h)
  BY <1>1, <1>2 DEF Counts
<1>4. Exact(g) => Exact(h)
  <2> SUFFICES ASSUME Exact(g) PROVE Exact(h)
    OBVIOUS
  <2>1. /\ Cardinality(Tombs(g)) \in Nat /\ Cardinality(Tombs(g)) <= MaxSlots
        /\ g.tombstones = Cardinality(Tombs(g)) /\ Tombs(g) \in SUBSET Slot
    BY SizeType DEF Exact
  <2>2. s \in Tombs(g) => Cardinality(Tombs(g)) # 0
    BY <2>1, SizeEmpty
  <2>3. Cardinality(Tombs(h)) = IF s \in Tombs(g) THEN Cardinality(Tombs(g)) - 1
                                ELSE Cardinality(Tombs(g))
    <3>1. Cardinality(Tombs(g) \ {s}) = IF s \in Tombs(g) THEN Cardinality(Tombs(g)) - 1
                                        ELSE Cardinality(Tombs(g))
      BY <2>1, SizeGrows
    <3>2. Tombs(h) = Tombs(g) \ {s}
      BY <1>1
    <3> QED BY <3>1, <3>2
  <2>4. s \in Tombs(g) => Decrement(g.tombstones) = g.tombstones - 1
    <3>1. s \in Tombs(g) => g.tombstones \in Nat \ {0} /\ g.tombstones <= MaxSlots
      BY <2>1, <2>2
    <3> QED BY <3>1, DecrementFacts
  <2>5. h.tombstones = Cardinality(Tombs(h))
    BY <1>1, <2>1, <2>3, <2>4
  <2>6. h.len = Size(h)
    BY <1>1 DEF Exact
  <2> QED BY <2>5, <2>6 DEF Exact
<1> QED BY <1>3, <1>4 DEF Tally, h

LEMMA EmptyTally ==
  /\ \A sh \in Shapes, p \in Seeds : Tally(Fresh(sh, p))
  /\ \A g \in Generation : Tally(WipeAll(g))
<1>1. ASSUME NEW g, g.shape \in Shapes, g.len = 0, g.tombstones = 0,
             g.ctrl = [s \in Slot |-> EMPTY]
      PROVE  Tally(g)
  <2>1. Live(g) = {} /\ Tombs(g) = {}
    BY <1>1, FreeAssumption DEF Live, Tombs
  <2>2. Size(g) = 0 /\ Cardinality(Tombs(g)) = 0
    BY <2>1, FS_EmptySet DEF Size
  <2> QED BY <1>1, <2>2, LimitFacts DEF Tally, Counts, Exact
<1>2. \A sh \in Shapes, p \in Seeds : Tally(Fresh(sh, p))
  BY <1>1 DEF Fresh
<1>3. \A g \in Generation : Tally(WipeAll(g))
  <2> SUFFICES ASSUME NEW g \in Generation PROVE Tally(WipeAll(g))
    OBVIOUS
  <2>1. ClearMembership(g) \in Generation /\ ClearMembership(g).shape = g.shape
        /\ g.shape \in Shapes
    BY ResetFacts DEF Generation
  <2>2. /\ WipeAll(g).shape = g.shape /\ WipeAll(g).len = 0 /\ WipeAll(g).tombstones = 0
        /\ WipeAll(g).ctrl = [s \in Slot |-> EMPTY]
    BY <2>1 DEF WipeAll, Generation
  <2> QED BY <1>1, <2>1, <2>2
<1> QED BY <1>2, <1>3

------------------------------------------------------------------------------
(* The searches for a shape admit what they were asked for.                *)

LEMMA BudgetFacts ==
  /\ \A n : \A sh \in ForInsertBudget(n) : sh \in Shapes /\ MaxInsertions[sh] >= n
  /\ \A g \in Generation, n \in Nat : \A sh \in NextGrowthShape(g, n) :
        sh \in Shapes /\ MaxInsertions[sh] >= n
<1>1. \A n : \A sh \in ForInsertBudget(n) : sh \in Shapes /\ MaxInsertions[sh] >= n
  BY DEF ForInsertBudget, First
<1>2. ASSUME NEW g \in Generation, NEW n \in Nat, NEW sh \in NextGrowthShape(g, n)
      PROVE  sh \in Shapes /\ MaxInsertions[sh] >= n
  <2>1. MaxInsertions[g.shape] \in Nat
    BY LimitFacts DEF Generation
  <2>2. \/ n < 2 * MaxInsertions[g.shape] /\ sh \in ForInsertBudget(2 * MaxInsertions[g.shape])
        \/ sh \in ForInsertBudget(n)
    BY <1>2 DEF NextGrowthShape
  <2>3. sh \in Shapes /\ MaxInsertions[sh] \in Nat
    BY <1>1, <2>2, LimitFacts
  <2>4. CASE n < 2 * MaxInsertions[g.shape]
             /\ sh \in ForInsertBudget(2 * MaxInsertions[g.shape])
    <3>1. MaxInsertions[sh] >= 2 * MaxInsertions[g.shape]
      BY <1>1, <2>4
    <3> QED BY <2>1, <2>3, <2>4, <3>1
  <2> QED BY <1>1, <2>2, <2>4
<1> QED BY <1>1, <1>2

------------------------------------------------------------------------------
(* Every step keeps the counts.                                            *)

LEMMA CountPlain ==
  ASSUME Tally(table'), call'.at \notin {"rebuild", "place"}
  PROVE  CountInv'
BY DEF CountInv, Tally, Counts, Exact, Size, Tombs, Live

(* A rebuild begins into a shape that admits what is live. *)
LEMMA CountRebuilding ==
  ASSUME NEW old \in Generation, Tally(old), NEW shape \in Shapes, NEW tr \in Transition,
         NEW rest \in Call, StartRebuild(old, shape, tr, rest), rest.cursor = 0,
         old.len <= MaxInsertions[shape],
         rest.then # "return" => old.len < MaxInsertions[shape]
  PROVE  CountInv'
<1>1. /\ previous' = old /\ call'.at = "rebuild" /\ call'.cursor = 0
      /\ call'.then = rest.then
  BY DEF StartRebuild, Call
<1>2. PICK p : table' = Fresh(shape, p)
  BY DEF StartRebuild
<1>3. /\ table'.shape = shape /\ table'.len = 0 /\ table'.tombstones = 0
      /\ table'.ctrl = [s \in Slot |-> EMPTY]
  BY <1>2 DEF Fresh
<1>4. Live(table') = {} /\ Tombs(table') = {}
  BY <1>3, FreeAssumption DEF Live, Tombs
<1>5. Passed' = {}
  BY <1>1, SlotFacts DEF Passed, Live, Slot
<1>6. Size(table') = 0 /\ Cardinality(Passed') = 0
  BY <1>4, <1>5, FS_EmptySet DEF Size
<1>7. RebuildCounts'
  BY <1>1, <1>3, <1>4, <1>6
     DEF RebuildCounts, Tally, Counts, Exact, Size, Tombs, Live
<1> QED BY <1>1, <1>7 DEF CountInv

LEMMA CountPlaceResolved ==
  ASSUME TypeInv, Tally(table), table.len < MaxInsertions[table.shape],
         NEW k \in Keys, NEW v, NEW vacancy, Vacant(vacancy), NEW rebuilt,
         PlaceResolved(k, v, vacancy, rebuilt)
  PROVE  CountInv'
<1>1. table \in Generation
  BY DEF TypeInv, TypeOK
<1>2. PICK s \in ResolveVacancy(table, vacancy) :
        table' = PlaceNewEntry(table, s, k, v, vacancy = {})
  BY DEF PlaceResolved
<1>3. s \in Slot /\ Free(table, s)
  BY <1>1, SlotFacts, VacantFacts DEF ResolveVacancy, Vacant
<1>4. Tally(table')
  BY <1>1, <1>2, <1>3, PlacedKeeps DEF Tally
<1> QED BY <1>4, CallFacts, CountPlain DEF PlaceResolved

LEMMA CountPlaceAbsent ==
  ASSUME TypeInv, Tally(table), table.len < MaxInsertions[table.shape],
         NEW k \in Keys, NEW v \in Vals \cup {None}, NEW vacancy, Vacant(vacancy),
         PlaceAbsent(k, v, vacancy)
  PROVE  CountInv'
<1> DEFINE rest == [Idle EXCEPT !.then = "recovered", !.key = k, !.val = v]
<1>1. table \in Generation /\ table.shape \in Shapes /\ table.len \in Nat
      /\ MaxInsertions[table.shape] \in Nat
  BY LimitFacts DEF TypeInv, TypeOK, Generation
<1>2. rest \in Call /\ rest.cursor = 0 /\ "PlacementRecovery" \in Transition
  BY CallFacts DEF Idle, Call, Then, Transition
<1>3. CASE StartRebuild(table, table.shape, "PlacementRecovery", rest)
  <2> HIDE DEF rest
  <2> QED BY <1>1, <1>2, <1>3, CountRebuilding
<1>4. CASE PlaceResolved(k, v, vacancy, FALSE)
  BY <1>4, CountPlaceResolved
<1> QED BY <1>3, <1>4 DEF PlaceAbsent

LEMMA CountInsertAbsent ==
  ASSUME TypeInv, Tally(table), NEW k \in Keys, NEW v \in Vals, NEW vacancy,
         Vacant(vacancy), InsertAbsent(k, v, vacancy)
  PROVE  CountInv'
<1> DEFINE rest == [Idle EXCEPT !.then = "grown", !.key = k, !.val = v, !.probe = table.seed]
<1>1. table \in Generation /\ table.len \in Nat /\ table.len + 1 \in Nat
  BY DEF TypeInv, TypeOK, Generation
<1>2. rest \in Call /\ rest.cursor = 0 /\ "Growth" \in Transition
  BY <1>1, CallFacts DEF Idle, Call, Then, Transition, Generation
<1>3. ASSUME NEW shape \in NextGrowthShape(table, table.len + 1),
             StartRebuild(table, shape, "Growth", rest)
      PROVE  CountInv'
  <2>1. shape \in Shapes /\ MaxInsertions[shape] >= table.len + 1
    BY <1>1, BudgetFacts
  <2>2. table.len <= MaxInsertions[shape] /\ table.len < MaxInsertions[shape]
    BY <1>1, <2>1, LimitFacts
  <2> HIDE DEF rest
  <2> QED BY <1>1, <1>2, <1>3, <2>1, <2>2, CountRebuilding
<1>4. CASE table.len < MaxInsertions[table.shape] /\ PlaceAbsent(k, v, vacancy)
  BY <1>4, CountPlaceAbsent
<1> QED BY <1>3, <1>4 DEF InsertAbsent

LEMMA CountSettle ==
  ASSUME NEW g \in Generation, Tally(g), Settle(g)
  PROVE  CountInv'
<1>1. /\ Idle \in Call /\ Idle.cursor = 0 /\ Idle.then = "return" /\ g.shape \in Shapes
      /\ "TombstoneCleanup" \in Transition /\ g.len <= MaxInsertions[g.shape]
  BY CallFacts DEF Idle, Transition, Generation, Tally, Counts
<1>2. CASE StartRebuild(g, g.shape, "TombstoneCleanup", Idle)
  BY <1>1, <1>2, CountRebuilding
<1>3. CASE table' = ClearMembership(g) /\ call' = Scanning("refresh")
  <2>1. SameCounts(g, table')
    BY <1>3 DEF ClearMembership, SameCounts, Generation
  <2> QED BY <1>3, <2>1, SameCountsFacts, CallFacts, CountPlain DEF At, FaultPoints
<1>4. CASE table' = g /\ call' = Idle
  BY <1>4, CallFacts, CountPlain
<1> QED BY <1>2, <1>3, <1>4 DEF Settle

LEMMA CountRebuildStep ==
  ASSUME TypeInv, CountInv, RebuildStep
  PROVE  CountInv'
<1>1. /\ call.at = "rebuild" /\ previous' = previous /\ previous \in Generation
      /\ table \in Generation /\ table.seed \in Seeds /\ call \in Call /\ RebuildCounts
  BY DEF RebuildStep, TypeInv, TypeOK, CountInv, Generation
<1>2. PICK s \in NextLive(previous) :
        LET vacancy == SearchVacancy(table, table.seed, previous.ctrl[s])
        IN  \E t \in ResolveVacancy(table, vacancy) :
              /\ table' = PlaceNewEntry(table, t, previous.ctrl[s], previous.data[s],
                                        vacancy = {})
              /\ call' = [call EXCEPT !.cursor = s, !.recovered = @ \/ vacancy = {}]
  BY DEF RebuildStep
<1>3. /\ s \in Live(previous) /\ s \in Nat /\ s > call.cursor /\ previous.ctrl[s] \in Keys
      /\ \A y \in Live(previous) : y > call.cursor => s <= y
  BY <1>1, <1>2, NextLiveFacts
<1>4. call'.at = "rebuild" /\ call'.then = call.then /\ call'.cursor = s
  BY <1>1, <1>2 DEF Call
<1>5. /\ table'.shape = table.shape /\ table'.len = table.len + 1
      /\ Size(table') = Size(table) + 1
      /\ Tombs(table') = {} /\ table'.tombstones = 0
  <2> DEFINE vacancy == SearchVacancy(table, table.seed, previous.ctrl[s])
  <2>1. PICK t \in ResolveVacancy(table, vacancy) :
          table' = PlaceNewEntry(table, t, previous.ctrl[s], previous.data[s], vacancy = {})
    BY <1>2
  <2>2. t \in Slot /\ Free(table, t)
    BY <1>1, <1>3, VacantFacts, SlotFacts DEF ResolveVacancy, Vacant
  <2>3. Tombs(table) = {} /\ table.tombstones = 0
    BY <1>1 DEF RebuildCounts
  <2> QED BY <1>1, <1>3, <2>1, <2>2, <2>3, PlacedCounts
<1>6. Cardinality(Passed') = Cardinality(Passed) + 1
  <2>1. Live(previous) \subseteq Nat /\ call.cursor \in Nat
    BY <1>1, SlotFacts DEF Live, Call
  <2>2. Passed' = {y \in Live(previous) : y <= s}
    BY <1>1, <1>4 DEF Passed, Live
  <2>3. \A y \in Live(previous) : y <= s <=> y <= call.cursor \/ y = s
    BY <1>3, <2>1
  <2>4. Passed' = Passed \cup {s} /\ s \notin Passed
    BY <1>3, <2>1, <2>2, <2>3 DEF Passed
  <2> QED BY <2>4, SizeGrows, SizeType
<1>7. RebuildCounts'
  BY <1>1, <1>4, <1>5, <1>6
     DEF RebuildCounts, Tally, Counts, Exact, Size, Tombs, Live
<1> QED BY <1>4, <1>7 DEF CountInv

(* The committed generation holds as many entries as the one it replaces. *)
LEMMA CommitCounts ==
  ASSUME TypeInv, CountInv, call.at = "rebuild", ScanDone(previous)
  PROVE  /\ Tally(table) /\ Size(table) = Size(previous)
         /\ call.then # "return" => table.len < MaxInsertions[table.shape]
<1>1. RebuildCounts /\ previous \in Generation /\ table \in Generation
  BY DEF CountInv, TypeInv, TypeOK
<1>2. Passed = Live(previous)
  BY DEF Passed, ScanDone
<1>3. /\ table.len = Size(table) /\ table.len = Size(previous)
      /\ Size(previous) <= previous.len /\ previous.len <= MaxInsertions[table.shape]
      /\ call.then # "return" => previous.len < MaxInsertions[table.shape]
  BY <1>1, <1>2 DEF RebuildCounts, Tally, Counts, Size
<1>4. /\ previous.len \in Nat /\ Size(previous) \in Nat
      /\ MaxInsertions[table.shape] \in Nat
  BY <1>1, SizeType, LimitFacts DEF Generation
<1>5. Cardinality(Tombs(table)) = 0 /\ table.tombstones = 0
  BY <1>1, FS_EmptySet DEF RebuildCounts
<1> QED BY <1>3, <1>4, <1>5 DEF Tally, Counts, Exact

LEMMA CountRebuildCommit ==
  ASSUME TypeInv, CountInv, RebuildCommit
  PROVE  CountInv'
<1>1. /\ call.at = "rebuild" /\ call \in Call /\ table' = table
      /\ call' = IF call.then = "return" THEN Idle ELSE [call EXCEPT !.at = "place"]
      /\ Tally(table)
      /\ call.then # "return" => table.len < MaxInsertions[table.shape]
  BY CommitCounts DEF RebuildCommit, TypeInv, TypeOK
<1>2. CASE call.then = "return"
  BY <1>1, <1>2, CallFacts, CountPlain
<1>3. CASE call.then # "return"
  <2>1. call'.at = "place"
    BY <1>1, <1>3 DEF Call
  <2> QED BY <1>1, <1>3, <2>1 DEF CountInv, Tally, Counts, Exact, Size, Tombs, Live
<1> QED BY <1>2, <1>3

LEMMA CountInit == Init => CountInv
<1> SUFFICES ASSUME Init PROVE CountInv
  OBVIOUS
<1>1. PICK shape \in Shapes : table = Fresh(shape, 0)
  BY DEF Init
<1>2. Tally(table)
  BY <1>1, SlotFacts, EmptyTally
<1> QED BY <1>2, CallFacts DEF Init, CountInv, Tally

LEMMA CountNext ==
  ASSUME TypeInv, CountInv, [Next]_vars
  PROVE  CountInv'
<1>1. /\ table \in Generation /\ call \in Call /\ table.seed \in Seeds
      /\ call.at \notin {"rebuild", "drain"} => Tally(table)
      /\ call.at # "rebuild" => Counts(table)
      /\ Idle.at = "idle"
  BY CallFacts DEF TypeInv, TypeOK, CountInv, Generation
<1>2. ASSUME NEW k \in Keys, NEW v \in Vals, Insert(k, v) \/ EntryOrInsert(k, v)
      PROVE  CountInv'
  <2>1. call = Idle /\ Tally(table)
    BY <1>1, <1>2 DEF Insert, EntryOrInsert
  <2>2. ASSUME NEW s, table' = [table EXCEPT !.data[s] = v], call' = call PROVE CountInv'
    <3>1. SameCounts(table, table')
      BY <1>1, <2>2 DEF SameCounts, Generation
    <3> QED BY <1>1, <2>1, <2>2, <3>1, SameCountsFacts, CountPlain
  <2>3. ASSUME table' = table, call' = call PROVE CountInv'
    BY <1>1, <2>1, <2>3, CountPlain
  <2>4. ASSUME NEW vacancy, Vacant(vacancy), InsertAbsent(k, v, vacancy) PROVE CountInv'
    BY <2>1, <2>4, CountInsertAbsent
  <2>5. CASE Insert(k, v)
    BY <1>1, <2>2, <2>4, <2>5, VacantFacts DEF Insert
  <2>6. CASE EntryOrInsert(k, v)
    BY <1>1, <2>3, <2>4, <2>6, VacantFacts DEF EntryOrInsert
  <2> QED BY <1>2, <2>5, <2>6
<1>3. ASSUME NEW k \in Keys, Get(k) PROVE CountInv'
  BY <1>1, <1>3, CountPlain DEF Get
<1>4. ASSUME NEW k \in Keys, Remove(k) PROVE CountInv'
  <2>1. call = Idle /\ Tally(table) /\ Counts(table)
    BY <1>1, <1>4 DEF Remove
  <2>2. ASSUME NEW s \in FindLocation(table, k) \cup Locate(table, k),
               Settle(ExtractFinish(table, s))
        PROVE  CountInv'
    <3>1. s \in Live(table)
      BY <1>1, HitHoldsKey DEF Live
    <3>2. ExtractFinish(table, s) \in Generation /\ Tally(ExtractFinish(table, s))
      BY <1>1, <2>1, <3>1, RemovedCounts, RemovedKeeps
    <3> QED BY <2>2, <3>2, CountSettle
  <2>3. CASE UNCHANGED <<table, previous, call, epoch>>
    BY <1>1, <2>1, <2>3, CountPlain
  <2> QED BY <1>4, <2>2, <2>3 DEF Remove
<1>5. ASSUME NEW at \in {"clear", "drain", "extract"}, StartScan(at) PROVE CountInv'
  <2>1. call'.at = at /\ table' = table /\ Tally(table)
    BY <1>1, <1>5, CallFacts DEF StartScan, At, FaultPoints
  <2> QED BY <2>1, CountPlain
<1>6. ASSUME NEW n \in 0..MaxInsertions[LastShape], Reserve(n) \/ ShrinkTo(n)
      PROVE  CountInv'
  <2>1. call = Idle /\ Tally(table) /\ table.len \in Nat /\ n \in Nat
    BY <1>1, <1>6 DEF Reserve, ShrinkTo, Generation
  <2>2. /\ Idle \in Call /\ Idle.cursor = 0 /\ Idle.then = "return"
        /\ "ExplicitResize" \in Transition
    BY CallFacts DEF Idle, Transition
  <2>3. PICK shape \in Shapes : /\ StartRebuild(table, shape, "ExplicitResize", Idle)
                                /\ table.len <= MaxInsertions[shape]
    <3>1. CASE Reserve(n)
      <4>1. PICK shape \in NextGrowthShape(table, table.len + n) :
              StartRebuild(table, shape, "ExplicitResize", Idle)
        BY <3>1 DEF Reserve
      <4>2. shape \in Shapes /\ MaxInsertions[shape] >= table.len + n
        BY <1>1, <2>1, BudgetFacts
      <4> QED BY <2>1, <4>1, <4>2, LimitFacts
    <3>2. CASE ShrinkTo(n)
      <4>1. PICK shape \in ForInsertBudget(IF n > table.len THEN n ELSE table.len) :
              StartRebuild(table, shape, "ExplicitResize", Idle)
        BY <3>2 DEF ShrinkTo
      <4>2. /\ shape \in Shapes
            /\ MaxInsertions[shape] >= (IF n > table.len THEN n ELSE table.len)
        BY BudgetFacts
      <4> QED BY <2>1, <4>1, <4>2, LimitFacts
    <3> QED BY <1>6, <3>1, <3>2
  <2> QED BY <1>1, <2>1, <2>2, <2>3, CountRebuilding
<1>7. CASE RebuildStep
  BY <1>7, CountRebuildStep
<1>8. CASE RebuildCommit
  BY <1>8, CountRebuildCommit
<1>9. CASE RebuildPanic
  <2>1. Tally(previous) /\ table' = previous /\ call' = Idle
    BY <1>9 DEF RebuildPanic, CountInv, RebuildCounts
  <2> QED BY <1>1, <2>1, CountPlain
<1>10. CASE ResumePlace
  <2>1. /\ call.at = "place" /\ Tally(table) /\ table.len < MaxInsertions[table.shape]
        /\ call.key \in Keys /\ call.val \in Vals \cup {None} /\ call.probe \in Seeds
    BY <1>1, <1>10 DEF ResumePlace, CountInv, TypeInv, PendingKey, Call
  <2>2. Vacant(SearchVacancy(table, call.probe, call.key))
        /\ Vacant(SearchVacancy(table, table.seed, call.key))
    BY <1>1, <2>1, VacantFacts
  <2> QED BY <1>10, <2>1, <2>2, CountPlaceAbsent, CountPlaceResolved DEF ResumePlace
<1>11. CASE RefreshStep \/ RefreshDone \/ RefreshPanic
  <2>1. call.at = "refresh" /\ Tally(table)
    BY <1>1, <1>11 DEF RefreshStep, RefreshDone, RefreshPanic
  <2>2. SameCounts(table, table')
    BY <1>1, <1>11 DEF RefreshStep, RefreshDone, RefreshPanic, RecordMembership,
                      SameCounts, Generation
  <2>3. call'.at \in {"refresh", "idle"}
    BY <1>1, <1>11, <2>1 DEF RefreshStep, RefreshDone, RefreshPanic, Call
  <2> QED BY <2>1, <2>2, <2>3, SameCountsFacts, CountPlain
<1>12. CASE ClearStep
  <2>1. PICK s \in NextLive(table) : table' = ClearSlot(table, s)
    BY <1>12 DEF ClearStep
  <2>2. s \in Live(table) /\ Tally(table) /\ Counts(table)
    BY <1>1, <1>12, <2>1, NextLiveFacts DEF ClearStep
  <2>3. call'.at \in {"clear", "idle"}
    BY <1>1, <1>12 DEF ClearStep
  <2> QED BY <1>1, <2>1, <2>2, <2>3, RemovedKeeps, CountPlain
<1>13. CASE DrainStep
  <2>1. PICK s \in NextLive(table) : table' = TombstoneSlot(table, s)
    BY <1>13 DEF DrainStep
  <2>2. s \in Live(table) /\ Counts(table) /\ call.at = "drain" /\ call' = call
    BY <1>1, <1>13, <2>1, NextLiveFacts DEF DrainStep
  <2>3. table'.shape = table.shape /\ table'.len = table.len /\ Size(table') = Size(table) - 1
    BY <1>1, <2>1, <2>2, RemovedCounts
  <2>4. Size(table) \in Nat /\ table.len \in Nat
    BY <1>1, SizeType DEF Generation
  <2>5. Counts(table')
    BY <2>2, <2>3, <2>4 DEF Counts
  <2> QED BY <2>2, <2>5 DEF CountInv, Counts, Size, Live
<1>14. CASE DrainAbandon
  <2>1. Tally(table) /\ table' = table /\ call' = Idle
    BY <1>1, <1>14 DEF DrainAbandon, Tally
  <2> QED BY <1>1, <2>1, CountPlain
<1>15. CASE Wipe
  BY <1>1, <1>15, EmptyTally, CountPlain DEF Wipe
<1>16. CASE ExtractStep
  <2>1. PICK s \in NextLive(table) : /\ call' = [call EXCEPT !.cursor = s]
                                     /\ table' \in {table, ExtractFinish(table, s)}
    BY <1>16 DEF ExtractStep
  <2>2. s \in Live(table) /\ Tally(table) /\ Counts(table) /\ call'.at = "extract"
    BY <1>1, <1>16, <2>1, NextLiveFacts DEF ExtractStep, Call
  <2> QED BY <1>1, <2>1, <2>2, RemovedKeeps, CountPlain
<1>17. CASE ExtractEnd
  BY <1>1, <1>17, CountSettle DEF ExtractEnd
<1>18. CASE ExtractForget
  BY <1>1, <1>18, CountPlain DEF ExtractForget
<1>19. CASE UNCHANGED vars
  BY <1>19 DEF vars, CountInv, RebuildCounts, Passed, Tally, Counts, Exact, Size, Tombs, Live
<1> QED BY <1>2, <1>3, <1>4, <1>5, <1>6, <1>7, <1>8, <1>9, <1>10, <1>11, <1>12, <1>13,
           <1>14, <1>15, <1>16, <1>17, <1>18, <1>19 DEF Next, Begin, Progress, Fault

LEMMA CountInvariant == Spec => [](TypeInv /\ CountInv)
<1>1. Init => TypeInv /\ CountInv
  BY TypeInit, CountInit
<1>2. TypeInv /\ CountInv /\ [Next]_vars => TypeInv' /\ CountInv'
  BY TypeNext, CountNext
<1> QED BY <1>1, <1>2, PTL DEF Spec

------------------------------------------------------------------------------
(* Fewer live keys than slots leave a free slot, and so a first one. *)
LEMMA RoomLeft ==
  ASSUME NEW g \in Generation, Size(g) < SlotCount[g.shape]
  PROVE  FirstFreeGlobal(g) # {}
<1> DEFINE free == {s \in SlotsOf(g) : Free(g, s)}
<1>1. SlotsOf(g) \subseteq Slot /\ SlotCount[g.shape] \in Nat /\ Slot \subseteq Nat
  BY SlotFacts, LimitFacts DEF SlotsOf, Generation
<1>2. Cardinality(SlotsOf(g)) = SlotCount[g.shape]
  BY <1>1, FS_Interval, SMT DEF SlotsOf
<1>3. free # {}
  <2> SUFFICES ASSUME free = {} PROVE FALSE
    OBVIOUS
  <2>1. \A s \in SlotsOf(g) : g.ctrl[s] \in Keys
    BY <1>1 DEF Generation, Control, Free
  <2>2. SlotsOf(g) \in SUBSET Live(g)
    BY <1>1, <2>1 DEF Live
  <2>3. Cardinality(SlotsOf(g)) <= Size(g)
    BY <2>2, SizeType, SlotsFinite, FS_Subset DEF Size
  <2> QED BY <1>1, <1>2, <2>3, SizeType
<1>4. PICK s \in free : \A y \in free : s <= y
  <2>1. free \in SUBSET Nat
    BY <1>1
  <2> QED BY <1>3, <2>1, LeastNat
<1> QED BY <1>4 DEF FirstFreeGlobal, First

(* The last resort of a placement always finds a slot, whatever user code
   abandons: a generation a rebuild fills admits every entry it is given, and
   a drain that is forgotten leaves the count too large, never too small. *)
THEOREM PlacementHasRoomHolds == Spec => []PlacementHasRoom
<1>1. TypeInv /\ CountInv => PlacementHasRoom
  <2> SUFFICES ASSUME TypeInv, CountInv,
                      \/ call.at = "rebuild" /\ ~ScanDone(previous)
                      \/ call.at = "place"
                      \/ call = Idle /\ table.len < MaxInsertions[table.shape]
               PROVE  FirstFreeGlobal(table) # {}
    BY DEF PlacementHasRoom
  <2>1. /\ table \in Generation /\ table.shape \in Shapes /\ table.len \in Nat
        /\ Size(table) \in Nat /\ MaxInsertions[table.shape] \in Nat
        /\ SlotCount[table.shape] \in Nat
        /\ MaxInsertions[table.shape] # 0 => MaxInsertions[table.shape] < SlotCount[table.shape]
    BY SizeType, LimitFacts DEF TypeInv, TypeOK, Generation
  <2>2. Size(table) < MaxInsertions[table.shape]
    <3>1. CASE call.at = "rebuild" /\ ~ScanDone(previous)
      <4>1. RebuildCounts /\ previous \in Generation
        BY <3>1 DEF CountInv, TypeInv, TypeOK
      <4>2. PICK s \in Live(previous) : ~(s <= call.cursor)
        BY <3>1 DEF ScanDone
      <4>3. Passed \in SUBSET (Live(previous) \ {s})
        BY <4>2 DEF Passed
      <4>4. Cardinality(Live(previous) \ {s}) = Size(previous) - 1
        BY <4>2, SizeGrows, SizeType DEF Size
      <4>5. Cardinality(Passed) <= Size(previous) - 1
        <5>1. Live(previous) \ {s} \in SUBSET Slot
          BY SizeType
        <5> QED BY <4>3, <4>4, <5>1, SlotsFinite, FS_Subset
      <4>6. /\ Size(table) = Cardinality(Passed) /\ Size(previous) <= previous.len
            /\ previous.len <= MaxInsertions[table.shape]
        BY <4>1 DEF RebuildCounts, Tally, Counts
      <4> QED BY <2>1, <4>1, <4>5, <4>6, SizeType DEF Generation
    <3>2. CASE call.at = "place"
      BY <2>1, <3>2 DEF CountInv, Counts
    <3>3. CASE call = Idle /\ table.len < MaxInsertions[table.shape]
      BY <2>1, <3>3, CallFacts DEF CountInv, Counts
    <3> QED BY <3>1, <3>2, <3>3
  <2>3. Size(table) < SlotCount[table.shape]
    BY <2>1, <2>2
  <2> QED BY <2>1, <2>3, RoomLeft
<1> QED BY <1>1, CountInvariant, PTL

(* Between calls both counters say what is in the slots, unless a drain was
   abandoned: after interrupted clears, leaked scans, refreshes and rebuilds
   that were undone.  The run funnel_drain_panic shows that the assumption is
   needed. *)
THEOREM CountersExactHolds ==
  ASSUME "drain" \notin Faults
  PROVE  Spec => []CountersExact
<1>1. CountInv => CountersExact
  BY CallFacts DEF CountInv, Tally, Exact, Size, Tombs, CountersExact
<1> QED BY <1>1, CountInvariant, PTL

(* The clean scan of insert, taken while the tombstone counter is zero, and
   the walk of a placement report the same vacancy for an absent key. *)
LEMMA VacancyAgrees ==
  ASSUME NEW g \in Generation, Exact(g), NEW k \in Keys, ~Holds(g, k)
  PROVE  ExactVacancy(g, g.seed, k, g.tombstones = 0) = SearchVacancy(g, g.seed, k)
<1> DEFINE w == Walk[g.shape][g.seed][k]
           clean == g.tombstones = 0
           free == {i \in DOMAIN w : Free(g, w[i])}
           stop == ExactStop(g, g.seed, k)
           seen == {i \in DOMAIN w : (\A j \in stop : i <= j) /\ ScanReports(g, w[i], clean)}
<1>1. \A i \in DOMAIN w : i \in Nat /\ w[i] \in Slot
  BY WalkFacts DEF Generation
<1>2. \A i \in DOMAIN w : g.ctrl[w[i]] # k
  BY <1>1 DEF Holds, Live
<1>3. \A i \in DOMAIN w : ScanReports(g, w[i], clean) <=> Free(g, w[i])
  <2>1. clean => Tombs(g) = {}
    BY SizeEmpty, SizeType DEF Exact
  <2>2. clean => \A i \in DOMAIN w : g.ctrl[w[i]] # TOMBSTONE
    BY <1>1, <2>1 DEF Tombs
  <2> HIDE DEF clean
  <2> QED BY <2>2 DEF ScanReports, Free
<1>4. \A j \in stop : j \in free
  BY <1>2 DEF ExactStop, First, Free
<1>5. seen = {i \in free : \A j \in stop : i <= j}
  <2> HIDE DEF clean, stop
  <2> QED BY <1>3
<1> HIDE DEF seen, free, stop, clean
<1>6. free \subseteq Nat
  BY <1>1 DEF free
<1>7. First(seen) = First(free)
  <2>1. ASSUME NEW i \in First(free) PROVE i \in First(seen)
    BY <1>4, <1>5, <2>1 DEF First
  <2>2. ASSUME NEW i \in First(seen), NEW y \in free PROVE i <= y
    <3>1. i \in free /\ \A j \in stop : i <= j
      BY <1>5 DEF First
    <3>2. CASE \A j \in stop : y <= j
      <4>1. y \in seen
        BY <1>5, <2>2, <3>2
      <4> QED BY <4>1 DEF First
    <3>3. ASSUME NEW j \in stop, ~(y <= j) PROVE i <= y
      <4>1. i \in Nat /\ y \in Nat /\ j \in Nat
        BY <1>4, <1>6, <2>2, <3>1, <3>3
      <4>2. i <= j
        BY <3>1, <3>3
      <4> QED BY <3>3, <4>1, <4>2
    <3> QED BY <3>2, <3>3
  <2>3. ASSUME NEW i \in First(seen) PROVE i \in First(free)
    <3>1. i \in free
      BY <1>5 DEF First
    <3> QED BY <2>2, <3>1 DEF First
  <2> QED BY <2>1, <2>3 DEF First
<1>8. ExactVacancy(g, g.seed, k, clean) = {w[i] : i \in First(seen)}
  BY DEF ExactVacancy, seen, stop
<1>9. SearchVacancy(g, g.seed, k) = {w[i] : i \in First(free)}
  BY DEF SearchVacancy, free
<1> QED BY <1>7, <1>8, <1>9 DEF clean

(* insert and entry see the map that get sees, and keep the vacancy that the
   placement walk would take, clean scan or not. *)
THEOREM EntrySearchAgreesHolds ==
  ASSUME "refresh" \notin Faults, "drain" \notin Faults
  PROVE  Spec => []EntrySearchAgrees
<1>1. Sound /\ CountInv => EntrySearchAgrees
  <2> SUFFICES ASSUME Sound, CountInv, call = Idle, NEW k \in Keys
               PROVE  /\ Locate(table, k) = FindLocation(table, k)
                      /\ Locate(table, k) = {} =>
                           ExactVacancy(table, table.seed, k, table.tombstones = 0)
                             = SearchVacancy(table, table.seed, k)
    BY DEF EntrySearchAgrees
  <2>1. table \in Generation /\ Exact(table)
    BY SoundTable, CallFacts DEF CountInv, Tally
  <2>2. CASE FindLocation(table, k) = {} /\ Locate(table, k) = {} /\ ~Holds(table, k)
    BY <2>1, <2>2, VacancyAgrees
  <2>3. ASSUME NEW s \in Live(table), FindLocation(table, k) = {s}, Locate(table, k) = {s}
        PROVE  Locate(table, k) = FindLocation(table, k) /\ Locate(table, k) # {}
    BY <2>3
  <2> QED BY <2>2, <2>3, LookupFacts
<1> QED BY <1>1, CountInvariant, SoundInvariant, PTL

(* A rebuild ends with the old generation and the old epoch, or with every
   entry moved, no tombstone and a new epoch: never with part of the keys. *)
THEOREM RebuildAtomicHolds ==
  ASSUME "refresh" \notin Faults
  PROVE  Spec => RebuildAtomic
<1> DEFINE atomic ==
      call.at = "rebuild" /\ call'.at # "rebuild" =>
        \/ table' = previous /\ epoch' = epoch
        \/ /\ Contents(table') = Contents(previous)
           /\ Cardinality(Live(table')) = Cardinality(Live(previous))
           /\ table'.tombstones = 0
           /\ epoch'.transition = call.transition
<1>1. Sound /\ CountInv /\ [Next]_vars => [atomic]_vars
  <2> SUFFICES ASSUME Sound, CountInv, Next, call.at = "rebuild", call'.at # "rebuild"
               PROVE  atomic
    BY DEF vars
  <2>1. Idle.at = "idle" /\ call \in Call
    BY SoundTable, CallFacts
  <2>2. RebuildPanic \/ RebuildCommit
    <3>1. ~RebuildStep
      BY <2>1 DEF RebuildStep, Call
    <3>2. ~Begin
      BY <2>1 DEF Begin, Insert, EntryOrInsert, Get, Remove, StartScan, Reserve, ShrinkTo
    <3>3. ~(\/ ResumePlace \/ RefreshStep \/ RefreshDone \/ ClearStep \/ DrainStep \/ Wipe
            \/ ExtractStep \/ ExtractEnd \/ RefreshPanic \/ DrainAbandon \/ ExtractForget)
      BY DEF ResumePlace, RefreshStep, RefreshDone, ClearStep, DrainStep, Wipe,
             ExtractStep, ExtractEnd, RefreshPanic, DrainAbandon, ExtractForget
    <3> QED BY <3>1, <3>2, <3>3 DEF Next, Progress, Fault
  <2>3. CASE RebuildPanic
    BY <2>3 DEF RebuildPanic
  <2>4. CASE RebuildCommit
    <3>1. table' = table /\ ScanDone(previous)
          /\ epoch' = StartEpoch(epoch, call.transition, call.recovered)
      BY <2>4 DEF RebuildCommit
    <3>2. Cardinality(Live(table')) = Cardinality(Live(previous)) /\ table'.tombstones = 0
      BY <3>1, CommitCounts DEF Sound, Size, CountInv, RebuildCounts
    <3>3. Contents(table) = Contents(previous)
      BY <3>1, CommittedContents
    <3>4. epoch'.transition = call.transition
      BY <3>1 DEF StartEpoch, StartOf, StartWithPlacementRecovery, NotePlacementRecovery
    <3> QED BY <3>1, <3>2, <3>3, <3>4
  <2> QED BY <2>2, <2>3, <2>4
<1>2. [][atomic]_vars => RebuildAtomic
  BY DEF RebuildAtomic
<1> QED BY <1>1, <1>2, CountInvariant, SoundInvariant, PTL DEF Spec

------------------------------------------------------------------------------
(* What a step does to the count, the strays and the epoch of the owner.   *)

(* The walk of the key in the generation visits the slot. *)
Visits(g, k, s) ==
  LET w == Walk[g.shape][g.seed][k] IN \E i \in DOMAIN w : w[i] = s

(* No free slot is left on the walk of the key. *)
Exhausted(g, k) == \A s \in Slot : Free(g, s) => ~Visits(g, k, s)

(* The vacancy says where the walk of the key has room, and that it has none. *)
TellsRoom(g, k, vacancy) ==
  /\ \A s \in vacancy : Visits(g, k, s)
  /\ vacancy = {} => Exhausted(g, k)

(* The clean scan trusts a counter that an abandoned drain leaves wrong. *)
Counting == "drain" \notin Faults

(* The vacancy an insert of the key works with. *)
Reported(k, vacancy) ==
  Vacant(vacancy) /\ (Counting => TellsRoom(table, k, vacancy))

NoStrays == Strays(Owner') \subseteq Strays(Owner)

Unmoved ==
  /\ Owner'.len = Owner.len /\ NoStrays /\ epoch' = epoch
  /\ ~(call.at = "rebuild" /\ call'.at # "rebuild" /\ table' = table)

Taken ==
  /\ call.at # "rebuild" /\ Owner'.len = Owner.len - 1
  /\ NoStrays /\ epoch' = NoteDelete(epoch)

Added ==
  /\ call.at # "rebuild" /\ Owner'.len = Owner.len + 1
  /\ \/ (Counting => NoStrays) /\ epoch' = epoch
     \/ /\ Counting => ~NoStrays
        /\ epoch' \in {NotePlacementRecovery(epoch),
                       StartWithPlacementRecovery(epoch, "PlacementRecovery")}

Committed ==
  /\ call.at = "rebuild" /\ call'.at # "rebuild" /\ table' = table
  /\ epoch' = StartEpoch(epoch, call.transition, call.recovered)

Swept ==
  /\ call.at \in {"clear", "drain"} /\ NoStrays
  /\ epoch' \in {epoch, StartOf(epoch, "Clear")}

EpochStep == Unmoved \/ Taken \/ Added \/ Committed \/ Swept

(* A rebuild remembers whether one of its keys went off its walk. *)
RecoveredInv == call.at = "rebuild" => (call.recovered <=> Strays(table) # {})

(* The strays depend on the slots and on the walks alone. *)
LEMMA StraysVisits == \A g : Strays(g) = {s \in Live(g) : ~Visits(g, g.ctrl[s], s)}
BY Zenon DEF Strays, Visits

LEMMA StraysSame ==
  ASSUME NEW g, NEW h, h.ctrl = g.ctrl, h.shape = g.shape, h.seed = g.seed
  PROVE  Strays(h) = Strays(g)
BY StraysVisits DEF Visits, Live

LEMMA StraysNone == \A g : Live(g) = {} => Strays(g) = {}
BY StraysVisits

LEMMA StraysFewer ==
  ASSUME NEW g \in Generation, NEW h, NEW s \in Slot, Emptied(g, h, s)
  PROVE  Strays(h) \subseteq Strays(g)
<1>1. g.ctrl \in [Slot -> Control] /\ h.ctrl = [g.ctrl EXCEPT ![s] = TOMBSTONE]
      /\ h.shape = g.shape /\ h.seed = g.seed
  BY DEF Generation, Emptied
<1>2. \A t \in Live(h) : t \in Live(g) /\ h.ctrl[t] = g.ctrl[t]
  BY <1>1, FreeAssumption DEF Live
<1>3. \A k, t : Visits(h, k, t) <=> Visits(g, k, t)
  BY <1>1 DEF Visits
<1> QED BY <1>2, <1>3, StraysVisits

(* Storing a key in a free slot makes a stray of that slot, or of none. *)
LEMMA StraysStored ==
  ASSUME NEW g \in Generation, NEW h, NEW s \in Slot, NEW k \in Keys, Free(g, s),
         Stored(g, h, s, k)
  PROVE  /\ Visits(g, k, s) => Strays(h) = Strays(g)
         /\ ~Visits(g, k, s) => s \in Strays(h) /\ s \notin Strays(g)
<1>1. g.ctrl \in [Slot -> Control] /\ h.ctrl = [g.ctrl EXCEPT ![s] = k]
      /\ h.shape = g.shape /\ h.seed = g.seed
  BY DEF Generation, Stored
<1>2. h.ctrl[s] = k /\ \A t \in Slot \ {s} : h.ctrl[t] = g.ctrl[t]
  BY <1>1
<1>3. s \notin Live(g) /\ Live(h) = Live(g) \cup {s}
  BY <1>2, FreeAssumption DEF Live, Free
<1>4. \A l, t : Visits(h, l, t) <=> Visits(g, l, t)
  BY <1>1 DEF Visits
<1>5. \A t \in Live(g) : t \in Slot \ {s}
  BY <1>3 DEF Live
<1> QED BY <1>2, <1>3, <1>4, <1>5, StraysVisits

(* The placement walk tells the room on the walk of the key. *)
LEMMA SearchTellsRoom ==
  ASSUME NEW g \in Generation, NEW k \in Keys
  PROVE  TellsRoom(g, k, SearchVacancy(g, g.seed, k))
<1> DEFINE w == Walk[g.shape][g.seed][k]
           free == {i \in DOMAIN w : Free(g, w[i])}
<1>1. SearchVacancy(g, g.seed, k) = {w[i] : i \in First(free)}
  BY DEF SearchVacancy
<1>2. free \in SUBSET Nat
  BY WalkFacts DEF Generation
<1>3. \A s \in SearchVacancy(g, g.seed, k) : Visits(g, k, s)
  BY <1>1 DEF First, Visits
<1>4. ASSUME SearchVacancy(g, g.seed, k) = {} PROVE free = {}
  <2>1. First(free) = {}
    BY <1>1, <1>4
  <2> HIDE DEF free
  <2>2. free # {} => \E i \in free : \A y \in free : i <= y
    BY <1>2, LeastNat
  <2> QED BY <2>1, <2>2 DEF First
<1>5. free = {} => Exhausted(g, k)
  BY DEF Exhausted, Visits
<1> QED BY <1>3, <1>4, <1>5 DEF TellsRoom

(* So does the exact walk that missed the key, when a clean scan is taken
   only where no tombstone is. *)
LEMMA ExactTellsRoom ==
  ASSUME NEW g \in Generation, NEW k \in Keys, NEW clean \in BOOLEAN,
         clean => Tombs(g) = {}, ExactHit(g, g.seed, k) = {}
  PROVE  TellsRoom(g, k, ExactVacancy(g, g.seed, k, clean))
<1> DEFINE w == Walk[g.shape][g.seed][k]
           ends == {i \in DOMAIN w : g.ctrl[w[i]] \in {EMPTY, k}}
           stop == ExactStop(g, g.seed, k)
           seen == {i \in DOMAIN w : (\A j \in stop : i <= j) /\ ScanReports(g, w[i], clean)}
<1>1. ExactVacancy(g, g.seed, k, clean) = {w[i] : i \in First(seen)}
  BY DEF ExactVacancy
<1>2. \A i \in DOMAIN w : i \in Nat /\ w[i] \in Slot
  BY WalkFacts DEF Generation
<1>3. \A s \in ExactVacancy(g, g.seed, k, clean) : Visits(g, k, s)
  BY <1>1 DEF First, Visits
<1>4. ASSUME ExactVacancy(g, g.seed, k, clean) = {} PROVE Exhausted(g, k)
  <2>1. First(seen) = {}
    BY <1>1, <1>4
  <2>2. seen = {}
    <3>1. seen \in SUBSET Nat
      BY <1>2
    <3> HIDE DEF seen
    <3>2. seen # {} => \E i \in seen : \A y \in seen : i <= y
      BY <3>1, LeastNat
    <3> QED BY <2>1, <3>2 DEF First
  <2>3. stop = First(ends)
    BY DEF ExactStop
  <2>4. stop = {}
    <3> SUFFICES ASSUME NEW j \in stop PROVE FALSE
      OBVIOUS
    <3>1. j \in ends /\ \A i \in ends : j <= i
      BY <2>3 DEF First
    <3>2. g.ctrl[w[j]] # k
      BY DEF ExactHit
    <3>3. \A i \in stop : j <= i
      BY <2>3, <3>1 DEF First
    <3>4. ScanReports(g, w[j], clean)
      BY <3>1, <3>2 DEF ScanReports
    <3> QED BY <2>2, <3>1, <3>3, <3>4
  <2>5. ends = {}
    <3>1. ends \in SUBSET Nat
      BY <1>2
    <3> HIDE DEF ends
    <3>2. ends # {} => \E i \in ends : \A y \in ends : i <= y
      BY <3>1, LeastNat
    <3> QED BY <2>3, <2>4, <3>2 DEF First
  <2>6. ASSUME NEW i \in DOMAIN w PROVE ~Free(g, w[i])
    <3>1. ~ScanReports(g, w[i], clean)
      BY <2>2, <2>4
    <3>2. g.ctrl[w[i]] = TOMBSTONE => ~clean
      BY <1>2, <2>6 DEF Tombs
    <3>3. g.ctrl[w[i]] # EMPTY
      BY <2>5
    <3> QED BY <3>1, <3>2, <3>3 DEF ScanReports, Free
  <2> QED BY <2>6 DEF Exhausted, Visits
<1> QED BY <1>3, <1>4 DEF TellsRoom

LEMMA OwnerIs ==
  /\ call.at # "rebuild" => Owner = table
  /\ call.at = "rebuild" => Owner = previous
  /\ call'.at # "rebuild" => Owner' = table'
  /\ call'.at = "rebuild" => Owner' = previous'
BY DEF Owner

LEMMA EpochRebuilding ==
  ASSUME NEW old, NEW shape, NEW tr, NEW rest \in Call, StartRebuild(old, shape, tr, rest),
         ~rest.recovered
  PROVE  Owner' = old /\ RecoveredInv'
<1>1. previous' = old /\ call'.at = "rebuild" /\ call'.recovered = rest.recovered
  BY DEF StartRebuild, Call
<1>2. Live(table') = {}
  BY FreeAssumption DEF StartRebuild, Fresh, Live
<1>3. Strays(table') = {}
  BY <1>2, StraysNone
<1> QED BY <1>1, <1>3, OwnerIs DEF RecoveredInv

LEMMA EpochSettle ==
  ASSUME NEW g \in Generation, Settle(g)
  PROVE  Owner'.len = g.len /\ Strays(Owner') = Strays(g) /\ RecoveredInv'
<1>1. CASE StartRebuild(g, g.shape, "TombstoneCleanup", Idle)
  <2>1. Idle \in Call /\ ~Idle.recovered
    BY CallFacts DEF Idle
  <2> QED BY <1>1, <2>1, EpochRebuilding
<1>2. CASE table' = ClearMembership(g) /\ call' = Scanning("refresh")
  <2>1. Owner' = table' /\ call'.at = "refresh"
    BY <1>2, CallFacts, OwnerIs DEF At, FaultPoints
  <2>2. /\ table'.len = g.len /\ table'.ctrl = g.ctrl
        /\ table'.shape = g.shape /\ table'.seed = g.seed
    BY <1>2 DEF ClearMembership, Generation
  <2> QED BY <2>1, <2>2, StraysSame DEF RecoveredInv
<1>3. CASE table' = g /\ call' = Idle
  BY <1>3, CallFacts, OwnerIs DEF RecoveredInv
<1> QED BY <1>1, <1>2, <1>3 DEF Settle

LEMMA EpochPlaceResolved ==
  ASSUME TypeInv, call.at # "rebuild", NEW k \in Keys, NEW v \in Vals \cup {None},
         NEW vacancy, Reported(k, vacancy), NEW rebuilt, PlaceResolved(k, v, vacancy, rebuilt)
  PROVE  Added /\ RecoveredInv'
<1> DEFINE outside == vacancy = {}
<1>1. table \in Generation /\ Owner = table
  BY OwnerIs DEF TypeInv, TypeOK
<1>2. PICK s \in ResolveVacancy(table, vacancy) :
        table' = PlaceNewEntry(table, s, k, v, outside)
  BY DEF PlaceResolved
<1>3. outside \in BOOLEAN /\ (outside <=> vacancy = {})
  OBVIOUS
<1> HIDE DEF outside
<1>4. s \in Slot /\ Free(table, s)
  BY <1>1, SlotFacts, VacantFacts DEF ResolveVacancy, Vacant, Reported
<1>5. call' = Idle /\ call'.at = "idle" /\ Owner' = table'
  BY CallFacts, OwnerIs DEF PlaceResolved
<1>6. table'.len = table.len + 1
  BY <1>1, <1>2, <1>3, <1>4, PlacedCounts
<1>7. Stored(table, table', s, k)
  BY <1>1, <1>2, <1>3, <1>4, PlaceFacts
<1>8. CASE vacancy = {}
  <2>1. epoch' \in {NotePlacementRecovery(epoch),
                    StartWithPlacementRecovery(epoch, "PlacementRecovery")}
    BY <1>8 DEF PlaceResolved
  <2>2. Counting => ~Visits(table, k, s)
    BY <1>4, <1>8 DEF Reported, TellsRoom, Exhausted
  <2>3. Counting => ~NoStrays
    BY <1>1, <1>4, <1>5, <1>7, <2>2, StraysStored DEF NoStrays
  <2> QED BY <1>1, <1>5, <1>6, <2>1, <2>3 DEF Added, RecoveredInv
<1>9. CASE vacancy # {}
  <2>1. epoch' = epoch /\ s \in vacancy
    BY <1>9 DEF PlaceResolved, ResolveVacancy
  <2>2. Counting => Visits(table, k, s)
    BY <2>1 DEF Reported, TellsRoom
  <2>3. Counting => NoStrays
    BY <1>1, <1>4, <1>5, <1>7, <2>2, StraysStored DEF NoStrays
  <2> QED BY <1>1, <1>5, <1>6, <2>1, <2>3 DEF Added, RecoveredInv
<1> QED BY <1>8, <1>9

(* A rebuild of the table begins: the caller's count and strays stay. *)
LEMMA EpochRebuildBegins ==
  ASSUME call.at # "rebuild", NEW shape, NEW tr, NEW rest \in Call,
         StartRebuild(table, shape, tr, rest), ~rest.recovered, epoch' = epoch
  PROVE  Unmoved /\ RecoveredInv'
BY EpochRebuilding, OwnerIs DEF Unmoved, NoStrays

LEMMA EpochPlaceAbsent ==
  ASSUME TypeInv, call.at # "rebuild", NEW k \in Keys, NEW v \in Vals \cup {None},
         NEW vacancy, Reported(k, vacancy), PlaceAbsent(k, v, vacancy)
  PROVE  EpochStep /\ RecoveredInv'
<1> DEFINE rest == [Idle EXCEPT !.then = "recovered", !.key = k, !.val = v]
<1>1. rest \in Call /\ ~rest.recovered
  BY CallFacts DEF Idle, Call, Then
<1>2. CASE StartRebuild(table, table.shape, "PlacementRecovery", rest) /\ epoch' = epoch
  <2> HIDE DEF rest
  <2> QED BY <1>1, <1>2, EpochRebuildBegins DEF EpochStep
<1>3. CASE PlaceResolved(k, v, vacancy, FALSE)
  BY <1>3, EpochPlaceResolved DEF EpochStep
<1> QED BY <1>2, <1>3 DEF PlaceAbsent

LEMMA EpochInsertAbsent ==
  ASSUME TypeInv, call.at # "rebuild", NEW k \in Keys, NEW v \in Vals,
         NEW vacancy, Reported(k, vacancy), InsertAbsent(k, v, vacancy)
  PROVE  EpochStep /\ RecoveredInv'
<1> DEFINE rest == [Idle EXCEPT !.then = "grown", !.key = k, !.val = v, !.probe = table.seed]
<1>1. rest \in Call /\ ~rest.recovered
  BY CallFacts DEF Idle, Call, Then, TypeInv, TypeOK, Generation
<1>2. ASSUME NEW shape, StartRebuild(table, shape, "Growth", rest), epoch' = epoch
      PROVE  EpochStep /\ RecoveredInv'
  <2> HIDE DEF rest
  <2> QED BY <1>1, <1>2, EpochRebuildBegins DEF EpochStep
<1>3. CASE PlaceAbsent(k, v, vacancy)
  BY <1>3, EpochPlaceAbsent
<1> QED BY <1>2, <1>3 DEF InsertAbsent

(* A removal counts a delete and takes one from the count. *)
LEMMA EpochTaken ==
  ASSUME TypeInv, Counts(table), NEW s \in Live(table)
  PROVE  LET g == ExtractFinish(table, s)
         IN  /\ g \in Generation /\ g.len = table.len - 1
             /\ Strays(g) \subseteq Strays(table)
<1> DEFINE g == ExtractFinish(table, s)
<1>1. table \in Generation /\ table.shape \in Shapes /\ table.len \in Nat
  BY DEF TypeInv, TypeOK, Generation
<1>2. g \in Generation /\ g.len = Decrement(table.len)
  BY <1>1, RemovedCounts
<1>3. s \in Slot /\ Emptied(table, g, s)
  BY <1>1, RemoveFacts DEF Live
<1> HIDE DEF g
<1>4. Size(table) # 0 /\ Size(table) \in Nat
  BY SizeEmpty, SizeType DEF Size
<1>5. table.len \in Nat \ {0} /\ table.len <= MaxSlots
  BY <1>1, <1>4, LimitFacts, SlotFacts DEF Counts
<1>6. Strays(g) \subseteq Strays(table)
  BY <1>1, <1>3, StraysFewer
<1> QED BY <1>2, <1>5, <1>6, DecrementFacts DEF g

LEMMA EpochRebuildStep ==
  ASSUME TypeInv, CountInv, RecoveredInv, RebuildStep
  PROVE  Unmoved /\ RecoveredInv'
<1>1. /\ call.at = "rebuild" /\ previous' = previous /\ epoch' = epoch
      /\ previous \in Generation /\ table \in Generation /\ table.seed \in Seeds
      /\ call \in Call
  BY DEF RebuildStep, TypeInv, TypeOK, Generation
<1>2. PICK s \in NextLive(previous) :
        LET vacancy == SearchVacancy(table, table.seed, previous.ctrl[s])
        IN  \E t \in ResolveVacancy(table, vacancy) :
              /\ table' = PlaceNewEntry(table, t, previous.ctrl[s], previous.data[s],
                                        vacancy = {})
              /\ call' = [call EXCEPT !.cursor = s, !.recovered = @ \/ vacancy = {}]
  BY DEF RebuildStep
<1> DEFINE vacancy == SearchVacancy(table, table.seed, previous.ctrl[s])
           outside == vacancy = {}
<1>3. PICK t \in ResolveVacancy(table, vacancy) :
        /\ table' = PlaceNewEntry(table, t, previous.ctrl[s], previous.data[s], outside)
        /\ call' = [call EXCEPT !.cursor = s, !.recovered = @ \/ outside]
  BY <1>2
<1>4. outside \in BOOLEAN
  OBVIOUS
<1>5. previous.ctrl[s] \in Keys /\ s \in Slot
  BY <1>1, NextLiveFacts
<1>6. previous.data[s] \in Vals \cup {None} /\ t \in Slot /\ Free(table, t)
  BY <1>1, <1>3, <1>5, VacantFacts, SlotFacts DEF ResolveVacancy, Vacant, Generation
<1>7. TellsRoom(table, previous.ctrl[s], vacancy)
  BY <1>1, <1>5, SearchTellsRoom
<1>8. (outside => Exhausted(table, previous.ctrl[s])) /\ (~outside => t \in vacancy)
  BY <1>3, <1>7 DEF TellsRoom, ResolveVacancy
<1> HIDE DEF vacancy, outside
<1>9. Stored(table, table', t, previous.ctrl[s])
  BY <1>1, <1>3, <1>4, <1>5, <1>6, PlaceFacts
<1>10. outside <=> ~Visits(table, previous.ctrl[s], t)
  BY <1>6, <1>7, <1>8 DEF TellsRoom, Exhausted
<1>11. /\ ~outside => Strays(table') = Strays(table)
       /\ outside => Strays(table') # {}
  BY <1>1, <1>5, <1>6, <1>9, <1>10, StraysStored
<1>12. call'.at = "rebuild" /\ call'.recovered = (call.recovered \/ outside)
  BY <1>1, <1>3 DEF Call
<1>13. RecoveredInv'
  BY <1>1, <1>4, <1>11, <1>12 DEF RecoveredInv
<1>14. Owner' = Owner
  BY <1>1, <1>12, OwnerIs
<1> QED BY <1>1, <1>12, <1>13, <1>14 DEF Unmoved, NoStrays

(* An abandoned rebuild never leaves the new generation installed: fewer
   entries have moved than the old one holds. *)
LEMMA EpochRebuildPanic ==
  ASSUME TypeInv, CountInv, RebuildPanic
  PROVE  Unmoved /\ RecoveredInv'
<1>1. /\ call.at = "rebuild" /\ table' = previous /\ call' = Idle /\ epoch' = epoch
      /\ ~ScanDone(previous) /\ RebuildCounts /\ previous \in Generation
  BY DEF RebuildPanic, CountInv, TypeInv, TypeOK
<1>2. Owner' = Owner /\ call'.at = "idle"
  BY <1>1, CallFacts, OwnerIs
<1>3. table # previous
  <2>1. PICK s \in Live(previous) : s \notin Passed
    BY <1>1 DEF ScanDone, Passed
  <2>2. Passed \subseteq Live(previous) /\ Passed # Live(previous)
    BY <2>1 DEF Passed
  <2>3. Live(previous) \in SUBSET Slot
    BY DEF Live
  <2>4. IsFiniteSet(Live(previous))
    BY <2>3, SlotsFinite, FS_Subset
  <2>5. Cardinality(Passed) # Cardinality(Live(previous))
    BY <2>2, <2>4, FS_Subset
  <2>6. Size(table) = Cardinality(Passed)
    BY <1>1 DEF RebuildCounts, Size
  <2> QED BY <2>5, <2>6 DEF Size
<1> QED BY <1>1, <1>2, <1>3 DEF Unmoved, RecoveredInv, NoStrays

LEMMA EpochInit == Init => RecoveredInv
BY CallFacts DEF Init, RecoveredInv

LEMMA EpochNext ==
  ASSUME TypeInv, CountInv, RecoveredInv, Next
  PROVE  EpochStep /\ RecoveredInv'
<1>1. /\ table \in Generation /\ call \in Call /\ table.seed \in Seeds
      /\ call.at # "rebuild" => Counts(table)
      /\ call = Idle => Tally(table)
      /\ Idle \in Call /\ Idle.at = "idle" /\ ~Idle.recovered
  BY CallFacts DEF TypeInv, TypeOK, CountInv, Generation, Idle
<1>2. ASSUME NEW k \in Keys, NEW v \in Vals, Insert(k, v) \/ EntryOrInsert(k, v)
      PROVE  EpochStep /\ RecoveredInv'
  <2>1. call = Idle
    BY <1>2 DEF Insert, EntryOrInsert
  <2>2. ASSUME NEW s, table' = [table EXCEPT !.data[s] = v], call' = call, epoch' = epoch
        PROVE  Unmoved /\ RecoveredInv'
    <3>1. /\ table'.len = table.len /\ table'.ctrl = table.ctrl
          /\ table'.shape = table.shape /\ table'.seed = table.seed
      BY <1>1, <2>2 DEF Generation
    <3> QED BY <1>1, <2>1, <2>2, <3>1, StraysSame, OwnerIs DEF Unmoved, NoStrays, RecoveredInv
  <2>3. ASSUME table' = table, call' = call, epoch' = epoch PROVE Unmoved /\ RecoveredInv'
    BY <1>1, <2>1, <2>3, OwnerIs DEF Unmoved, NoStrays, RecoveredInv
  <2>4. ASSUME NEW vacancy, Reported(k, vacancy), InsertAbsent(k, v, vacancy)
        PROVE  EpochStep /\ RecoveredInv'
    BY <1>1, <2>1, <2>4, EpochInsertAbsent
  <2>5. Reported(k, SearchVacancy(table, table.seed, k))
    BY <1>1, SearchTellsRoom, VacantFacts DEF Reported
  <2>6. ASSUME NEW clean \in BOOLEAN, clean => table.tombstones = 0,
               Locate(table, k) = {}, GatePasses(table, k)
        PROVE  Reported(k, ExactVacancy(table, table.seed, k, clean))
    <3>1. ExactHit(table, table.seed, k) = {}
      BY <2>6 DEF Locate
    <3>2. Counting /\ table.tombstones = 0 => Tombs(table) = {}
      BY <1>1, <2>1, SizeEmpty, SizeType DEF Tally, Exact, Counting
    <3>3. Counting => TellsRoom(table, k, ExactVacancy(table, table.seed, k, clean))
      BY <1>1, <2>6, <3>1, <3>2, ExactTellsRoom
    <3> QED BY <1>1, <2>6, <3>3, VacantFacts DEF Reported
  <2>7. CASE Insert(k, v)
    <3> DEFINE clean == table.tombstones = 0
    <3>1. clean \in BOOLEAN /\ (clean => table.tombstones = 0)
      OBVIOUS
    <3>2. \/ \E s \in Locate(table, k) :
                table' = [table EXCEPT !.data[s] = v] /\ call' = call /\ epoch' = epoch
          \/ /\ Locate(table, k) = {}
             /\ InsertAbsent(k, v, IF GatePasses(table, k)
                                   THEN ExactVacancy(table, table.seed, k, clean)
                                   ELSE SearchVacancy(table, table.seed, k))
      BY <2>7 DEF Insert
    <3> HIDE DEF clean
    <3> QED BY <2>2, <2>4, <2>5, <2>6, <3>1, <3>2 DEF EpochStep
  <2>8. CASE EntryOrInsert(k, v)
    BY <2>3, <2>4, <2>5, <2>6, <2>8 DEF EntryOrInsert, EpochStep
  <2> QED BY <1>2, <2>7, <2>8
<1>3. ASSUME call.at # "rebuild", table' = table, epoch' = epoch,
             call'.at # "rebuild"
      PROVE  EpochStep /\ RecoveredInv'
  BY <1>3, OwnerIs DEF Unmoved, NoStrays, EpochStep, RecoveredInv
<1>4. ASSUME NEW k \in Keys, Get(k) PROVE EpochStep /\ RecoveredInv'
  BY <1>1, <1>3, <1>4 DEF Get
<1>5. ASSUME NEW k \in Keys, Remove(k) PROVE EpochStep /\ RecoveredInv'
  <2>1. call = Idle
    BY <1>5 DEF Remove
  <2>2. ASSUME NEW s \in FindLocation(table, k) \cup Locate(table, k),
               Settle(ExtractFinish(table, s)), epoch' = NoteDelete(epoch)
        PROVE  Taken /\ RecoveredInv'
    <3>1. s \in Live(table)
      BY <1>1, HitHoldsKey DEF Live
    <3>2. /\ ExtractFinish(table, s) \in Generation
          /\ ExtractFinish(table, s).len = table.len - 1
          /\ Strays(ExtractFinish(table, s)) \subseteq Strays(table)
      BY <1>1, <2>1, <3>1, EpochTaken
    <3> QED BY <1>1, <2>1, <2>2, <3>2, EpochSettle, OwnerIs DEF Taken, NoStrays
  <2>3. CASE UNCHANGED <<table, previous, call, epoch>>
    BY <1>1, <1>3, <2>1, <2>3
  <2> QED BY <1>5, <2>2, <2>3 DEF Remove, EpochStep
<1>6. ASSUME NEW at \in {"clear", "drain", "extract"}, StartScan(at)
      PROVE  EpochStep /\ RecoveredInv'
  <2>1. call'.at = at
    BY <1>6, CallFacts DEF StartScan, At, FaultPoints
  <2> QED BY <1>1, <1>3, <1>6, <2>1 DEF StartScan
<1>7. ASSUME NEW n \in 0..MaxInsertions[LastShape], Reserve(n) \/ ShrinkTo(n)
      PROVE  EpochStep /\ RecoveredInv'
  <2>1. PICK shape : StartRebuild(table, shape, "ExplicitResize", Idle)
    BY <1>7 DEF Reserve, ShrinkTo
  <2>2. call.at # "rebuild" /\ epoch' = epoch
    BY <1>1, <1>7 DEF Reserve, ShrinkTo
  <2> QED BY <1>1, <2>1, <2>2, EpochRebuildBegins DEF EpochStep
<1>8. CASE RebuildStep
  BY <1>8, EpochRebuildStep DEF EpochStep
<1>9. CASE RebuildPanic
  BY <1>9, EpochRebuildPanic DEF EpochStep
<1>10. CASE RebuildCommit
  <2>1. call'.at # "rebuild"
    BY <1>1, <1>10 DEF RebuildCommit, Call
  <2> QED BY <1>10, <2>1 DEF RebuildCommit, Committed, EpochStep, RecoveredInv
<1>11. CASE ResumePlace
  <2>1. /\ call.at = "place" /\ call.key \in Keys /\ call.val \in Vals \cup {None}
        /\ call.probe \in Seeds
    BY <1>1, <1>11 DEF ResumePlace, CountInv, TypeInv, PendingKey, Call
  <2>2. call.then = "grown" => call.probe = table.seed
    BY <2>1 DEF TypeInv, PendingProbe
  <2>3. Reported(call.key, SearchVacancy(table, table.seed, call.key))
    BY <1>1, <2>1, SearchTellsRoom, VacantFacts DEF Reported
  <2> QED BY <1>11, <2>1, <2>2, <2>3, EpochPlaceAbsent, EpochPlaceResolved
          DEF ResumePlace, EpochStep
<1>12. CASE RefreshStep \/ RefreshDone \/ RefreshPanic
  <2>1. call.at = "refresh" /\ epoch' = epoch
    BY <1>12 DEF RefreshStep, RefreshDone, RefreshPanic
  <2>2. /\ table'.len = table.len /\ table'.ctrl = table.ctrl
        /\ table'.shape = table.shape /\ table'.seed = table.seed
    BY <1>1, <1>12 DEF RefreshStep, RefreshDone, RefreshPanic, RecordMembership, Generation
  <2>3. call'.at \in {"refresh", "idle"}
    BY <1>1, <1>12, <2>1 DEF RefreshStep, RefreshDone, RefreshPanic, Call
  <2> QED BY <2>1, <2>2, <2>3, StraysSame, OwnerIs DEF Unmoved, NoStrays, EpochStep, RecoveredInv
<1>13. CASE ClearStep \/ DrainStep
  <2>1. PICK s \in NextLive(table) : table' \in {ClearSlot(table, s), TombstoneSlot(table, s)}
    BY <1>13 DEF ClearStep, DrainStep
  <2>2. call.at \in {"clear", "drain"} /\ epoch' = epoch /\ call'.at # "rebuild"
    BY <1>1, <1>13 DEF ClearStep, DrainStep
  <2>3. s \in Slot
    BY <1>1, <2>1, NextLiveFacts
  <2>4. /\ Emptied(table, ClearSlot(table, s), s)
        /\ Emptied(table, TombstoneSlot(table, s), s)
    BY <1>1, <2>3, RemoveFacts
  <2>5. Strays(table') \subseteq Strays(table)
    BY <1>1, <2>1, <2>3, <2>4, StraysFewer
  <2> QED BY <2>2, <2>5, OwnerIs DEF Swept, NoStrays, EpochStep, RecoveredInv
<1>14. CASE Wipe
  <2>1. call.at \in {"clear", "drain"} /\ call'.at = "idle"
        /\ epoch' = StartOf(epoch, "Clear") /\ table' = WipeAll(table)
    BY <1>1, <1>14 DEF Wipe
  <2>2. Live(table') = {}
    BY <1>1, <2>1, ResetFacts
  <2>3. Strays(table') = {}
    BY <2>2, StraysNone
  <2> QED BY <2>1, <2>3, OwnerIs DEF Swept, NoStrays, EpochStep, RecoveredInv
<1>15. CASE DrainAbandon \/ ExtractForget
  BY <1>1, <1>3, <1>15 DEF DrainAbandon, ExtractForget
<1>16. CASE ExtractStep
  <2>1. PICK s \in NextLive(table) :
          /\ call' = [call EXCEPT !.cursor = s]
          /\ \/ UNCHANGED <<table, epoch>>
             \/ table' = ExtractFinish(table, s) /\ epoch' = NoteDelete(epoch)
    BY <1>16 DEF ExtractStep
  <2>2. s \in Live(table) /\ call.at = "extract" /\ call'.at = "extract"
    BY <1>1, <1>16, <2>1, NextLiveFacts DEF ExtractStep, Call
  <2>3. CASE UNCHANGED <<table, epoch>>
    BY <1>3, <2>2, <2>3
  <2>4. CASE table' = ExtractFinish(table, s) /\ epoch' = NoteDelete(epoch)
    <3>1. table'.len = table.len - 1 /\ Strays(table') \subseteq Strays(table)
      BY <1>1, <2>2, <2>4, EpochTaken
    <3> QED BY <2>2, <2>4, <3>1, OwnerIs DEF Taken, NoStrays, EpochStep, RecoveredInv
  <2> QED BY <2>1, <2>3, <2>4
<1>17. CASE ExtractEnd
  <2>1. call.at = "extract" /\ Settle(table) /\ epoch' = epoch
    BY <1>17 DEF ExtractEnd
  <2>2. Owner'.len = table.len /\ Strays(Owner') = Strays(table) /\ RecoveredInv'
    BY <1>1, <2>1, EpochSettle
  <2> QED BY <2>1, <2>2, OwnerIs DEF Unmoved, NoStrays, EpochStep
<1> QED BY <1>2, <1>4, <1>5, <1>6, <1>7, <1>8, <1>9, <1>10, <1>11, <1>12, <1>13,
           <1>14, <1>15, <1>16, <1>17 DEF Next, Begin, Progress, Fault

LEMMA RecoveredStutter ==
  ASSUME RecoveredInv, UNCHANGED vars
  PROVE  RecoveredInv'
BY DEF vars, RecoveredInv

LEMMA EpochInvariant == Spec => [](TypeInv /\ CountInv /\ RecoveredInv)
<1>1. TypeInv /\ CountInv /\ RecoveredInv /\ [Next]_vars => RecoveredInv'
  BY EpochNext, RecoveredStutter
<1> QED BY <1>1, EpochInit, CountInvariant, PTL DEF Spec

(* Inside an epoch the live entries and the deletions together never fall,
   whatever user code abandons: only a sweep takes entries uncounted. *)
THEOREM InsertionsOnlyGrowHolds == Spec => InsertionsOnlyGrow
<1> DEFINE grow ==
      /\ epoch' # epoch \/ Owner'.len # Owner.len
      /\ epoch'.generation = epoch.generation /\ epoch.generation < GenMax
      /\ epoch.deletions < DelMax
      /\ call.at \notin {"clear", "drain"}
      => DistinctInsertions(epoch', Owner'.len) >= DistinctInsertions(epoch, Owner.len)
<1>1. TypeInv /\ CountInv /\ RecoveredInv /\ [Next]_vars => [grow]_vars
  <2> SUFFICES ASSUME TypeInv, CountInv, RecoveredInv, Next PROVE grow
    BY DEF vars
  <2>1. /\ epoch \in Epoch /\ epoch.generation \in Nat /\ epoch.deletions \in Nat
        /\ Owner.len \in Nat /\ GenMax \in Nat /\ DelMax \in Nat
    BY WidthAssumption DEF TypeInv, TypeOK, Epoch, Owner, Generation
  <2>2. \A e \in Epoch : e.generation < GenMax =>
          \A t : StartOf(e, t).generation = e.generation + 1
    BY DEF StartOf, SaturatingSucc
  <2>3. NotePlacementRecovery(epoch) \in Epoch
        /\ NotePlacementRecovery(epoch).generation = epoch.generation
        /\ NotePlacementRecovery(epoch).deletions = epoch.deletions
    BY <2>1, WidthAssumption DEF NotePlacementRecovery, Epoch, SaturatingSucc
  <2>4. CASE Unmoved
    BY <2>4 DEF Unmoved
  <2>5. CASE Taken
    <3>1. epoch.deletions < DelMax => epoch'.deletions = epoch.deletions + 1
      BY <2>1, <2>5 DEF Taken, NoteDelete, Epoch, SaturatingSucc
    <3> QED BY <2>1, <2>5, <3>1 DEF Taken, DistinctInsertions
  <2>6. CASE Added
    <3>1. CASE epoch' = epoch \/ epoch' = NotePlacementRecovery(epoch)
      BY <2>1, <2>3, <2>6, <3>1 DEF Added, DistinctInsertions
    <3>2. CASE epoch' = StartWithPlacementRecovery(epoch, "PlacementRecovery")
      BY <2>1, <2>2, <2>3, <3>2 DEF StartWithPlacementRecovery
    <3> QED BY <2>6, <3>1, <3>2 DEF Added
  <2>7. CASE Committed
    <3>1. epoch.generation < GenMax => epoch'.generation = epoch.generation + 1
      BY <2>1, <2>2, <2>3, <2>7 DEF Committed, StartEpoch, StartWithPlacementRecovery
    <3> QED BY <2>1, <3>1
  <2>8. CASE Swept
    BY <2>8 DEF Swept
  <2> QED BY <2>4, <2>5, <2>6, <2>7, <2>8, EpochNext DEF EpochStep
<1>2. [][grow]_vars => InsertionsOnlyGrow
  BY DEF InsertionsOnlyGrow
<1> QED BY <1>1, <1>2, EpochInvariant, PTL DEF Spec

(* Exactly the steps that leave a key off its walk count a recovery, one
   each, in a flagged generation too; a reseed that helped and a rebuild
   undone count none.  The clean scan of insert is told apart from the walk
   by the tombstone counter, which an abandoned drain leaves wrong. *)
THEOREM RecoveryCountedHolds ==
  ASSUME "drain" \notin Faults
  PROVE  Spec => RecoveryCounted
<1> DEFINE counted ==
      epoch'.recoveries = IF NewStrays = {} THEN epoch.recoveries
                          ELSE SaturatingSucc(epoch.recoveries, RecMax)
<1>1. TypeInv /\ CountInv /\ RecoveredInv /\ [Next]_vars => [counted]_vars
  <2> SUFFICES ASSUME TypeInv, CountInv, RecoveredInv, Next PROVE counted
    BY DEF vars
  <2>1. epoch \in Epoch /\ Counting
    BY DEF TypeInv, TypeOK, Counting
  <2>2. \A t : /\ NotePlacementRecovery(epoch).recoveries
                    = SaturatingSucc(epoch.recoveries, RecMax)
               /\ StartWithPlacementRecovery(epoch, t).recoveries
                    = SaturatingSucc(epoch.recoveries, RecMax)
    BY <2>1 DEF NotePlacementRecovery, StartWithPlacementRecovery, StartOf, Epoch
  <2>3. \A t : StartOf(epoch, t).recoveries = epoch.recoveries
    BY DEF StartOf
  <2>4. NoteDelete(epoch).recoveries = epoch.recoveries
    BY <2>1 DEF NoteDelete, Epoch
  <2>5. ASSUME ~(call.at = "rebuild" /\ call'.at # "rebuild" /\ table' = table)
        PROVE  NewStrays = {} <=> NoStrays
    BY <2>5 DEF NewStrays, NoStrays
  <2>6. CASE Unmoved
    BY <2>5, <2>6 DEF Unmoved
  <2>7. CASE Taken
    BY <2>4, <2>5, <2>7 DEF Taken
  <2>8. CASE Added
    BY <2>1, <2>2, <2>5, <2>8 DEF Added
  <2>9. CASE Committed
    <3>1. NewStrays = Strays(table) /\ (call.recovered <=> Strays(table) # {})
      BY <2>9 DEF Committed, RecoveredInv, NewStrays
    <3> QED BY <2>2, <2>3, <2>9, <3>1 DEF Committed, StartEpoch
  <2>10. CASE Swept
    BY <2>3, <2>5, <2>10 DEF Swept
  <2> QED BY <2>6, <2>7, <2>8, <2>9, <2>10, EpochNext DEF EpochStep
<1>2. [][counted]_vars => RecoveryCounted
  BY DEF RecoveryCounted
<1> QED BY <1>1, <1>2, EpochInvariant, PTL DEF Spec
==============================================================================
