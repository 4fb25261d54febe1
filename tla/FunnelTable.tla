----------------------------- MODULE FunnelTable -----------------------------
(***************************************************************************)
(* The Funnel hash map: the operations of FunnelTable and of the map shell *)
(* over it, and the three loops that call user code with the table half    *)
(* done: the rebuild and the filter refresh hash each key, clear and drain *)
(* drop each value.  One step of a loop is one action, so that a panic in  *)
(* the user's code can end the call between any two.                       *)
(*                                                                         *)
(* A map is used through &mut: while a call is in progress no other one    *)
(* starts.  call says which loop runs, how far it is, and how the call     *)
(* goes on after a rebuild; between calls it is Idle.                      *)
(***************************************************************************)
EXTENDS FunnelGeneration, EpochState

CONSTANTS
  Faults,     \* the loops that user code may abandon: by a panic, or by a
              \* mem::forget of a drain or of an extract_if
  MaxStale    \* bound on the stale-delete counter of leaked extract_if scans

VARIABLES
  table,      \* the installed generation
  previous,   \* the generation a rebuild replaces, None outside a rebuild
  call,       \* the call in progress
  epoch,
  event       \* what the caller saw last: an answer, a bulk removal, or nothing

vars == <<table, previous, call, epoch, event>>

FaultPoints == {"rebuild", "refresh", "clear", "drain", "extract"}
ASSUME FaultAssumption == Faults \subseteq FaultPoints /\ MaxStale \in Nat

At == {"idle", "place"} \cup FaultPoints

(* What is left of the call once its rebuild has committed: nothing, an
   insert after growth, or an insert after a placement recovery. *)
Then == {"return", "grown", "recovered"}

Call == [at : At, then : Then, cursor : Nat, key : Keys \cup {None},
         val : Vals \cup {None}, probe : Seeds, transition : Transition,
         recovered : BOOLEAN]

Idle == [at |-> "idle", then |-> "return", cursor |-> 0, key |-> None, val |-> None,
         probe |-> 0, transition |-> "Initial", recovered |-> FALSE]

Scanning(at) == [Idle EXCEPT !.at = at]

(* with_capacity; new is with_capacity(0), which allocates nothing. *)
Init ==
  /\ \E capacity \in 0..MaxInsertions[LastShape], shape \in Shapes :
       /\ shape \in ForInsertBudget(capacity)
       /\ table = Fresh(shape, 0)
  /\ previous = None
  /\ call = Idle
  /\ epoch = InitialEpoch
  /\ event = Quiet

(* The next slot the running loop visits: the next occupied slot of a
   generation past the cursor. *)
NextLive(g) == First({s \in Live(g) : s > call.cursor})
ScanDone(g) == \A s \in Live(g) : s <= call.cursor

------------------------------------------------------------------------------
(* Rebuild: every entry of the old generation is hashed in place, copied
   and placed in the new one, which is already installed. *)

(* Install an empty generation of the shape in place of old.  Only a
   placement recovery changes the probe seed. *)
StartRebuild(old, shape, transition, rest) ==
  /\ previous' = old
  /\ table' = Fresh(shape, IF transition = "PlacementRecovery"
                           THEN (old.seed + 1) % SeedCount ELSE old.seed)
  /\ call' = [rest EXCEPT !.at = "rebuild", !.transition = transition]

(* The slot an absent key gets: the first free one of its walk, else the
   first free one anywhere. *)
ResolveVacancy(g, vacancy) == IF vacancy = {} THEN FirstFreeGlobal(g) ELSE vacancy

(* Mutant: a key whose walk is exhausted is dropped. *)
RebuildStepDrops ==
  /\ call.at = "rebuild"
  /\ \E s \in NextLive(previous) :
       LET k       == previous.ctrl[s]
           vacancy == SearchVacancy(table, table.seed, k)
       IN  /\ table' = IF vacancy = {} THEN table
                       ELSE LET t == CHOOSE t \in vacancy : TRUE
                            IN  PlaceNewEntry(table, t, k, previous.data[s], FALSE)
           /\ call' = [call EXCEPT !.cursor = s]
  /\ UNCHANGED <<previous, epoch, event>>

RebuildStep ==
  /\ call.at = "rebuild"
  /\ \E s \in NextLive(previous) :
       LET k       == previous.ctrl[s]
           vacancy == SearchVacancy(table, table.seed, k)
       IN  \E t \in ResolveVacancy(table, vacancy) :
             /\ table' = PlaceNewEntry(table, t, k, previous.data[s], vacancy = {})
             /\ call' = [call EXCEPT !.cursor = s, !.recovered = @ \/ vacancy = {}]
  /\ UNCHANGED <<previous, epoch, event>>

(* Mutant: the uncommitted rebuild keeps the half-filled generation. *)
RebuildPanicKeepsNew ==
  /\ call.at = "rebuild" /\ "rebuild" \in Faults
  /\ ~ScanDone(previous)
  /\ previous' = None
  /\ call' = Idle
  /\ UNCHANGED <<table, epoch, event>>

(* The hasher panics on the next key: the uncommitted rebuild puts the old
   generation back, and the call is over. *)
RebuildPanic ==
  /\ call.at = "rebuild" /\ "rebuild" \in Faults
  /\ ~ScanDone(previous)
  /\ table' = previous
  /\ previous' = None
  /\ call' = Idle
  /\ UNCHANGED <<epoch, event>>

(* Mutant: the old generation is never released. *)
RebuildCommitKeepsOld ==
  /\ call.at = "rebuild"
  /\ ScanDone(previous)
  /\ epoch' = StartEpoch(epoch, call.transition, call.recovered)
  /\ call' = IF call.then = "return" THEN Idle ELSE [call EXCEPT !.at = "place"]
  /\ UNCHANGED <<table, previous, event>>

(* The old arena is freed, the epoch begins, and the call goes on. *)
RebuildCommit ==
  /\ call.at = "rebuild"
  /\ ScanDone(previous)
  /\ previous' = None
  /\ epoch' = StartEpoch(epoch, call.transition, call.recovered)
  /\ call' = IF call.then = "return" THEN Idle ELSE [call EXCEPT !.at = "place"]
  /\ UNCHANGED <<table, event>>

------------------------------------------------------------------------------
(* get, insert and entry.                                                  *)

Get(k) ==
  /\ call = Idle
  /\ event' = Answered("get", k, None,
                LET found == FindLocation(table, k)
                IN  IF found = {} THEN None ELSE table.data[CHOOSE s \in found : TRUE])
  /\ UNCHANGED <<table, previous, call, epoch>>

(* Mutant: only the first key outside its walk is counted. *)
PlaceResolvedCountsOnce(k, v, vacancy, rebuilt) ==
  /\ \E s \in ResolveVacancy(table, vacancy) :
       table' = PlaceNewEntry(table, s, k, v, vacancy = {})
  /\ epoch' = IF vacancy # {} \/ table.exceptional THEN epoch
              ELSE IF rebuilt THEN NotePlacementRecovery(epoch)
              ELSE StartWithPlacementRecovery(epoch, "PlacementRecovery")
  /\ call' = Idle
  /\ event' = Answered("insert", k, v, None)
  /\ UNCHANGED previous

(* Place an absent key.  A placement outside the walk counts a recovery: in
   the epoch its own rebuild began, else in a new epoch without a rebuild. *)
PlaceResolved(k, v, vacancy, rebuilt) ==
  /\ \E s \in ResolveVacancy(table, vacancy) :
       table' = PlaceNewEntry(table, s, k, v, vacancy = {})
  /\ epoch' = IF vacancy # {} THEN epoch
              ELSE IF rebuilt THEN NotePlacementRecovery(epoch)
              ELSE StartWithPlacementRecovery(epoch, "PlacementRecovery")
  /\ call' = Idle
  /\ event' = Answered("insert", k, v, None)
  /\ UNCHANGED previous

(* place_absent_after_search: an exhausted walk first rebuilds under a fresh
   seed, unless the epoch already placed a key outside its walk. *)
PlaceAbsent(k, v, vacancy) ==
  \/ /\ vacancy = {} /\ ~table.exceptional
     /\ StartRebuild(table, table.shape, "PlacementRecovery",
                     [Idle EXCEPT !.then = "recovered", !.key = k, !.val = v])
     /\ event' = Quiet
     /\ UNCHANGED epoch
  \/ /\ vacancy # {} \/ table.exceptional
     /\ PlaceResolved(k, v, vacancy, FALSE)

(* An absent key: grow at the limit, which makes the search stale, else use
   the search.  Without a larger shape the call panics and changes nothing. *)
InsertAbsent(k, v, vacancy) ==
  \/ /\ table.len >= MaxInsertions[table.shape]
     /\ \E shape \in NextGrowthShape(table, table.len + 1) :
          StartRebuild(table, shape, "Growth",
            [Idle EXCEPT !.then = "grown", !.key = k, !.val = v, !.probe = table.seed])
     /\ event' = Quiet
     /\ UNCHANGED epoch
  \/ /\ table.len < MaxInsertions[table.shape]
     /\ PlaceAbsent(k, v, vacancy)

Insert(k, v) ==
  /\ call = Idle
  /\ LET hit == Locate(table, k)
     IN \/ \E s \in hit :
             /\ table' = [table EXCEPT !.data[s] = v]
             /\ event' = Answered("insert", k, v, table.data[s])
             /\ UNCHANGED <<previous, call, epoch>>
        \/ /\ hit = {}
           /\ InsertAbsent(k, v,
                IF GatePasses(table, k)
                THEN ExactVacancy(table, table.seed, k, table.tombstones = 0)
                ELSE SearchVacancy(table, table.seed, k))

(* entry(k).or_insert(v): the token of the vacant entry keeps the walk's
   vacancy, or that it was exhausted, or that the filter spared it. *)
EntryOrInsert(k, v) ==
  /\ call = Idle
  /\ LET hit == Locate(table, k)
     IN \/ \E s \in hit :
             /\ event' = Answered("get", k, None, table.data[s])
             /\ UNCHANGED <<table, previous, call, epoch>>
        \/ /\ hit = {}
           /\ InsertAbsent(k, v,
                IF GatePasses(table, k)
                THEN ExactVacancy(table, table.seed, k, FALSE)
                ELSE SearchVacancy(table, table.seed, k))

(* Mutant: an insert goes back to placing after its recovery rebuild. *)
ResumePlaceRetries ==
  /\ call.at = "place"
  /\ PlaceAbsent(call.key, call.val,
        SearchVacancy(table, IF call.then = "grown" THEN call.probe ELSE table.seed,
                      call.key))

(* The insert after its rebuild: growth keeps the probe of the call's start,
   a recovery walks under the new seed and does not rebuild again. *)
ResumePlace ==
  /\ call.at = "place"
  /\ \/ /\ call.then = "grown"
        /\ PlaceAbsent(call.key, call.val, SearchVacancy(table, call.probe, call.key))
     \/ /\ call.then = "recovered"
        /\ PlaceResolved(call.key, call.val,
                         SearchVacancy(table, table.seed, call.key), TRUE)

------------------------------------------------------------------------------
(* Removal and its deferred maintenance.                                   *)

(* settle_after_deletes, on the table g the removal leaves: a same-size
   rebuild past the tombstone threshold, else a filter refresh. *)
Settle(g) ==
  \/ /\ NeedsCleanup(g)
     /\ StartRebuild(g, g.shape, "TombstoneCleanup", Idle)
  \/ /\ ~NeedsCleanup(g) /\ NeedsRefresh(g)
     /\ table' = ClearMembership(g)
     /\ call' = Scanning("refresh")
     /\ UNCHANGED previous
  \/ /\ ~NeedsCleanup(g) /\ ~NeedsRefresh(g)
     /\ table' = g
     /\ call' = Idle
     /\ UNCHANGED previous

(* remove(k), and OccupiedEntry::remove through the entry-side search. *)
Remove(k) ==
  /\ call = Idle
  /\ \/ \E s \in FindLocation(table, k) \cup Locate(table, k) :
          /\ event' = Answered("remove", k, None, table.data[s])
          /\ epoch' = NoteDelete(epoch)
          /\ Settle(ExtractFinish(table, s))
     \/ /\ FindLocation(table, k) = {}
        /\ event' = Answered("remove", k, None, None)
        /\ UNCHANGED <<table, previous, call, epoch>>

(* refresh_membership hashes one more live key and records it. *)
RefreshStep ==
  /\ call.at = "refresh"
  /\ \E s \in NextLive(table) :
       /\ table' = RecordMembership(table, table.ctrl[s], s)
       /\ call' = [call EXCEPT !.cursor = s]
  /\ UNCHANGED <<previous, epoch, event>>

RefreshDone ==
  /\ call.at = "refresh"
  /\ ScanDone(table)
  /\ call' = Idle
  /\ UNCHANGED <<table, previous, epoch, event>>

(* The hasher panics on the next key: the call is over as it stands. *)
RefreshPanic ==
  /\ call.at = "refresh" /\ "refresh" \in Faults
  /\ ~ScanDone(table)
  /\ call' = Idle
  /\ UNCHANGED <<table, previous, epoch, event>>

------------------------------------------------------------------------------
(* Bulk removal.                                                           *)

(* clear, drain and extract_if put a scan before the first slot. *)
StartScan(at) ==
  /\ call = Idle
  /\ call' = Scanning(at)
  /\ event' = Bulky(at)
  /\ UNCHANGED <<table, previous, epoch>>

(* clear takes and counts one value and drops it; a panic of that drop ends
   the call there. *)
ClearStep ==
  /\ call.at = "clear"
  /\ \E s \in NextLive(table) : table' = ClearSlot(table, s)
  /\ \/ UNCHANGED call
     \/ "clear" \in Faults /\ call' = Idle
  /\ UNCHANGED <<previous, epoch, event>>

(* A drain hands out one entry, or its drop runs on; it counts nothing. *)
DrainStep ==
  /\ call.at = "drain"
  /\ \E s \in NextLive(table) : table' = TombstoneSlot(table, s)
  /\ UNCHANGED <<previous, call, epoch, event>>

(* The drain is forgotten, or an entry's drop panics inside its drop. *)
DrainAbandon ==
  /\ call.at = "drain" /\ "drain" \in Faults
  /\ call' = Idle
  /\ UNCHANGED <<table, previous, epoch, event>>

(* Nothing is left: clear and drain reset the whole table. *)
Wipe ==
  /\ call.at \in {"clear", "drain"}
  /\ ScanDone(table)
  /\ table' = WipeAll(table)
  /\ epoch' = StartOf(epoch, "Clear")
  /\ call' = Idle
  /\ event' = Quiet
  /\ UNCHANGED previous

(* The predicate of extract_if (of retain) decides the next entry. *)
ExtractStep ==
  /\ call.at = "extract"
  /\ \E s \in NextLive(table) :
       /\ call' = [call EXCEPT !.cursor = s]
       /\ \/ UNCHANGED <<table, epoch>>
          \/ /\ table.stale < MaxStale
             /\ table' = ExtractFinish(table, s)
             /\ epoch' = NoteDelete(epoch)
  /\ UNCHANGED <<previous, event>>

(* The scan is exhausted or dropped: the deferred maintenance runs. *)
ExtractEnd ==
  /\ call.at = "extract"
  /\ Settle(table)
  /\ event' = Quiet
  /\ UNCHANGED epoch

(* The extract_if is forgotten: the maintenance waits for a later removal. *)
ExtractForget ==
  /\ call.at = "extract" /\ "extract" \in Faults
  /\ call' = Idle
  /\ UNCHANGED <<table, previous, epoch, event>>

------------------------------------------------------------------------------
(* Explicit resizes.                                                       *)

(* reserve: room for so many more entries than are live. *)
Reserve(additional) ==
  /\ call = Idle
  /\ table.len + additional > MaxInsertions[table.shape]
  /\ \E shape \in NextGrowthShape(table, table.len + additional) :
       StartRebuild(table, shape, "ExplicitResize", Idle)
  /\ event' = Quiet
  /\ UNCHANGED epoch

(* shrink_to: the smallest shape for the live entries, if it is smaller. *)
ShrinkTo(minCapacity) ==
  /\ call = Idle
  /\ \E shape \in ForInsertBudget(IF minCapacity > table.len THEN minCapacity
                                  ELSE table.len) :
       /\ SlotCount[shape] < SlotCount[table.shape]
       /\ StartRebuild(table, shape, "ExplicitResize", Idle)
  /\ event' = Quiet
  /\ UNCHANGED epoch

------------------------------------------------------------------------------
(* The steps of a call in progress that no fault takes. *)
Progress ==
  \/ RebuildStep \/ RebuildCommit \/ ResumePlace
  \/ RefreshStep \/ RefreshDone
  \/ ClearStep \/ DrainStep \/ Wipe
  \/ ExtractStep \/ ExtractEnd

Fault == RebuildPanic \/ RefreshPanic \/ DrainAbandon \/ ExtractForget

Begin ==
  \/ \E k \in Keys, v \in Vals : Insert(k, v) \/ EntryOrInsert(k, v)
  \/ \E k \in Keys : Get(k) \/ Remove(k)
  \/ \E at \in {"clear", "drain", "extract"} : StartScan(at)
  \/ \E n \in 0..MaxInsertions[LastShape] : Reserve(n) \/ ShrinkTo(n)

Next == Begin \/ Progress \/ Fault

Spec == Init /\ [][Next]_vars

(* A call that has begun runs on until it returns: the thread that made it
   executes nothing else. *)
FairSpec == Spec /\ WF_vars(Progress)

------------------------------------------------------------------------------
(* The entries of the map, wherever a rebuild in progress has them: the old
   generation owns them until the commit. *)
Owner == IF call.at = "rebuild" THEN previous ELSE table

Contents(g) ==
  [k \in Keys |-> IF \E s \in Slot : g.ctrl[s] = k
                  THEN g.data[CHOOSE s \in Slot : g.ctrl[s] = k] ELSE None]

(* Every variable holds a value of its type, and there is an old generation
   exactly while a rebuild runs. *)
TypeOK ==
  /\ table \in Generation
  /\ call \in Call
  /\ epoch \in Epoch
  /\ event \in Event
  /\ IF call.at = "rebuild" THEN previous \in Generation ELSE previous = None

(* The slot is on its key's walk, and no earlier slot of the walk is free to
   stop a lookup: what placement establishes and every later write must keep. *)
OnWalk(g, s) ==
  LET w == Walk[g.shape][g.seed][g.ctrl[s]]
  IN  \E i \in DOMAIN w : /\ w[i] = s
                          /\ \A j \in 1..(i - 1) : w[j] # s /\ g.ctrl[w[j]] # EMPTY

(* A lookup stops at EMPTY because no slot goes back to EMPTY while its
   epoch lives (the argument of lookup_recorded_levels): each live key is on
   its walk with no EMPTY before it, or its table is flagged for full scans.
   It must survive tombstones, interrupted clears, drains and refreshes. *)
NoEmptyBeforeKey ==
  \A s \in Live(table) : table.exceptional \/ OnWalk(table, s)

(* "a missing bit proves no insert ever recorded that key": the filter word
   has the bits of every live key, and its bin the level the key is stored
   at, whenever a lookup may run. *)
Recorded(g, s) ==
  /\ FilterBits[g.shape][g.ctrl[s]] \subseteq g.filter
  /\ <<BinOf[g.shape][g.ctrl[s]], LevelBit(g, s)>> \in g.bins

FilterCoversLiveKeys ==
  call = Idle => \A s \in Live(table) : Recorded(table, s)

(* get, contains_key and remove find every live key, at its slot: filter,
   level bins, EMPTY stop and full scan together skip nothing. *)
FindsEveryLiveKey ==
  call = Idle => \A s \in Live(table) : FindLocation(table, table.ctrl[s]) = {s}

(* insert and entry see the same map as get: the entry-side search finds the
   same slot, and for an absent key the vacancy of the exact search is the
   slot the placement walk alone would take, clean scan or not. *)
EntrySearchAgrees ==
  call = Idle => \A k \in Keys :
    /\ Locate(table, k) = FindLocation(table, k)
    /\ Locate(table, k) = {} /\ GatePasses(table, k) =>
         ExactVacancy(table, table.seed, k, table.tombstones = 0)
           = SearchVacancy(table, table.seed, k)

(* No key is stored twice, not even halfway through a rebuild. *)
NoDuplicateKeys ==
  \A s, t \in Live(table) : table.ctrl[s] = table.ctrl[t] => s = t

(* len counts the live entries and tombstones the tombstones, also after a
   clear a panicking drop interrupted. *)
CountersExact ==
  call = Idle => /\ table.len = Cardinality(Live(table))
                 /\ table.tombstones = Cardinality({s \in Slot : table.ctrl[s] = TOMBSTONE})

(* "Funnel insertion limit reserves a free slot": wherever a placement is
   due, a free slot is left, so that the expect of resolve_vacancy holds. *)
PlacementHasRoom ==
  \/ call.at = "rebuild" /\ ~ScanDone(previous)
  \/ call.at = "place"
  \/ call = Idle /\ table.len < MaxInsertions[table.shape]
  => FirstFreeGlobal(table) # {}

(* A rebuild is all or nothing: it ends by putting the old generation back
   with the epoch untouched, or with every entry moved, no tombstone left
   and a new epoch. *)
RebuildAtomic ==
  [][call.at = "rebuild" /\ call'.at # "rebuild" =>
       \/ table' = previous /\ epoch' = epoch
       \/ /\ Contents(table') = Contents(previous)
          /\ Cardinality(Live(table')) = Cardinality(Live(previous))
          /\ table'.tombstones = 0
          /\ epoch'.transition = call.transition]_vars

(* Whatever slots, filter and rebuilds do, callers see a map: every call
   answers and changes the contents as MapSpec says, and a call cut short
   changes nothing more. *)
Map == INSTANCE MapSpec WITH dict <- Contents(Owner)
ImplementsMap == Map!Spec

(* "Deletes do not decrement this count": inside an epoch live entries plus
   deletions only grow; only clear and drain, on their way to a new epoch,
   take entries out of the count. *)
InsertionsOnlyGrow ==
  [][/\ epoch' # epoch \/ Owner'.len # Owner.len
     /\ epoch'.generation = epoch.generation /\ epoch.generation < GenMax
     /\ epoch.deletions < DelMax
     /\ call.at \notin {"clear", "drain"}
     => DistinctInsertions(epoch', Owner'.len) >= DistinctInsertions(epoch, Owner.len)]_vars

(* The live slots that the walk of their key never visits. *)
Strays(g) ==
  {s \in Live(g) : LET w == Walk[g.shape][g.seed][g.ctrl[s]]
                   IN  \A i \in DOMAIN w : w[i] # s}

(* Those a step gives the live generation; a rebuild gives all of its own. *)
NewStrays ==
  IF call.at = "rebuild" /\ call'.at # "rebuild" /\ table' = table THEN Strays(table)
  ELSE Strays(Owner') \ Strays(Owner)

(* "Cumulative exceptional placement recoveries": the count rises by one with
   every insert that leaves its key off its walk, the first of an epoch or a
   later one, and with every rebuild that commits with such a key, and never
   otherwise: a reseed that helped and a rebuild undone count nothing. *)
RecoveryCounted ==
  [][epoch'.recoveries = IF NewStrays = {} THEN epoch.recoveries
                         ELSE SaturatingSucc(epoch.recoveries, RecMax)]_vars

(* Every call returns, the insert whose walk stays exhausted after its
   recovery rebuild too. *)
CallsReturn == (call # Idle) ~> (call = Idle)
==============================================================================
