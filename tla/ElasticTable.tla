----------------------------- MODULE ElasticTable ----------------------------
(***************************************************************************)
(* The Elastic hash map: the operations of ElasticTable and of the map     *)
(* shell over it, and the loops that call user code with the table half    *)
(* done: the rebuild and the filter refresh hash each key, clear and drain *)
(* drop each value.  One step of a loop is one action, so that a panic in  *)
(* the user's code can end the call between any two.                       *)
(*                                                                         *)
(* A map is used through &mut: while a call is in progress no other one    *)
(* starts.  call says which loop runs, how far it is, and whether the call *)
(* goes on with an insert after a rebuild; between calls it is Idle.       *)
(***************************************************************************)
EXTENDS ElasticGeneration, EpochState

CONSTANTS
  Faults,     \* the loops that user code may abandon: by a panic, or by a
              \* mem::forget of a drain or of an extract_if
  MaxStale    \* bound on the stale-delete counter of leaked extract_if scans

VARIABLES
  table,      \* the installed generation
  previous,   \* the generation a rebuild replaces, None outside a rebuild
  call,       \* the call in progress
  epoch,
  event       \* what the caller saw last: an answer, a bulk removal, or nothing

vars == <<table, previous, call, epoch, event>>

FaultPoints == {"rebuild", "refresh", "clear", "drain", "extract"}
ASSUME FaultAssumption == Faults \subseteq FaultPoints /\ MaxStale \in Nat

Call == [at : {"idle", "place"} \cup FaultPoints, then : {"return", "grown", "recovered"},
         cursor : Nat, key : Keys \cup {None}, val : Vals \cup {None},
         transition : Transition, recovered : BOOLEAN]

Idle == [at |-> "idle", then |-> "return", cursor |-> 0, key |-> None, val |-> None,
         transition |-> "Initial", recovered |-> FALSE]

Scanning(at) == [Idle EXCEPT !.at = at]

(* with_capacity; new is with_capacity(0), which allocates nothing. *)
Init ==
  /\ \E capacity \in 0..MaxInsertions[LastShape] :
       \E shape \in IF capacity = 0 THEN {0} ELSE ShapeFor(1, capacity) :
         table = Fresh(shape)
  /\ previous = None
  /\ call = Idle
  /\ epoch = InitialEpoch
  /\ event = Quiet

(* The next slot the running loop visits: the next occupied slot of a
   generation past the cursor. *)
NextLive(g) == First({s \in Live(g) : s > call.cursor})
ScanDone(g) == \A s \in Live(g) : s <= call.cursor

------------------------------------------------------------------------------
(* Rebuild: every entry of the old generation is hashed in place, copied   *)
(* and placed in the new one, which is already installed.                  *)

StartRebuild(old, shape, transition, rest) ==
  /\ previous' = old
  /\ table' = Fresh(shape)
  /\ call' = [rest EXCEPT !.at = "rebuild", !.transition = transition]

(* place_unique: the active target, else the last resort; other targets are
   not retried. *)
RebuildStep ==
  /\ call.at = "rebuild"
  /\ \E s \in NextLive(previous) :
       LET k      == previous.ctrl[s]
           g      == Synced(table)
           choice == ChooseSlot(g, k, g.scheduler.index)
       IN  /\ \/ \E p \in choice : table' = PlaceNewEntry(g, p, k, previous.data[s])
              \/ /\ choice = {}
                 /\ \E t \in FirstFreeSlot(g) :
                      table' = PlaceExceptional(g, t, k, previous.data[s])
           /\ call' = [call EXCEPT !.cursor = s, !.recovered = @ \/ choice = {}]
  /\ UNCHANGED <<previous, epoch, event>>

(* Mutant: the uncommitted rebuild keeps the half-filled generation. *)
RebuildPanicKeepsNew ==
  /\ call.at = "rebuild" /\ "rebuild" \in Faults
  /\ ~ScanDone(previous)
  /\ previous' = None
  /\ call' = Idle
  /\ UNCHANGED <<table, epoch, event>>

(* The hasher panics on the next key: the uncommitted rebuild puts the old
   generation back, and the call is over. *)
RebuildPanic ==
  /\ call.at = "rebuild" /\ "rebuild" \in Faults
  /\ ~ScanDone(previous)
  /\ table' = previous
  /\ previous' = None
  /\ call' = Idle
  /\ UNCHANGED <<epoch, event>>

(* Mutant: the old generation is not let go. *)
RebuildCommitKeepsOld ==
  /\ call.at = "rebuild"
  /\ ScanDone(previous)
  /\ epoch' = StartEpoch(epoch, call.transition,
                         call.transition = "PlacementRecovery" \/ call.recovered)
  /\ call' = IF call.then = "return" THEN Idle ELSE [call EXCEPT !.at = "place"]
  /\ UNCHANGED <<table, previous, event>>

(* The old arena is freed, the epoch begins, and the call goes on.  A
   recovery rebuild counts as a recovery whatever became of its key. *)
RebuildCommit ==
  /\ call.at = "rebuild"
  /\ ScanDone(previous)
  /\ previous' = None
  /\ epoch' = StartEpoch(epoch, call.transition,
                         call.transition = "PlacementRecovery" \/ call.recovered)
  /\ call' = IF call.then = "return" THEN Idle ELSE [call EXCEPT !.at = "place"]
  /\ UNCHANGED <<table, event>>

------------------------------------------------------------------------------
(* get, insert and entry.                                                  *)

Get(k) ==
  /\ call = Idle
  /\ event' = Answered("get", k, None,
                LET found == Find(table, k)
                IN  IF found = {} THEN None ELSE table.data[CHOOSE s \in found : TRUE])
  /\ UNCHANGED <<table, previous, call, epoch>>

(* The insert ends with the table g and the epoch e. *)
Placed(k, v, g, e) ==
  /\ table' = g
  /\ epoch' = e
  /\ call' = Idle
  /\ event' = Answered("insert", k, v, None)
  /\ UNCHANGED previous

(* Mutant: an epoch that used the last resort counts no further recovery. *)
PlaceAfterTargetFailureCountsOnce(k, v, g) ==
  LET other == ChooseSlotOnOtherTargets(g, k, g.scheduler.index)
  IN  \/ \E p \in other : Placed(k, v, PlaceNewEntry(g, p, k, v), epoch)
      \/ /\ other = {}
         /\ \/ /\ g.exceptional
               /\ \E s \in FirstFreeSlot(g) :
                    Placed(k, v, PlaceExceptional(g, s, k, v), epoch)
            \/ /\ ~g.exceptional
               /\ StartRebuild(g, g.shape, "PlacementRecovery",
                               [Idle EXCEPT !.then = "recovered", !.key = k, !.val = v])
               /\ event' = Quiet
               /\ UNCHANGED epoch

(* place_after_target_failure: another target, the last resort if the epoch
   used it before, else a rebuild of the same shape. *)
PlaceAfterTargetFailure(k, v, g) ==
  LET other == ChooseSlotOnOtherTargets(g, k, g.scheduler.index)
  IN  \/ \E p \in other : Placed(k, v, PlaceNewEntry(g, p, k, v), epoch)
      \/ /\ other = {}
         /\ \/ /\ g.exceptional
               /\ \E s \in FirstFreeSlot(g) :
                    Placed(k, v, PlaceExceptional(g, s, k, v), NotePlacementRecovery(epoch))
            \/ /\ ~g.exceptional
               /\ StartRebuild(g, g.shape, "PlacementRecovery",
                               [Idle EXCEPT !.then = "recovered", !.key = k, !.val = v])
               /\ event' = Quiet
               /\ UNCHANGED epoch

(* Place an absent key on the target of the live count, or elsewhere. *)
PlaceAbsent(k, v) ==
  LET g      == Synced(table)
      choice == ChooseSlot(g, k, g.scheduler.index)
  IN  \/ \E p \in choice : Placed(k, v, PlaceNewEntry(g, p, k, v), epoch)
      \/ /\ choice = {}
         /\ PlaceAfterTargetFailure(k, v, g)

(* insert_for_vacant_entry: at the limit the slots double first.  Without a
   larger shape the call panics and changes nothing. *)
InsertAbsent(k, v) ==
  \/ /\ table.len >= MaxInsertions[table.shape]
     /\ table.shape < LastShape
     /\ StartRebuild(table, table.shape + 1, "Growth",
                     [Idle EXCEPT !.then = "grown", !.key = k, !.val = v])
     /\ event' = Quiet
     /\ UNCHANGED epoch
  \/ /\ table.len < MaxInsertions[table.shape]
     /\ PlaceAbsent(k, v)

Insert(k, v) ==
  /\ call = Idle
  /\ LET hit == Find(table, k)
     IN \/ \E s \in hit :
             /\ table' = [table EXCEPT !.data[s] = v]
             /\ event' = Answered("insert", k, v, table.data[s])
             /\ UNCHANGED <<previous, call, epoch>>
        \/ hit = {} /\ InsertAbsent(k, v)

(* entry(k).or_insert(v): the token of the vacant entry is the hash alone. *)
EntryOrInsert(k, v) ==
  /\ call = Idle
  /\ LET hit == Find(table, k)
     IN \/ \E s \in hit :
             /\ event' = Answered("get", k, None, table.data[s])
             /\ UNCHANGED <<table, previous, call, epoch>>
        \/ hit = {} /\ InsertAbsent(k, v)

(* Mutant: a recovered insert that fails again starts over. *)
ResumePlaceRetries ==
  /\ call.at = "place"
  /\ PlaceAbsent(call.key, call.val)

(* The insert after its rebuild.  After a recovery the target is asked again
   for the new generation, and what fails now takes the last resort. *)
ResumePlace ==
  /\ call.at = "place"
  /\ \/ /\ call.then = "grown"
        /\ PlaceAbsent(call.key, call.val)
     \/ /\ call.then = "recovered"
        /\ LET g      == Synced(table)
               choice == ChooseSlot(g, call.key, g.scheduler.index)
           IN  \/ \E p \in choice :
                    Placed(call.key, call.val, PlaceNewEntry(g, p, call.key, call.val), epoch)
               \/ /\ choice = {}
                  /\ \E s \in FirstFreeSlot(g) :
                       Placed(call.key, call.val,
                              PlaceExceptional(g, s, call.key, call.val), epoch)

------------------------------------------------------------------------------
(* Removal and its deferred maintenance.                                   *)

(* settle_after_deletes, on the table g the removal leaves: a same-size
   rebuild if a level asked for it, else a filter refresh. *)
Settle(g, needsCleanup) ==
  \/ /\ needsCleanup
     /\ StartRebuild(g, g.shape, "TombstoneCleanup", Idle)
  \/ /\ ~needsCleanup /\ NeedsRefresh(g)
     /\ table' = ClearMembership(g)
     /\ call' = Scanning("refresh")
     /\ UNCHANGED previous
  \/ /\ ~needsCleanup /\ ~NeedsRefresh(g)
     /\ table' = g
     /\ call' = Idle
     /\ UNCHANGED previous

(* remove(k), and OccupiedEntry::remove: only the key's level is asked. *)
Remove(k) ==
  /\ call = Idle
  /\ \/ \E s \in Find(table, k) :
          LET g == ExtractFinish(table, s)
          IN  /\ event' = Answered("remove", k, None, table.data[s])
              /\ epoch' = NoteDelete(epoch)
              /\ Settle(g, LevelNeedsCleanup(g, LevelAt(g, s)))
     \/ /\ Find(table, k) = {}
        /\ event' = Answered("remove", k, None, None)
        /\ UNCHANGED <<table, previous, call, epoch>>

(* refresh_membership hashes one more live key and records it. *)
RefreshStep ==
  /\ call.at = "refresh"
  /\ \E s \in NextLive(table) :
       /\ table' = RecordMembership(table, table.ctrl[s], LevelAt(table, s))
       /\ call' = [call EXCEPT !.cursor = s]
  /\ UNCHANGED <<previous, epoch, event>>

RefreshDone ==
  /\ call.at = "refresh"
  /\ ScanDone(table)
  /\ call' = Idle
  /\ UNCHANGED <<table, previous, epoch, event>>

(* The hasher panics on the next key: the call is over as it stands. *)
RefreshPanic ==
  /\ call.at = "refresh" /\ "refresh" \in Faults
  /\ ~ScanDone(table)
  /\ call' = Idle
  /\ UNCHANGED <<table, previous, epoch, event>>

------------------------------------------------------------------------------
(* Bulk removal.                                                           *)

(* clear, drain and extract_if put a scan before the first slot. *)
StartScan(at) ==
  /\ call = Idle
  /\ call' = Scanning(at)
  /\ event' = Bulky(at)
  /\ UNCHANGED <<table, previous, epoch>>

(* clear takes and counts one entry and drops it; a panic of that drop ends
   the call there. *)
ClearStep ==
  /\ call.at = "clear"
  /\ \E s \in NextLive(table) : table' = DrainResetEntry(table, s)
  /\ \/ UNCHANGED call
     \/ "clear" \in Faults /\ call' = Idle
  /\ UNCHANGED <<previous, epoch, event>>

(* A drain hands out one entry, or its drop runs on; it counts nothing. *)
DrainStep ==
  /\ call.at = "drain"
  /\ \E s \in NextLive(table) : table' = TombstoneSlot(table, s)
  /\ UNCHANGED <<previous, call, epoch, event>>

(* The drain is forgotten, or an entry's drop panics inside its drop. *)
DrainAbandon ==
  /\ call.at = "drain" /\ "drain" \in Faults
  /\ call' = Idle
  /\ UNCHANGED <<table, previous, epoch, event>>

(* Nothing is left: clear resets what the drops did not, drain everything. *)
Wipe ==
  /\ call.at \in {"clear", "drain"}
  /\ ScanDone(table)
  /\ table' = IF call.at = "clear" THEN FinishClear(table) ELSE WipeAll(table)
  /\ epoch' = StartOf(epoch, "Clear")
  /\ call' = Idle
  /\ event' = Quiet
  /\ UNCHANGED previous

(* The predicate of extract_if (of retain) decides the next entry. *)
ExtractStep ==
  /\ call.at = "extract"
  /\ \E s \in NextLive(table) :
       /\ call' = [call EXCEPT !.cursor = s]
       /\ \/ UNCHANGED <<table, epoch>>
          \/ /\ table.stale < MaxStale
             /\ table' = ExtractFinish(table, s)
             /\ epoch' = NoteDelete(epoch)
  /\ UNCHANGED <<previous, event>>

(* The scan is exhausted or dropped: the deferred maintenance runs, asking
   every level. *)
ExtractEnd ==
  /\ call.at = "extract"
  /\ Settle(table, \E l \in Levels(table.shape) : LevelNeedsCleanup(table, l))
  /\ event' = Quiet
  /\ UNCHANGED epoch

(* The extract_if is forgotten: the maintenance waits for a later removal. *)
ExtractForget ==
  /\ call.at = "extract" /\ "extract" \in Faults
  /\ call' = Idle
  /\ UNCHANGED <<table, previous, epoch, event>>

------------------------------------------------------------------------------
(* Explicit resizes: the doubling chain from the current shape, or from the *)
(* smallest.                                                               *)

Larger(x, y) == IF x < y THEN y ELSE x

Resize(shape) ==
  /\ StartRebuild(table, shape, "ExplicitResize", Idle)
  /\ event' = Quiet
  /\ UNCHANGED epoch

(* reserve: room for so many more entries than are live. *)
Reserve(additional) ==
  /\ call = Idle
  /\ table.len + additional > MaxInsertions[table.shape]
  /\ \E shape \in ShapeFor(Larger(table.shape, 1), table.len + additional) : Resize(shape)

(* shrink_to: nothing is allocated for nothing; else the first shape of the
   chain that admits the entries, the request and INITIAL_CAPACITY. *)
ShrinkTo(minCapacity) ==
  /\ call = Idle
  /\ \/ /\ table.len = 0 /\ minCapacity = 0 /\ table.shape > 0
        /\ Resize(0)
     \/ /\ table.len > 0 \/ minCapacity > 0
        /\ \E shape \in ShapeFor(1, Larger(Larger(table.len, minCapacity), SlotCount[1])) :
             shape < table.shape /\ Resize(shape)

------------------------------------------------------------------------------
(* The steps of a call in progress that no fault takes. *)
Progress ==
  \/ RebuildStep \/ RebuildCommit \/ ResumePlace
  \/ RefreshStep \/ RefreshDone
  \/ ClearStep \/ DrainStep \/ Wipe
  \/ ExtractStep \/ ExtractEnd

Fault == RebuildPanic \/ RefreshPanic \/ DrainAbandon \/ ExtractForget

Begin ==
  \/ \E k \in Keys, v \in Vals : Insert(k, v) \/ EntryOrInsert(k, v)
  \/ \E k \in Keys : Get(k) \/ Remove(k)
  \/ \E at \in {"clear", "drain", "extract"} : StartScan(at)
  \/ \E n \in 0..MaxInsertions[LastShape] : Reserve(n) \/ ShrinkTo(n)

Next == Begin \/ Progress \/ Fault

Spec == Init /\ [][Next]_vars

(* A call that has begun runs on until it returns: the thread that made it
   executes nothing else. *)
FairSpec == Spec /\ WF_vars(Progress)

------------------------------------------------------------------------------
(* The entries of the map, wherever a rebuild in progress has them: the old
   generation owns them until the commit. *)
Owner == IF call.at = "rebuild" THEN previous ELSE table

Contents(g) ==
  [k \in Keys |-> IF \E s \in Slot : g.ctrl[s] = k
                  THEN g.data[CHOOSE s \in Slot : g.ctrl[s] = k] ELSE None]

(* Every variable holds a value of its type, and there is an old generation
   exactly while a rebuild runs. *)
TypeOK ==
  /\ table \in Generation
  /\ call \in Call
  /\ epoch \in Epoch
  /\ event \in Event
  /\ IF call.at = "rebuild" THEN previous \in Generation ELSE previous = None

(* get, contains_key, insert, entry and remove find every live key, at its
   slot: the first probe, the filter, the summary, the schedule and the full
   scan together skip nothing, over removals, clears, refreshes and rebuilds. *)
FindsEveryLiveKey ==
  call = Idle => \A s \in Live(table) : Find(table, table.ctrl[s]) = {s}

(* A key is at a probe of its own that lookups reach: the first of level 0,
   or one whose position the schedule covers. *)
OnSchedule(g, s) ==
  \E p \in Probes[LevelAt(g, s)] :
     /\ SlotOn(g, g.ctrl[s], LevelAt(g, s), p) = s
     /\ <<LevelAt(g, s), p>> \in g.schedule \cup {<<0, 1>>}

(* "the lookup schedule is extended to cover it": the schedule is extended
   suffix by suffix and never shrinks inside an epoch.  At any time it is
   exactly the prefix of the paper's order up to the high water, and every
   live key lies on it unless the epoch is flagged for full scans. *)
ScheduleCoversPlacements ==
  /\ table.schedule = RoutesBetween(table.shape, 0, table.highWater)
  /\ \A s \in Live(table) : table.exceptional \/ OnSchedule(table, s)

(* "The active batch is a function of the live count alone": whatever window
   removals, clears and rebuilds left in the cache, the target the next
   placement asks for is the batch that covers the count. *)
TargetFollowsCount ==
  Synced(table).scheduler.index = ActiveBatch(Batches[table.shape], table.len)

(* No key is stored twice, not even halfway through a rebuild. *)
NoDuplicateKeys ==
  \A s, t \in Live(table) : table.ctrl[s] = table.ctrl[t] => s = t

(* Each level counts its live entries and its tombstones, and the table the
   entries of all, also after a clear that a panicking drop interrupted. *)
CountersExact ==
  call = Idle =>
    /\ table.len = Cardinality(Live(table))
    /\ \A l \in Levels(table.shape) :
         LET S == LevelSlots[table.shape][l]
         IN  /\ table.levelLen[l] = Cardinality(S \cap Live(table))
             /\ table.tombstones[l] = Cardinality({s \in S : table.ctrl[s] = TOMBSTONE})

(* "Elastic insertion limit must leave a free slot": wherever a placement is
   due, a free slot is left, so that the expect of place_exceptional_entry
   holds, also below a limit that reserves nothing. *)
PlacementHasRoom ==
  \/ call.at = "rebuild" /\ ~ScanDone(previous)
  \/ call.at = "place"
  \/ call = Idle /\ table.len < MaxInsertions[table.shape]
  => FirstFreeSlot(table) # {}

(* A rebuild is all or nothing: it ends by putting the old generation back
   with the epoch untouched, or with every entry moved, no tombstone left
   and a new epoch. *)
RebuildAtomic ==
  [][call.at = "rebuild" /\ call'.at # "rebuild" =>
       \/ table' = previous /\ epoch' = epoch
       \/ /\ Contents(table') = Contents(previous)
          /\ Cardinality(Live(table')) = Cardinality(Live(previous))
          /\ \A l \in Level : table'.tombstones[l] = 0
          /\ epoch'.transition = call.transition]_vars

(* Whatever levels, schedule and rebuilds do, callers see a map: every call
   answers and changes the contents as MapSpec says, and a call cut short
   changes nothing more. *)
Map == INSTANCE MapSpec WITH dict <- Contents(Owner)
ImplementsMap == Map!Spec

(* No target, whatever its counters say of it, has a slot for the key. *)
Unplaceable(g, k) == \A t \in Levels(g.shape) : ChooseSlot(g, k, t) = {}

(* A step that owes a recovery: a rebuild commits that an insert asked for or
   that took the last resort, or an insert stores a key no target has a slot
   for, unless the rebuild it asked for has been counted already. *)
OwesRecovery ==
  \/ /\ call.at = "rebuild" /\ call'.at # "rebuild" /\ table' = table
     /\ call.transition = "PlacementRecovery" \/ table.exceptional
  \/ /\ call.at # "rebuild" /\ call.then # "recovered"
     /\ \E s \in Live(Owner') \ Live(Owner) : Unplaceable(Owner, Owner'.ctrl[s])

(* "Cumulative exceptional placement recoveries": the count rises by one with
   every step that owes a recovery, the first of an epoch or a later one, and
   never otherwise. *)
RecoveryCounted ==
  [][epoch'.recoveries = IF OwesRecovery THEN SaturatingSucc(epoch.recoveries, RecMax)
                         ELSE epoch.recoveries]_vars

(* Every call returns, the insert whose target stays without a slot after its
   recovery rebuild too. *)
CallsReturn == (call # Idle) ~> (call = Idle)

(* "debug_assert_eq!(self.len, 0)": when clear has dropped every entry, the
   table counts none. *)
ClearLeavesNothing ==
  [][call.at = "clear" /\ ScanDone(table) /\ call'.at = "idle" => table'.len = 0]_vars
==============================================================================
