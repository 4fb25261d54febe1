# A specification of opthash

opthash is a Rust library of hash maps over two open-addressing tables, Elastic
and Funnel, with Python bindings. This directory specifies it in TLA+: modules
translated from the source, TLC configurations that check them on small
instances, and theorems TLAPS checks for every instance.

## The system

| Part | Source | State | Operations | Correct when |
|---|---|---|---|---|
| Funnel table | `funnel.rs` | arena of slots and control bytes, `len`, `tombstones`, `exceptional_placement`, probe seed, filter, level bins, stale-delete counter | searches, placement, growth, recovery, removal, refresh, scans | every live key is found at its slot, none is stored twice, counters are exact, placement has room |
| Elastic table | `elastic.rs` | the same, with counters per level, a batch scheduler and a probe schedule | the same, with batch targets and level pairs | the same, and the schedule covers every placement, and the scheduler's cached window is the window of `len` |
| Rebuild | `raw/rebuild.rs` | old and new generation, `committed` | install, move a key, commit, put back on drop | all or nothing |
| Map shell | `map.rs` | a table and a hash builder | get, insert, entry, remove, reserve, shrink, clear, drain, extract_if, retain | callers see a partial function from keys to values |
| Epoch | `epoch.rs` | generation, transition, deletions, recoveries | start, note a delete, note a recovery | insertions of an epoch never decrease; every recovery is counted, once |
| Membership | `membership.rs` | filter words, level bins, stale deletes | record, clear, query | no false negative |
| Capacity, reserve, geometry | `capacity.rs`, `reserve.rs`, `exact/geometry.rs` | none | pure functions | limits stay below slot counts; searches return minima |
| Probes | `exact/probe.rs` | none | positions, counters, keyed mixing, range reduction | positions are distinct and ordered, reductions unbiased |
| Arena, groups, iteration | `raw/*` | memory | allocate, load, scan | controls and slots agree |
| Sets | `set.rs` | a map to `()` | set algebra | as the map |
| Python bindings | `python.rs` | a map, a generation number, a parked error | the dict and set protocols | errors undo, iterators notice changes |

Calls go one way: Python or Rust shell to backend to arena. Control comes back
into user code in five places, and those make the behaviour hard: a rebuild and
a filter refresh call the hasher once per key, `clear` and `drain` drop values,
`extract_if` calls a predicate, drains and extract scans are values a caller may
forget, and in Python every key comparison may raise. Each can end a call with
the table half done, and the next call starts from what was left. Nothing runs
concurrently: a map is changed through `&mut`, and is neither persisted nor sent
over a network. So the hazards are partial failure, protocols over many calls,
stale searches, snapshots and cached windows, counters and limits, the edges of
integer arithmetic, and one question of liveness (an insert that rebuilds and
retries).

## Modules

| Module | Models | Extends |
|---|---|---|
| `MapEvents` | what a caller sees: the last answer | |
| `MapSpec` | the abstract map: a dictionary and the answers | `MapEvents` |
| `EpochState` | `epoch.rs` | |
| `FunnelGeneration` | one Funnel generation: the walks over it, the writes, the limits | `MapEvents` |
| `FunnelTable` | its operations, one action each, with the loops they run | `FunnelGeneration`, `EpochState` |
| `Powers` | powers of two, which the code's shifts and masks are taken to | |
| `Capacity` | `capacity.rs`, the floors of `reserve.rs` | `Powers` |
| `BitSets` | machine words as the sets of the places that hold a one | `Powers` |
| `ProbeArithmetic` | the paper's `phi` and probe budget, of `exact/probe.rs` | `BitSets` |
| `BatchScheduler` | the Elastic scheduler and its cached window | |
| `ElasticGeneration` | one Elastic generation: choice of a slot, lookup, writes, limits | `MapEvents`, `Capacity`, `BatchScheduler`, `ProbeArithmetic` |
| `ElasticTable` | its operations | `ElasticGeneration`, `EpochState` |
| `ElasticGeometry` | the levels and batches of an Elastic table, of `exact/geometry.rs` | `Capacity` |
| `PaperGeometry` | the rest of it: the Funnel plan and its searches | `ElasticGeometry` |
| `RangeReduction` | a random word reduced to an index, of `exact/probe.rs` | `ProbeArithmetic` |
| `ProbeEncoding` | the checked and the bounded encoders, the decoder and the counters of `exact/probe.rs` | `ProbeArithmetic` |
| `EpochWord` | the packed lifecycle word of `epoch.rs` | `EpochState`, `BitSets` |
| `PyTable` | the single-key operations of `python.rs`, with parked errors and their undo | |
| `PyCollection` | its methods, generations and iterators | `PyTable` |
| `MCFunnelTable`, `MCElasticTable`, `MCPyCollection` | the instances of the runs | the table or collection |
| `Arithmetic` | capacities, budgets, range reduction, the Elastic plan, probe sequences, counters and the epoch word, one question at a time, with what their answers should be | `RangeReduction`, `ElasticGeometry`, `ProbeEncoding`, `EpochWord` |
| `FunnelPlans` | the questions about the Funnel plan: buckets, special array, size of a table, with what their answers should be | `Arithmetic`, `PaperGeometry` |
| `MCArithmetic` | the instance of `Arithmetic` and `FunnelPlans` | `FunnelPlans` |
| `Common_proofs` | least naturals, induction, functions given by a step | |
| `FunnelTable_proofs`, `FunnelMap_proofs` | theorems about Funnel | `FunnelTable`, `Common_proofs` |
| `ElasticTable_proofs`, `ElasticMap_proofs` | theorems about Elastic | `ElasticTable`, `Common_proofs` |
| `PyCollection_proofs` | what a lookup, an operation and a fold over items can answer; theorems about Python collections | `PyCollection`, `Common_proofs` |
| `Arithmetic_proofs` | theorems about the pure functions | `Arithmetic`, `Common_proofs` |
| `FunnelPlans_proofs` | theorems about the Funnel plan | `FunnelPlans`, `Arithmetic_proofs` |

### Funnel and Elastic

Both have five variables. `table` is the installed generation: the fields of
`FunnelTable` in `funnel.rs`, or `ElasticTable` in `elastic.rs`, that a resize
swaps as a unit. `previous` is the generation a rebuild in progress has set
aside. `call` is the call that runs: which loop, how far, and what is left to do
after a rebuild; it is the call stack, so far as it matters. `epoch` is
`EpochState`; `event` is the last thing the caller saw, and exists for `MapSpec`.

One iteration of a loop that runs user code is one action, so a fault can come
between any two. A call without such a loop is one action. An insert that must
grow is `Insert` (start the rebuild), `RebuildStep`s, `RebuildCommit`, and
`ResumePlace`. A removal is answered where its slot is emptied, although the
code returns only after the maintenance; no other call can see the difference.

What Elastic has of its own:

* The live count picks a batch and the batch a target: level 0 for batch 0, the
  pair of levels t-1 and t for batch t. `BatchScheduler` keeps the window of the
  batch it answered last and searches again only when the count has left it.
  `Synced(table)` is the table after it was asked; every placement asks first.
* A pair chooses by the free slots of its two levels (`PairVacancy`). When the
  target has no slot, `PlaceAfterTargetFailure` tries the other targets, then
  rebuilds at the same size, then takes any free slot and flags the generation.
* `schedule` is the set of routes (level, probe) that lookups try, `highWater`
  the last position in the paper's order that it covers. A placement past the
  high water adds every route up to it.
* `clear` counts down entry by entry and resets each level as it leaves it; what
  its `reset_after_clear` does not touch keeps what the drops left.

### Python

`PyCollection` has the kind (map or set), the table, the generation that methods
bump, one iterator with its snapshot, the copy an `intersection_update` works
on, and the call that just returned. A method holds the borrow of the wrapper
while it runs, so a call is one action, except `intersection_update`, which
releases it between copy and write. The order in which a lookup meets stored
keys, and which comparisons raise, are open: each operation of `PyTable` answers
the set of its possible outcomes and the call takes any. `Readings` are the ways
reading an operand ends.

### Pure functions

`Arithmetic` asks one question per behaviour: a kind, then an input of it. The
properties say what the answer is by a minimum, a count or an inverse, never by
the algorithm. `FunnelPlans` adds those about the Funnel plan. The loops and
iterators of `exact/geometry.rs` are `LoopAfter`: what a loop holds after so many
turns, with a number of turns after which the code's condition has stopped it. (The
path sums stop early in the code; the sum only grows, so the answer is the same.)
A word that is shifted and masked is a set of places (`BitSets`): `a | b` is a
union, `a & b` an intersection, and the proofs read lanes out of it as sets.

### Abstractions

* Hashing is a constant. Funnel: `Walk[shape][seed][key]` is the order in which an exact
  search visits slots. Elastic: `Route[shape][key][level][probe]` is the slot of
  a probe, 0 where the range reduction fails. `FilterBits` and `BinOf` are the
  key's filter bits and bin. The proofs hold for every such function, so for
  every hasher and for the collisions and range failures of `probe.rs`.
* A control byte is EMPTY, TOMBSTONE or the key. A fingerprint only decides
  which keys are compared, and the comparison decides.
* The geometry is a constant: shapes ordered by size, each with slots, a level
  for each slot, batches and an insertion limit. Capacity searches become the
  least shape that admits a request. The limits, levels and
  batches of `MCElasticTable` are those `ElasticGeometry` plans
  (`PlannedAssumption`, which TLC evaluates).
* The counters of entries and tombstones wrap modulo the word, up and down
  (`Increment`, `Decrement`), as in a release build. A debug build panics instead
  of wrapping.
* `ElasticProbeBudget` leaves out the error returns of its function: the only
  caller (`elastic.rs:1603`) passes a nonzero factor and, past the test of
  `current_low`, more free slots than half the reserve and no more than the level has.
* Allocation failure and a capacity that overflows leave the table unchanged:
  the action is not taken. `clear` of values without drop glue skips its loop
  and reaches the same state. A hasher that panics before a call has changed
  anything changes nothing and is no step.

## What is checked

`Faults` is a constant, the set of loops user code may abandon.

| Run | Instance | Faults | Shows |
|---|---|---|---|
| `funnel_map` | 3 keys | rebuild, clear, extract | types; every live key found and recorded; entry and get agree; no key twice; counters exact; placement has room; rebuilds atomic |
| `funnel_faults` | 2 keys, one bin | refresh, drain | under the two faults that break the filter and the counters, slots stay reachable and placement has room |
| `funnel_epoch` | 2 keys, 2 values, counters saturating at 2 | rebuild, clear, extract | insertions of an epoch grow; a recovery is counted for exactly the steps that leave a key off its walk; Funnel implements `MapSpec` |
| `funnel_returns` | 3 keys, walks a reseed does not always help | rebuild, clear, extract | every call returns |
| `elastic_map` | 3 keys, 2 values, two levels | clear, extract | types; every live key found; the schedule covers placements; the target follows the count; no key twice; counters exact; placement has room; a recovery is counted for exactly the steps that owe one; Elastic implements `MapSpec` |
| `elastic_faults` | 2 keys, four slots, routes that fail | all five | rebuilds atomic; every call returns |
| `arithmetic` | 10-bit usize | | eleven functions or families against their definitions |
| `py_collection` | 4 keys of one hash, maps and sets | comparisons and readings that raise | keys stay distinct; calls apply a prefix of their items; live iterators belong to a collection of their size |
| `funnel_refresh_panic` | 2 keys | refresh | violates `FilterCoversLiveKeys` |
| `funnel_drain_panic` | 2 keys | drain | violates `CountersExact` |
| `elastic_clear_assert` | 3 keys | drain | violates `ClearLeavesNothing` |
| `py_snapshot` | as `py_collection` | the same | violates `SnapshotsInvalidated` |

### Bounds

Funnel: shapes 0, 1 and 2 have 0, 3 and 5 slots and admit 0, 2 and 4 entries: two
growths, a shrink, and a cleanup threshold a few removals reach. Shape 2 has two
buckets in its first level, a primary special slot and two fallback slots, so a
walk crosses every kind. The walks of seeds 0 and 1 are cut short: an insert
under seed 0 finds its walk exhausted below the limit, the rebuild under seed 1
exhausts its walk too and uses the last resort, and seed 2 recovers. Keys share
filter bits and bins, so both have false positives. `MCTightWalk` reaches
exhaustion with two keys, for the runs whose size comes from values, faults or
epoch counters; `MCStuckWalk` has walks that stay exhausted after the reseed.

Elastic: `InitialCapacity` 2 and `LastShape` 2 give tables of 0, 2 and 4 slots,
which for a reserve of 1/4 the geometry plans as one level of two and as two
levels of two; the batches of the second end at different counts, so that its
scheduler moves both ways. (`elastic_faults` starts at four slots with a reserve
of 1/2.) `SearchCap` 2 and `PositionCap` 114 leave two probes per level, and
`ProbeFactor` 1 budgets that cut the second: every case of `PairVacancy`, a
target that fails and another that helps, a recovery rebuild and the last resort
are reached. Rebuild faults are left to `elastic_faults`: together with leaked
scans they raise the stale counter to its bound in every state of `elastic_map`.
`elastic_map` compares states by `View`, which leaves out the
transition of the epoch and the last event: no guard and no invariant of the run
reads them, except which bulk removal runs, and `call` names that too. The
action properties are checked on every step, also on one into a state seen before.

`MaxStale` bounds the stale-delete counter that forgotten `extract_if` scans
raise; with the removal that follows it passes every limit that triggers a
refresh. Funnel's `WordSize` is above
every count an unwrapped counter reaches, and only just so (6, for 5 slots) in
`funnel_faults`, where an abandoned drain makes `tombstones` wrap. `GenMax`,
`RecMax` and `DelMax` are 0 where the epoch is not the question. `RecMax` is 2
where `RecoveryCounted` is checked: a second recovery is counted and a third
saturates.

Arithmetic: `Word` 1024 is a 10-bit usize, so requests at its top overflow;
`WordBits` 6 is the random word of a range reduction, enumerated whole; `PhiBits`
26 and `JBits` 10 are where the encoders stop, `QueryPositionCap` and
`QueryProbeLimit` the code's own; plans are asked for up to `MaxSlots` 480 slots, past the
second of the sizes at which Funnel's widths change, `MaxBuckets` 60 buckets and
`MaxLevels` 22 levels, which is `alpha` for the least exponent, 3.

Python: four objects of one hash in two classes, two of them `str` and two whose
`__eq__` may raise, so that each lookup meets a decided and an undecided key;
`MaxGeneration` 3 (2 in `py_snapshot`) lets an iterator go stale and another be
made. `View` drops the last event, which only the action property reads.

### Fairness

`FairSpec` adds weak fairness of `Progress`, the steps of a call in progress.
One thread executes a call and does nothing else until it returns, so it takes
its next step. The steps of a drain and of an `extract_if` are the exception:
each is a call of the iterator, so there the assumption is about the caller, who
goes on with the iterator or drops it (whose drop takes the remaining steps of
a drain, and ends an `extract_if`). To forget it is a fault of its own, `DrainAbandon` or
`ExtractForget`. The faults are not in `Progress`: no property relies on a panic.
Starting a call is not fair: a caller may stop.

### Disagreements with the documents

Each is stated as a run that TLC must find violated, and in `PROJECT.json`
with the line it quotes.

* `refresh_membership` (both tables) clears filter and bins before it hashes the
  live keys. A hasher that panics there leaves live keys the filter denies; `get`
  answers `None` for them and an insert stores them again.
* `Drain` counts nothing and leaves it to the reset in its drop. A forgotten
  drain, or a value whose drop panics in it, leaves `len` and `tombstones` as
  they were.
* Elastic's `clear` then asserts that `len` is zero once it has dropped every
  entry. After a forgotten drain it is not: debug builds panic, release builds
  keep a positive `len` and level counters that make levels look full.
* Python's `mutate` bumps the generation if the call reports a change or length
  or capacity moved. An `update` that replaces a value and then raises moves
  none of them, and iterators made before go on with the replaced value.

## What is proved

| Theorem | States | Holds |
|---|---|---|
| `FunnelTable_proofs!TypeCorrect`, `ElasticTable_proofs!TypeCorrect` | `TypeOK` | under every fault |
| `FunnelTable_proofs!NoEmptyBeforeKeyHolds` | `NoEmptyBeforeKey` | under every fault |
| `ElasticTable_proofs!TargetFollowsCountHolds` | `TargetFollowsCount` | under every fault |
| `ElasticTable_proofs!ScheduleCoversPlacementsHolds` | `ScheduleCoversPlacements` | under every fault |
| `FunnelTable_proofs!FilterCoversLiveKeysHolds` | `FilterCoversLiveKeys` | if no hasher panics in a refresh |
| `FunnelTable_proofs!NoDuplicateKeysHolds`, `ElasticTable_proofs!NoDuplicateKeysHolds` | `NoDuplicateKeys` | likewise |
| `FunnelTable_proofs!FindsEveryLiveKeyHolds`, `ElasticTable_proofs!FindsEveryLiveKeyHolds` | `FindsEveryLiveKey` | likewise |
| `FunnelMap_proofs!ImplementsMapHolds`, `ElasticMap_proofs!ImplementsMapHolds` | `ImplementsMap` | likewise |
| `FunnelMap_proofs!RebuildAtomicHolds`, `ElasticMap_proofs!RebuildAtomicHolds` | `RebuildAtomic` | likewise |
| `FunnelMap_proofs!CountersExactHolds`, `ElasticMap_proofs!CountersExactHolds` | `CountersExact` | if no drain is abandoned |
| `FunnelMap_proofs!EntrySearchAgreesHolds` | `EntrySearchAgrees` | if neither happens |
| `FunnelMap_proofs!PlacementHasRoomHolds`, `ElasticMap_proofs!PlacementHasRoomHolds` | `PlacementHasRoom` | under every fault |
| `FunnelMap_proofs!InsertionsOnlyGrowHolds` | `InsertionsOnlyGrow` | under every fault |
| `FunnelMap_proofs!RecoveryCountedHolds`, `ElasticMap_proofs!RecoveryCountedHolds` | `RecoveryCounted` | if no drain is abandoned |
| `PyCollection_proofs!TypeCorrect` | `TypeOK` | whatever comparisons and readings raise |
| `PyCollection_proofs!KeysStayDistinctHolds` | `KeysStayDistinct` | likewise |
| `PyCollection_proofs!IteratorsFreshHolds` | `IteratorsFresh` | likewise |
| `PyCollection_proofs!CallsApplyPrefixHolds` | `CallsApplyPrefix` | likewise |
| `Arithmetic_proofs!CapacityIsSmallestHolds` | `CapacityIsSmallest` | for every width of `usize` |
| `Arithmetic_proofs!BudgetIsDyadicHolds` | `BudgetIsDyadic` | likewise |
| `Arithmetic_proofs!ElasticPlanIsSoundHolds` | `ElasticPlanIsSound` | likewise |
| `Arithmetic_proofs!ReductionIsUnbiasedHolds` | `ReductionIsUnbiased` | for every width of a random word |
| `Arithmetic_proofs!PhiIsPairingHolds` | `PhiIsPairing` | for every width of a code |
| `Arithmetic_proofs!RoutesArePaperPrefixHolds` | `RoutesArePaperPrefix` | for every cap on probes and positions |
| `Arithmetic_proofs!CountersAreDistinctHolds` | `CountersAreDistinct` | for every level, probe and retry |
| `Arithmetic_proofs!WordIsEpochHolds` | `WordIsEpoch` | for every width of the lanes |
| `FunnelPlans_proofs!BucketsAreNearestHolds` | `BucketsAreNearest` | for every number of buckets and levels |
| `FunnelPlans_proofs!SpecialIsLongestHolds` | `SpecialIsLongest` | for every size and reserve exponent |
| `FunnelPlans_proofs!BudgetIsSmallestHolds` | `BudgetIsSmallest` | for every request, reserve exponent and width of `usize` |

They hold for every set of keys and values, every plan of shapes and levels,
every hasher and every fault set their statements admit. What they assume is
named in the modules that declare the constants and evaluated by TLC in every
run: `FreeAssumption` and `ShapeAssumption` (the plan is well formed: a level
for each slot, limits within the slots, ends of batches in order, and in
Funnel fewer slots than a machine word counts, so that a decrement never wraps),
`LevelOrderAssumption` (slots are numbered through the levels in order, which
only the refinement uses, for the loop of `clear`),
`GrowthAssumption` (a larger Elastic table has a higher limit, so that a grown
one takes the entries that filled the old one and one more),
`HashAssumption` (a probe fails or is a slot of its level), `WidthAssumption`,
`WordAssumption` and `UnboundedAssumption` (the widths of counters),
`FaultAssumption`. For Python, `PyAssumption` (equal objects
hash alike, as Python asks of a key) and `OperandAssumption` (operands are
sequences of items). For the arithmetic, `InputAssumption`: `Word` is two to the
`UsizeBits`, and questions are asked where the code asks them (a reserve
exponent from one, a level with a free slot, a bound from one and below the words,
a table of two levels at least); `EncodingAssumption` and `LaneAssumption`, the code's
bounds on the words (a narrow code has no more bits than an exact one and a
narrow `j` has 16; the lanes fit in 64); and `QueryAssumption` (every level has a
probe within the cap on positions, and the limit on probes is past the last one
of the first level); `PlanInputAssumption` asks about no more levels than buckets, as
`BoundAssumption` bounds them: a plan has a bucket for each level. The geometry and the probe sequences give those on shapes and probes by
construction. The run `funnel_refresh_panic` shows that the condition on the
refresh is needed, and `funnel_drain_panic` that the one on drains is.

Funnel's invariant has three parts. `TypeInv` adds to the types that a waiting
insert has its key, and that the probe it kept is for the seed the grown table
has. `ReachInv` says a live key lies in the shape, on its walk with no EMPTY
slot before it, or its generation is flagged; during a rebuild the old
generation too. Only a tombstone replaces a key (`ReachKept`), and a placement
takes the first vacancy of a walk (`VacancyFacts`). `MapInv` says keys are
distinct and recorded, except that a refresh has recorded only what it passed;
that a rebuild has placed only keys it has passed (`Moved`), so the next one is
not there yet; and that a waiting key is in no generation.
`SearchesComplete` joins them: a search stops at the key, and not before.

Elastic's `Inv` says instead that the schedule is the prefix of the paper's
order up to the high water, that every live key is at a probe on it or the
generation is flagged, and that the scheduler's window is the one of its index
(`Window`). `KeepsGood` says once what a step may do to such a generation; from
the window follows that the cached target is the batch of any count
(`TargetIsActive`). `InvNext` sorts every step of the system into a few kinds
(`Kind`), and the second module reasons by kind alone. Its `MapInv` is Funnel's,
and `Counted`: the count bounds the live keys and never exceeds the slots. It is
needed because a lookup answers at once when the count is zero, and because
decrements wrap; a forgotten drain leaves the count too large, never too small.

The refinement adds `DataInv` to the invariant of either backend: a live slot
holds a value; a waiting insert has its own; a rebuild has copied every entry up
to its cursor with its value, and has only those; and a wiping loop has emptied
what it passed. A step
that writes `table` then gains one entry (`Gains`), loses one (`Loses`) or keeps
them all (`SameEntries`), and `StoreStep`, `RemoveStep`, `DiscardStep` and
`SilentStep` say which step of `MapSpec` each of these is.

The second half of `FunnelMap_proofs` counts. `Counts` holds under every fault: the live keys never
outnumber `len`, and `len` never passes the limit, which is below the slots; so a
free slot is left for the last resort (`RoomLeft`) and a decrement never meets
zero. An abandoned drain leaves `len` too large and breaks only `Exact`, that both
counters are right; `Tally` is both. `RebuildCounts` carries them through a
rebuild: the new generation counts what the cursor has passed (`Passed`), and
the old one's count fits under the new limit, strictly if an insert waits.
`EpochNext` then sorts every step by what it does to the count, to the keys off
their walks (`Strays`) and to the epoch (`EpochStep`), with one more invariant: a
running rebuild remembers a recovery exactly if it put a key off its walk
(`RecoveredInv`). That the vacancy an insert works with tells whether its walk has
room (`TellsRoom`) rests on the clean scan, which trusts `tombstones`; so
`RecoveryCounted` assumes that no drain is abandoned.

`ElasticMap_proofs` ends with the same argument for Elastic, where every level
has counters of its own. `Tally` says that `len` covers the live keys within the
limit and, unless a drain is abandoned, that it is their number and each level's
counters are those of its slots. `Fills`, `Buries` and `Sweeps` say how a step that
places, removes or wipes changes them (the level it touches, and no other), and
`TallyInv` adds for a rebuild that the new generation counts what the cursor has
passed (`Passed`) and that the old count fits under the new limit, strictly if an insert
waits: a cleanup and a recovery keep the shape, shrinking and reserving ask for a
shape that holds `len`, and for growth it is `GrowthAssumption`.

`RecoveryCounted` says of each step whether it owes a recovery (`OwesRecovery`)
without reading the flag or the branch the insert took: an insert owes one if no
target has a slot for its key. The insert itself skips targets whose level counters
show no room, so that it skips none with a slot (`LastResortUnplaceable`) needs the
counters of the levels exact, and here too no drain abandoned. `FlagInv` adds that a
running rebuild remembers whether it flagged its table.

Python's `Ind` says that the table maps pairwise unequal objects, that an
iterator has a snapshot of such entries and a position inside it, and that the
generation stands still only while the size, and of a map the keys, do too.
The first half of `PyCollection_proofs`, about `PyTable`, builds up to it. A lookup is a fold over any order of the keys of
one hash: `Sound` says what any of them may answer, and that is where
`KeysStayDistinct` is needed, since an error parked on the way to the one equal
key reads as absence, and two would be found one at a time. `InsertFacts` and
`RemoveFacts` leave a table in which two equal keys may sit side by side
(`RoughTables`); `TakenBack` shows that the second lookup, which compares nothing
that runs user code, finds exactly the key that was put, because a key is always
decided to be itself. So `Put` and `Took` are what the checked operations do:
everything, or nothing and an error. The second half carries this over
operands: `Does` is one item, `Reached` is any number of them, and `Called`, what
`CallsApplyPrefix` says of a step, follows. `Moved` is what each step does to
the generation: if it stands still, an `update` has kept the size and only adds
keys, so the keys are the same (`MutateMoves`).

The folds of these modules (`Lookups`, `CopyInto`, `Each`, `EntriesOf`, `Uniques`) are
those of the community modules, over sequences. A lemma for each (`ScanSteps`,
`CopySteps`, `EachSteps`, `EntriesSteps`, `UniquesSteps`) turns it into a sequence of
states with a step between neighbours, from `IterExists`, which proves that the
recursive function behind a fold exists; induction is then over the positions
(`PositionInduction`). The step functions (`CopyOne`, `EachOne`, `UniqueOne`) are
operators of their own for this.

`Arithmetic_proofs` starts from the laws of `Pow2`, by `NaturalInduction`: as with
positions, the induction is over a set of numbers, so that it needs no operator
for a parameter. `LimitCovers` says that the insertion limit of n slots covers a
request of m exactly from m + (m - 1) / (2^d - 1) on, the closed form of
`exact_capacity_for`; its checked sum overflows only where no slot count would do
(`ExactCovers`), and the doublings of `capacity_for` meet the same bound
(`DoublingIsLeast`). A bit length is the least k that 2^k exceeds
(`WidthLeast`), and the budget's logarithm is the difference of two of them or
one more (`BudgetLogarithm`). For the range reduction, the accepted words of an
index are an interval (`AcceptedWords`) and every such interval has as many words
(`EqualShares`), although it starts elsewhere. For the plan, level i has half, rounded
up, of the slots that i - 1 halvings leave, so sums telescope (`SlotSums`); what is left
of the insertion limit after a batch is zero, or the limit less the slots so far
but for the halved reserves and the last level's quarter (`Spends`,
`BatchesSpend`); and since the halved reserves of the levels are together no more
than what the limit keeps back, the batches reach it (`QuotasSpendLimit`).

Bits come next. `Stacked` says which places a sum of a shifted number and one below
it has, `OnesStacked` says it of their sets, and `NumberIs` that a number of 64
places is read back from its set. `LaneRead` is then pure set reasoning: of a word
put together from three sets in a row, a mask and a shift answer the middle one.
`FieldLanes` and the two lemmas on counters are instances of it. For `phi`,
`PairsPlaces` says what every place of the marked bits holds: an even one a bit of
`j`, an odd one a marker up to the length of `j`. `CheckedFits` follows the
encoder bit by bit, overflow included; `SpreadSteps` the four steps that move the bits
of `j` apart; `DataAre` and `DelimiterIs` the decoder. The induction over a
recursion that halves is `HalvingInduction`, again over a set of numbers. `phi`
grows with the probe and with the level (`PhiOrder`, `PhiGrowsByLevel`), so the binary
search narrows to the first probe past a position (`NarrowerRange`,
`SearchFinds`), and what the routes between two positions are follows.

`FunnelPlans_proofs` starts from loops: `LoopTurns` says that what a loop holds is
turned once per turn, and each loop has its invariant, a set of turn numbers. The
code comment "the adjacent 3/4 +/- 1 path intervals are contiguous and overlap as
the first count increases (exhaustively guarded by the reference tests)" is
`PathsAreOrderly`, for every number of levels: the least and the largest sum of
the paths from a count (`Fewest`, `Most`) grow with the count, and from one count
to the next no sum is left out. So a sum between them is the sum of a path
(`CompletesNext`, `PathSumsAre`), and looking at both ends is enough, which is
all that the code does. The iterator then keeps what is left completable
(`RunningTurns`), the two binary searches close in on the lowest and the highest feasible
first count (`LowestIs`, `HighestIs`), and the estimate moved between them is the
nearest (`ClampIsNearest`, `NearestFirstIs`).

For the special array, Euclid's loop ends at a common divisor (`GcdDivides`; that
it is the greatest is not needed, only shortens the scan), so after the residue cycle
the fallback half has moved by whole buckets (`ResidueCycleIs`). A length that
fits past the cycle fits one cycle before (`FitRepeats`), so the scan finds the first,
which is the longest (`LayoutIs`); and the buckets never fail, since there are at
least as many as levels.

For the size of a table, `RequiredIs` says that the requirement of
`funnel_minimum_slots` is monotone and moves only with the double logarithm. Every
turn after the first that moves the size has raised that by one, and the bits of
`usize` bound it, so `UsizeBits` + 1 turns reach a fixed point, and none below it
was passed (`MinimumSlotsIs`). A plan needs what each of the bounds says
(`PlanNeeds`, and `ExactCovers` of `Arithmetic_proofs` for the request), so the
search from the largest of them skips none (`SearchIs`).

Only model-checked, and out of the prover's reach: `CallsReturn`, which is
liveness under fairness.

## Not modelled

* `clone_table` (a copy of the arena), `get_disjoint_mut` and the borrowing
  iterators (they read), comparison, formatting.
* `set.rs` beyond what the map under it does: the set algebra reads two sets.
* In `python.rs`: views, comparisons, `repr`, pickling and the operators that
  build a new collection from two; they read under the borrow and bump nothing.
* The keyed mixing of `exact/probe.rs` and the filter's choice of a word: 64-bit
  multiplications out of TLC's reach; what they answer is a constant.
* SIMD masks, memory layout and allocation (`raw/*`): one-line wrappers of
  architecture intrinsics and pointer arithmetic. The order of slots they yield is modelled.
* `exact/reference.rs`, an oracle compiled for tests only: `Arithmetic` states
  the same schedules as definitions.
* `hasher.rs`, `error.rs`, `macros.rs`: types without state. Parsing and
  validation of a reserve fraction.

## Plan

Every invariant and action property that the passing runs check is proved, for
the tables under the faults that the table of theorems admits. `CallsReturn` is left
to TLC. What could come next: `clone_table` as an action of both tables, and
Funnel's case-by-case proofs sorted by kind of step like Elastic's.

## Running

    tlc -config funnel_map.cfg MCFunnelTable.tla
    tlc -config elastic_map.cfg MCElasticTable.tla
    tlc -config arithmetic.cfg MCArithmetic.tla
    tlc -config py_collection.cfg MCPyCollection.tla
    tlapm FunnelTable_proofs.tla
    tlapm FunnelMap_proofs.tla
    tlapm ElasticTable_proofs.tla
    tlapm ElasticMap_proofs.tla
    tlapm PyCollection_proofs.tla
    tlapm Arithmetic_proofs.tla
    tlapm FunnelPlans_proofs.tla
