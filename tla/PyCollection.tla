----------------------------- MODULE PyCollection ----------------------------
(***************************************************************************)
(* A Python-facing map or set (python.rs): the table, the generation that  *)
(* its methods bump to invalidate iterators, and one iterator with its     *)
(* snapshot.  A method holds the borrow of the wrapper while it runs, so a *)
(* call is one action; only intersection_update lets user code run between *)
(* its copy and its write, and other calls with it.                        *)
(*                                                                         *)
(* A set is a map of the one value Unit.  An operand is the sequence of    *)
(* items it yields; reading it, or hashing an item, may raise after any of *)
(* them.  (A dict, a set or another collection of the same class also is a *)
(* sequence of items, pairwise distinct.)                                  *)
(***************************************************************************)
EXTENDS PyTable

CONSTANTS
  Operands,        \* sequences of items, records of a key and a value
  Unit,            \* the value of every element of a set
  MaxGeneration,   \* bound on the generations a run visits (u64 in the code)
  None

ASSUME OperandAssumption ==
  /\ Operands \subseteq Seq([key : Objects, value : Values])
  /\ MaxGeneration \in Nat

VARIABLES
  kind,         \* "map" or "set", for good
  table,
  generation,
  iter,         \* an iterator: its snapshot, its position, its generation
  meeting,      \* the copy an intersection_update in progress cuts down
  event         \* the call that just returned: what it was asked and answered

vars == <<kind, table, generation, iter, meeting, event>>

Distinct(items) == \A i, j \in DOMAIN items : i # j => ~Equal(items[i].key, items[j].key)

(* A call returns, raises, or raises what reading its operand raised, after
   the items it had read. *)
Answered(op, items, ended) == [op |-> op, items |-> items, ended |-> ended]
Ended(raised) == IF raised THEN "raised" ELSE "returned"

Init ==
  /\ kind \in {"map", "set"}
  /\ table = EmptyTable
  /\ generation = 0
  /\ iter = None
  /\ meeting = None
  /\ event = Answered("new", <<>>, "returned")

------------------------------------------------------------------------------
(* Generations.                                                            *)

Bump == generation < MaxGeneration /\ generation' = generation + 1

(* Mutant: a call that raised does not count as a change. *)
MutateUnraised(out) ==
  /\ table' = out.table
  /\ IF ~out.raised /\ out.changed THEN Bump ELSE UNCHANGED generation

(* mutate: bump once if the call says that it changed the collection, or if
   length or capacity say so. *)
Mutate(out) ==
  /\ table' = out.table
  /\ IF \/ ~out.raised /\ out.changed
        \/ <<Size(out.table), out.table.capacity>> # <<Size(table), table.capacity>>
     THEN Bump ELSE UNCHANGED generation

(* The single-key methods bump when they have changed something. *)
Commit(out) ==
  /\ table' = out.table
  /\ IF ~out.raised /\ out.changed THEN Bump ELSE UNCHANGED generation

Of(k, v) == <<[key |-> k, value |-> v]>>

------------------------------------------------------------------------------
(* Single keys.                                                            *)

SetItem(k, v) ==
  /\ kind = "map"
  /\ \E out \in MapInsert(table, k, v) :
       Commit(out) /\ event' = Answered("put", Of(k, v), Ended(out.raised))
  /\ UNCHANGED <<kind, iter, meeting>>

(* setdefault looks the key up, then inserts. *)
SetDefault(k, v) ==
  /\ kind = "map"
  /\ \E l \in Lookups(Keys(table), k, FALSE) :
       \/ /\ l.parked \/ l.found # {}
          /\ event' = Answered("default", Of(k, v), Ended(l.parked))
          /\ UNCHANGED <<table, generation>>
       \/ /\ ~l.parked /\ l.found = {}
          /\ \E out \in MapInsert(table, k, v) :
               Commit(out) /\ event' = Answered("default", Of(k, v), Ended(out.raised))
  /\ UNCHANGED <<kind, iter, meeting>>

Add(k) ==
  /\ kind = "set"
  /\ \E out \in SetInsert(table, k, Unit) :
       Commit(out) /\ event' = Answered("put", Of(k, Unit), Ended(out.raised))
  /\ UNCHANGED <<kind, iter, meeting>>

(* del and pop of a map, discard and remove of a set.  A missing key raises
   KeyError or not; nothing has happened either way. *)
Delete(k) ==
  /\ \E out \in TakeOut(table, k) :
       Commit(out) /\ event' = Answered("take", Of(k, Unit), Ended(out.raised))
  /\ UNCHANGED <<kind, iter, meeting>>

(* popitem, pop: the first entry that a scan meets. *)
PopItem ==
  /\ \E o \in Keys(table) :
       /\ Commit(Outcome(Without(table, {o}), FALSE, TRUE))
       /\ event' = Answered("take", Of(o, Unit), "returned")
  /\ UNCHANGED <<kind, iter, meeting>>

Clear ==
  /\ Bump
  /\ table' = [table EXCEPT !.entries = <<>>]
  /\ event' = Answered("clear", <<>>, "returned")
  /\ UNCHANGED <<kind, iter, meeting>>

------------------------------------------------------------------------------
(* Whole operands.                                                         *)

(* remove it, or else insert it. *)
ToggleItem(t, item) ==
  UNION {IF out.raised \/ out.changed THEN {out}
         ELSE {[s EXCEPT !.changed = TRUE] : s \in SetInsert(out.table, item.key, Unit)} :
           out \in TakeOut(t, item.key)}

PutItem(t, item) == IF kind = "map" THEN MapInsert(t, item.key, item.value)
                    ELSE SetInsert(t, item.key, Unit)

ItemDone(op, t, item) ==
  CASE op = "put"    -> PutItem(t, item)
    [] op = "take"   -> TakeOut(t, item.key)
    [] op = "toggle" -> ToggleItem(t, item)

(* One more item, unless an item before it raised: what was done stays. *)
EachOne(op, outs, item) ==
  UNION {IF out.raised THEN {out}
         ELSE {[s EXCEPT !.changed = @ \/ out.changed] : s \in ItemDone(op, out.table, item)} : out \in outs}

(* The items one by one. *)
Each(op, start, items) ==
  FoldLeft(LAMBDA outs, item : EachOne(op, outs, item), {Outcome(start, FALSE, FALSE)}, items)

EntriesOf(items) ==
  FoldLeft(LAMBDA entries, item : With(entries, item.key, IF kind = "map" THEN item.value ELSE Unit),
           <<>>, items)

(* How reading the operand ends.  An error of its iterator waits until the
   items before it are in ("pending"); an item that cannot be hashed raises
   inside the call. *)
Readings == {"whole", "pending", "unhashable"}
InsideCall(out, reading) ==
  [out EXCEPT !.raised = @ \/ reading = "unhashable"]
EndedReading(out, reading) ==
  IF ~out.raised /\ reading # "whole" THEN "unread" ELSE Ended(out.raised)

(* update, |=: reserve by the operand's length, then insert; the keys of a
   dict, a set or a collection of the class are never detached, and go into an
   empty table unchecked. *)
Update(items, reading) ==
  /\ LET room == Reserve(table, Len(items))
     IN  \/ \E out \in Each("put", room, items) :
              /\ Mutate(InsideCall(out, reading))
              /\ event' = Answered("put", items, EndedReading(out, reading))
         \/ /\ reading # "pending" /\ Distinct(items) /\ Size(table) = 0
            /\ \E copy \in CopyInto(room, EntriesOf(items)) :
                 LET out == Outcome(copy, FALSE, items # <<>>)
                 IN  /\ Mutate(InsideCall(out, reading))
                     /\ event' = Answered("put", items, EndedReading(out, reading))
  /\ UNCHANGED <<kind, iter, meeting>>

(* difference_update, -=. *)
DifferenceUpdate(items, reading) ==
  /\ kind = "set"
  /\ \E out \in Each("take", table, items) :
       /\ Mutate(InsideCall(out, reading))
       /\ event' = Answered("take", items, EndedReading(out, reading))
  /\ UNCHANGED <<kind, iter, meeting>>

(* The distinct items of an operand, in the order of their first appearance;
   telling them apart may raise. *)
UniqueOne(lists, item) ==
  UNION {IF list.raised THEN {list}
         ELSE {[list |-> IF l.found = {} THEN Append(list.list, item) ELSE list.list, raised |-> l.parked] :
                 l \in Lookups({i.key : i \in Range(list.list)}, item.key, FALSE)} : list \in lists}

Uniques(items) ==
  FoldLeft(LAMBDA lists, item : UniqueOne(lists, item), {[list |-> <<>>, raised |-> FALSE]}, items)

(* symmetric_difference_update, ^=: nothing happens if reading the operand or
   telling its items apart raises. *)
SymmetricDifferenceUpdate(items) ==
  /\ kind = "set"
  /\ \E unique \in Uniques(items) :
       \/ /\ unique.raised
          /\ event' = Answered("toggle", items, "raised")
          /\ UNCHANGED <<table, generation>>
       \/ /\ ~unique.raised
          /\ \E out \in Each("toggle", table, unique.list) :
               Mutate(out) /\ event' = Answered("toggle", unique.list, Ended(out.raised))
  /\ UNCHANGED <<kind, iter, meeting>>

(* -= or ^= with the set itself: it cannot be read while it is written, and
   is cleared instead. *)
SubtractItself ==
  /\ kind = "set"
  /\ Mutate(Outcome([table EXCEPT !.entries = <<>>], FALSE, Size(table) > 0))
  /\ event' = Answered("clear", <<>>, "returned")
  /\ UNCHANGED <<kind, iter, meeting>>

------------------------------------------------------------------------------
(* intersection_update, &=: on a copy, with the set released.              *)

IntersectBegin ==
  /\ kind = "set" /\ meeting = None
  /\ \E copy \in CopyInto(EmptyTable, table.entries) : meeting' = Keys(copy)
  /\ event' = Answered("other", <<>>, "returned")
  /\ UNCHANGED <<kind, table, generation, iter>>

(* One operand keeps the elements it holds, or raises and ends the call. *)
IntersectWith(items) ==
  /\ meeting # None
  /\ LET keys  == {item.key : item \in Range(items)}
         found == [k \in meeting |-> Lookups(keys, k, FALSE)]
     IN  \/ /\ \E k \in meeting : \E l \in found[k] : l.parked
            /\ meeting' = None
         \/ /\ \A k \in meeting : \E l \in found[k] : ~l.parked
            /\ meeting' = {k \in meeting : \E l \in found[k] : ~l.parked /\ l.found # {}}
  /\ event' = Answered("other", <<>>, "returned")
  /\ UNCHANGED <<kind, table, generation, iter>>

(* The set keeps the objects the copy kept: identity runs no user code. *)
IntersectEnd ==
  /\ meeting # None
  /\ Mutate(Outcome(Without(table, Keys(table) \ meeting), FALSE, FALSE))
  /\ meeting' = None
  /\ event' = Answered("cut", <<>>, "returned")
  /\ UNCHANGED <<kind, iter>>

------------------------------------------------------------------------------
(* Iterators.                                                              *)

Iterate ==
  /\ iter' = [snapshot |-> table.entries, pos |-> 0, generation |-> generation]
  /\ event' = Answered("other", <<>>, "returned")
  /\ UNCHANGED <<kind, table, generation, meeting>>

(* __next__ raises once the generation has moved on, and takes the next slot
   of the snapshot otherwise. *)
IterNext ==
  /\ iter # None /\ iter.generation = generation
  /\ iter.pos < Cardinality(DOMAIN iter.snapshot)
  /\ iter' = [iter EXCEPT !.pos = @ + 1]
  /\ event' = Answered("other", <<>>, "returned")
  /\ UNCHANGED <<kind, table, generation, meeting>>

Next ==
  \/ \E k \in Objects : \/ \E v \in Values : SetItem(k, v) \/ SetDefault(k, v)
                        \/ Add(k) \/ Delete(k)
  \/ PopItem \/ Clear \/ SubtractItself
  \/ \E items \in Operands : \/ \E reading \in Readings : \/ Update(items, reading)
                                                             \/ DifferenceUpdate(items, reading)
                             \/ SymmetricDifferenceUpdate(items)
                             \/ IntersectWith(items)
  \/ IntersectBegin \/ IntersectEnd
  \/ Iterate \/ IterNext

Spec == Init /\ [][Next]_vars

------------------------------------------------------------------------------
(* The dictionary of the keys' classes. *)
Classes == Range(ClassOf)
Dict(t) == [c \in Classes |-> {t.entries[o] : o \in {o \in Keys(t) : ClassOf[o] = c}}]

Applied(op, dict, item) ==
  LET c == ClassOf[item.key]
      stored == IF kind = "map" THEN item.value ELSE Unit
  IN  [dict EXCEPT ![c] =
         CASE op = "put"     -> {stored}
           [] op = "default" -> IF @ = {} THEN {stored} ELSE @
           [] op = "take"    -> {}
           [] op = "toggle"  -> IF @ = {} THEN {stored} ELSE {}]

(* The dictionary after so many of the items. *)
Progress(op, dict, items) ==
  LET after[n \in 0..Len(items)] == IF n = 0 THEN dict ELSE Applied(op, after[n - 1], items[n])
  IN  after

(* Every variable holds a value of its type. *)
TypeOK ==
  /\ kind \in {"map", "set"} /\ generation \in 0..MaxGeneration
  /\ Keys(table) \subseteq Objects /\ Size(table) <= table.capacity
  /\ Range(table.entries) \subseteq IF kind = "map" THEN Values ELSE {Unit}
  /\ iter # None => iter.pos <= Cardinality(DOMAIN iter.snapshot) /\ iter.generation <= generation
  /\ meeting # None => meeting \subseteq Objects

(* "an insert can go ahead beside an equal key": no two stored keys are
   equal, whatever their comparisons raised on the way. *)
KeysStayDistinct == \A o, p \in Keys(table) : Equal(o, p) => o = p

(* "changing nothing if comparing it raised", "keeps the changes made before
   it": a call does to the dictionary what its items say, in order, all of
   them if it returns, and those before the one that raised if it raises. *)
CallsApplyPrefix ==
  [][event'.op \in {"put", "default", "take", "toggle"} =>
       \E n \in 0..Len(event'.items) :
         /\ Dict(table') = Progress(event'.op, Dict(table), event'.items)[n]
         /\ (event'.ended = "raised") = (n < Len(event'.items))]_vars

(* "dictionary changed size during iteration": an iterator that still answers
   belongs to a collection of the size it was made from, and a map's iterator
   to one with the same keys, also after calls that raised halfway. *)
IteratorsFresh ==
  iter # None /\ iter.generation = generation =>
    /\ Cardinality(DOMAIN iter.snapshot) = Size(table)
    /\ kind = "map" => DOMAIN iter.snapshot = Keys(table)

(* "Invalidate active iterator snapshots. Call after every mutation.": an
   iterator that still answers holds what the collection holds. *)
SnapshotsInvalidated ==
  iter # None /\ iter.generation = generation => iter.snapshot = table.entries
==============================================================================
