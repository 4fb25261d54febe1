------------------------------- MODULE PyTable -------------------------------
(***************************************************************************)
(* The collection inside a Python wrapper and the single-key operations on *)
(* it (python.rs).  Keys are Python objects, compared by identity, by a    *)
(* fast path for str and int, or by __eq__, which may raise.  The table    *)
(* cannot fail, so the first error is parked: it and every later call of   *)
(* __eq__ in the same operation reads as unequal, while identity and the   *)
(* fast path still answer.  The wrapper then undoes what the table did and *)
(* raises the error.                                                       *)
(*                                                                         *)
(* The order in which a lookup meets the stored keys is the table's own    *)
(* business and changes with every growth: any order is possible here.  So *)
(* an operation answers the set of its possible outcomes.                  *)
(***************************************************************************)
EXTENDS Naturals, SequencesExt

CONSTANTS
  Objects,   \* the key objects, equal ones among them
  ClassOf,   \* object -> what it is equal to
  HashOf,    \* object -> its cached hash
  Builtin,   \* the str (or int) objects: two of them need no __eq__
  Raisers,   \* objects whose __eq__ may raise
  Values

ASSUME PyAssumption ==
  /\ DOMAIN ClassOf = Objects
  /\ Builtin \subseteq Objects /\ Raisers \subseteq Objects
  /\ \A o, p \in Objects : ClassOf[o] = ClassOf[p] => HashOf[o] = HashOf[p]

(* entries maps the stored objects to their values.  The capacity doubles
   until it admits what is needed. *)
EmptyTable == [entries |-> <<>>, capacity |-> 0]
Doublings(needed) ==
  LET doubled[k \in 0..needed] == IF k = 0 THEN 1 ELSE 2 * doubled[k - 1]
  IN  Range(doubled)

(* Mutant: off by one. *)
GrownShort(capacity, needed) ==
  IF needed <= capacity THEN capacity ELSE Min({c \in Doublings(needed) : c + 1 >= needed})

Grown(capacity, needed) ==
  IF needed <= capacity THEN capacity ELSE Min({c \in Doublings(needed) : c >= needed})

Keys(table) == DOMAIN table.entries
Size(table) == Cardinality(Keys(table))

------------------------------------------------------------------------------
(* HashedAny::eq.  Decided pairs run no user code. *)
Equal(k, o) == ClassOf[k] = ClassOf[o]
Decided(k, o) == HashOf[k] # HashOf[o] \/ k = o \/ {k, o} \subseteq Builtin
MayRaise(k, o) == ~Decided(k, o) /\ {k, o} \cap Raisers # {}

(* A lookup of k meets the stored object o: what was found so far, and
   whether an error is parked. *)
Compare(seen, k, o, raising) ==
  IF seen.found # {} THEN seen
  ELSE IF Decided(k, o) THEN [seen EXCEPT !.found = IF Equal(k, o) THEN {o} ELSE {}]
  ELSE IF seen.parked THEN seen
  ELSE IF o \in raising THEN [seen EXCEPT !.parked = TRUE]
  ELSE [seen EXCEPT !.found = IF Equal(k, o) THEN {o} ELSE {}]

Unseen(parked) == [found |-> {}, parked |-> parked]

Scan(order, k, raising, start) ==
  FoldLeft(LAMBDA seen, o : Compare(seen, k, o, raising), start, order)

Lookups(keys, k, parked) ==
  LET met == {o \in keys : HashOf[o] = HashOf[k]}
  IN  {Scan(order, k, raising, Unseen(parked)) :
         order \in SetToSeqs(met), raising \in SUBSET {o \in met : MayRaise(k, o)}}

With(entries, k, v) == [o \in DOMAIN entries \cup {k} |-> IF o = k THEN v ELSE entries[o]]

(* HashMap::insert: a stored key stays and takes the value. *)
Insert(table, k, v, parked) ==
  {[parked |-> l.parked, replaced |-> {table.entries[o] : o \in l.found},
    table  |-> IF l.found = {}
               THEN [entries  |-> With(table.entries, k, v),
                     capacity |-> Grown(table.capacity, Size(table) + 1)]
               ELSE [table EXCEPT !.entries = [o \in DOMAIN @ |-> IF o \in l.found THEN v ELSE @[o]]]] :
     l \in Lookups(Keys(table), k, parked)}

Without(table, objects) ==
  [table EXCEPT !.entries = [o \in DOMAIN @ \ objects |-> @[o]]]

(* HashMap::remove_entry. *)
RemoveEntry(table, k, parked) ==
  {[parked |-> l.parked, removed |-> l.found, table |-> Without(table, l.found)] :
     l \in Lookups(Keys(table), k, parked)}

------------------------------------------------------------------------------
(* The checked operations.  An outcome is the table, whether the operation *)
(* raised, and whether it changed the table if not.                        *)

Outcome(table, raised, changed) == [table |-> table, raised |-> raised, changed |-> changed]

(* Mutant: the error is raised with the insertion in place. *)
MapInsertKept(table, k, v) ==
  {Outcome(i.table, i.parked, TRUE) : i \in Insert(table, k, v, FALSE)}

(* map_insert: an error that was parked takes the insertion back, or puts the
   replaced value back, by looking the key up again. *)
MapInsert(table, k, v) ==
  UNION {IF ~i.parked THEN {Outcome(i.table, FALSE, TRUE)}
         ELSE IF i.replaced = {}
           THEN {Outcome(r.table, TRUE, FALSE) : r \in RemoveEntry(i.table, k, TRUE)}
         ELSE {Outcome([i.table EXCEPT !.entries =
                          [o \in DOMAIN @ |-> IF o \in l.found THEN CHOOSE old \in i.replaced : TRUE
                                              ELSE @[o]]], TRUE, FALSE) :
                 l \in Lookups(Keys(i.table), k, TRUE)} :
           i \in Insert(table, k, v, FALSE)}

(* map_remove, set_remove: an entry taken out while an error was parked goes
   back in. *)
TakeOut(table, k) ==
  UNION {IF ~r.parked \/ r.removed = {} THEN {Outcome(r.table, r.parked, r.removed # {})}
         ELSE UNION {{Outcome(i.table, TRUE, FALSE) : i \in Insert(r.table, o, table.entries[o], TRUE)} :
                       o \in r.removed} :
           r \in RemoveEntry(table, k, FALSE)}

(* set_insert: as map_insert, where a replaced unit needs no undoing. *)
SetInsert(table, k, unit) ==
  UNION {IF ~i.parked \/ i.replaced # {} THEN {Outcome(i.table, i.parked, i.replaced = {})}
         ELSE {Outcome(r.table, TRUE, FALSE) : r \in RemoveEntry(i.table, k, TRUE)} :
           i \in Insert(table, k, unit, FALSE)}

(* reserve: room for so many more. *)
Reserve(table, additional) ==
  [table EXCEPT !.capacity = Grown(@, Size(table) + additional)]

(* map_copy_into, set_copy_into: the keys are known to be distinct, so that a
   comparison that raises may read as unequal. *)
CopyOne(tables, o, v) == {i.table : i \in UNION {Insert(t, o, v, FALSE) : t \in tables}}

CopyInto(table, entries) ==
  FoldLeft(LAMBDA tables, o : CopyOne(tables, o, entries[o]), {table}, SetToSeq(DOMAIN entries))
==============================================================================
