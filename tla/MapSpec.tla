------------------------------- MODULE MapSpec -------------------------------
(***************************************************************************)
(* What a hash map promises its caller, whatever backend stores it: a      *)
(* partial function from keys to values, and the answer of every call.     *)
(* Both backends implement the operations of the TableBackend trait.  A    *)
(* call that ends without an answer (it unwinds, or resizes the table)     *)
(* changes nothing, and entries leave silently only while a bulk removal   *)
(* runs.                                                                   *)
(***************************************************************************)
EXTENDS MapEvents

VARIABLES dict,   \* the value stored under each key, None for an absent key
          event   \* what the caller saw last

vars == <<dict, event>>

TypeOK ==
  /\ dict \in [Keys -> Vals \cup {None}]
  /\ event \in Event

Init ==
  /\ dict = [k \in Keys |-> None]
  /\ event = Quiet

(* get(k), and entry(k) when it is occupied. *)
Get(k) ==
  /\ event' = Answered("get", k, None, dict[k])
  /\ UNCHANGED dict

(* Store v under k and answer the value it replaces; entry(k).or_insert(v)
   when the entry is vacant. *)
Insert(k, v) ==
  /\ dict' = [dict EXCEPT ![k] = v]
  /\ event' = Answered("insert", k, v, dict[k])

(* Remove k and answer its value. *)
Remove(k) ==
  /\ dict' = [dict EXCEPT ![k] = None]
  /\ event' = Answered("remove", k, None, dict[k])

(* clear, drain or extract_if begins. *)
Start(op) ==
  /\ event' = Bulky(op)
  /\ UNCHANGED dict

(* While it runs, one entry leaves. *)
Discard(k) ==
  /\ event.op \in Bulk /\ dict[k] # None
  /\ dict' = [dict EXCEPT ![k] = None]
  /\ UNCHANGED event

(* A call begins, or a bulk removal ends: nothing changes for the caller. *)
Silent ==
  /\ event' = Quiet
  /\ UNCHANGED dict

Next ==
  \/ \E k \in Keys :
       \/ Get(k) \/ Remove(k) \/ Discard(k)
       \/ \E v \in Vals : Insert(k, v)
  \/ \E op \in Bulk : Start(op)
  \/ Silent

Spec == Init /\ [][Next]_vars
==============================================================================
