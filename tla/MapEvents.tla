------------------------------ MODULE MapEvents ------------------------------
(***************************************************************************)
(* What the caller of a map can see: the last answer it was given.         *)
(***************************************************************************)
CONSTANTS Keys,   \* the keys
          Vals,   \* the values
          None    \* the absent value: Option::None

Bulk == {"clear", "drain", "extract"}

Event == [op : {"none", "get", "insert", "remove"} \cup Bulk, key : Keys \cup {None},
          val : Vals \cup {None}, answer : Vals \cup {None}]

(* A call named op answered: its key, the value it took, the value it gave. *)
Answered(op, k, v, answer) == [op |-> op, key |-> k, val |-> v, answer |-> answer]

(* A bulk removal named op runs; nothing was answered since the last call
   that changed the table without an answer. *)
Bulky(op) == Answered(op, None, None, None)
Quiet == Answered("none", None, None, None)
==============================================================================
