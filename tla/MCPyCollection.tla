---------------------------- MODULE MCPyCollection ---------------------------
(***************************************************************************)
(* Four keys of one hash in two classes: two equal str objects, and two    *)
(* equal objects whose __eq__ may raise.                                   *)
(***************************************************************************)
EXTENDS PyCollection

CONSTANTS a1, a2, y1, y2, v, w

MCObjects == {a1, a2, y1, y2}
MCClassOf == [o \in MCObjects |-> IF o \in {a1, a2} THEN "a" ELSE "y"]
MCHashOf  == [o \in MCObjects |-> 1]

Item(k, x) == [key |-> k, value |-> x]

(* Operands that meet equal keys, raise at their second or third item, or
   repeat a key. *)
MCOperands == {
  <<>>,
  <<Item(y2, v)>>,
  <<Item(a2, w), Item(y2, w)>>,
  <<Item(y1, v), Item(a1, v), Item(y2, w)>>}

(* No action and no invariant reads the event of the last call, and an action
   property is checked on every step: states that differ only there are one. *)
View == <<kind, table, generation, iter, meeting>>
==============================================================================
