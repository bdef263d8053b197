------------------------------- MODULE LuaMap -------------------------------
(***************************************************************************)
(* What a Lua table promises, without arrays, nodes or hashing: a map from *)
(* keys to values in which Nil means absent, and a traversal that visits   *)
(* every key that is present when it begins and is not erased before its   *)
(* turn, each once and in any order.                                       *)
(***************************************************************************)
CONSTANTS Keys, Vals, Nil

VARIABLES
  map,      \* the value of every key
  todo,     \* the keys the traversal has still to visit
  walking   \* TRUE during a traversal

vars == <<map, todo, walking>>

Init ==
  /\ map = [k \in Keys |-> Nil]
  /\ todo = {}
  /\ walking = FALSE

\* Assigns one key. During a traversal only keys that are present may be
\* assigned, and a key that is erased need not be visited any more.
Store(k, v) ==
  /\ walking => map[k] # Nil
  /\ map' = [map EXCEPT ![k] = v]
  /\ todo' = IF v = Nil THEN todo \ {k} ELSE todo
  /\ UNCHANGED walking

\* Begins a traversal and visits its first key.
Begin(k) ==
  /\ ~walking
  /\ map[k] # Nil
  /\ todo' = {j \in Keys : map[j] # Nil} \ {k}
  /\ walking' = TRUE
  /\ UNCHANGED map

Visit(k) ==
  /\ walking
  /\ k \in todo
  /\ todo' = todo \ {k}
  /\ UNCHANGED <<map, walking>>

End ==
  /\ walking
  /\ todo = {}
  /\ walking' = FALSE
  /\ UNCHANGED <<map, todo>>

Next ==
  \/ \E k \in Keys, v \in Vals \cup {Nil} : Store(k, v)
  \/ \E k \in Keys : Begin(k) \/ Visit(k)
  \/ End

Spec == Init /\ [][Next]_vars
=============================================================================
