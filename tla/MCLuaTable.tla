----------------------------- MODULE MCLuaTable -----------------------------
(***************************************************************************)
(* Tables with keys of every class. The hash values make strings and        *)
(* objects collide with each other and with integers.                       *)
(***************************************************************************)
EXTENDS LuaTable

CONSTANTS newindex, str, obj, v1

MCIntKeys == {0, 1, 2, 4}
MCPow2Keys == {newindex, str}
MCModKeys == {obj}
MCHash ==
  [k \in MCIntKeys \cup MCPow2Keys \cup MCModKeys |->
     CASE k = newindex -> 1 [] k = str -> 1 [] k = obj -> 1 [] OTHER -> k]
MCInitSizes == {<<0, 0>>, <<0, 3>>}
=============================================================================
