----------------------------- MODULE Connections -----------------------------
(***************************************************************************)
(* What the search for usage projects in src/base/bake.lua promises: the   *)
(* projects a configuration is connected to, stated without the search.    *)
(* A configuration compiles against every usage project that its "uses"    *)
(* reach through the uses of usage projects, and also links against every  *)
(* usage project that the links of those reach through static libraries.   *)
(* The connections are found once, and as a whole.                         *)
(***************************************************************************)
EXTENDS Naturals, Sequences

CONSTANTS
  Self,       \* the project that asks
  None        \* no connections yet

VARIABLES
  g,          \* the usage projects: a record like Usage!Graph
  conn        \* the connections of the project

\* The names in the links of a usage project.
LinkedNames(n) == {g.links[n][k] : k \in 1 .. Len(g.links[n])}

\* The names that can be connected: those of other projects with a usage.
Eligible(S) == (S \cap g.usage) \ {Self}

\* Closed under "uses", starting from the project's own.
UsesClosed(S) ==
  /\ Eligible(g.selfuses) \subseteq S
  /\ \A n \in S : Eligible(g.uses[n]) \subseteq S

\* Closed under "links", starting from the links of the projects in C. The
\* search only continues through static libraries.
LinksClosed(C, S) ==
  /\ \A n \in C : Eligible(LinkedNames(n)) \ C \subseteq S
  /\ \A n \in S \cap g.static : Eligible(LinkedNames(n)) \ C \subseteq S

LeastUses(C) ==
  UsesClosed(C) /\ \A T \in SUBSET g.usage : UsesClosed(T) => C \subseteq T

LeastLinks(C, L) ==
  LinksClosed(C, L) /\ \A T \in SUBSET g.usage : LinksClosed(C, T) => L \subseteq T

Connect ==
  /\ conn = None
  /\ \E C \in SUBSET g.usage : LeastUses(C) /\
       \E L \in SUBSET g.usage :
         LeastLinks(C, L) /\ conn' = [compile |-> C, link |-> L]
  /\ UNCHANGED g

Safety == conn = None /\ [][Connect]_<<g, conn>>

Spec == Safety /\ WF_<<g, conn>>(Connect)
=============================================================================
