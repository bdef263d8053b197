------------------------------ MODULE ObjDirs ------------------------------
(***************************************************************************)
(* The choice of an objects directory for every configuration of the       *)
(* session: builduniquedirs in src/base/bake.lua. The first loop counts how*)
(* often each candidate directory occurs, the second gives each            *)
(* configuration its first candidate that occurs once.                     *)
(*                                                                         *)
(* A directory is a sequence of path components (path.join concatenates and*)
(* path.normalize drops empty ones). The root configuration of a project   *)
(* has no name yet, and the name of the platform Native is left out.       *)
(***************************************************************************)
EXTENDS Naturals, Sequences

CONSTANTS
  Entries,     \* the configurations of all projects of all solutions
  Rank,        \* position of an entry's project in the two outer loops
  Inputs       \* their settings: for each entry a record in Setting

\* What the candidates of a configuration are built from: an absolute objects
\* directory, the platform and configuration part (empty for Native and for
\* the root) and the project's name.
Setting == [root : BOOLEAN, base : Seq(STRING), plt : Seq(STRING),
            name : Seq(STRING), prj : Seq(STRING)]

ASSUME InputAssumption ==
  /\ Rank \in [Entries -> Nat]
  /\ Inputs \subseteq [Entries -> Setting]
  /\ \A in \in Inputs, e \in Entries :
       in[e].root => in[e].name = << >> /\ in[e].plt = << >>

VARIABLES
  cfgs,     \* the settings, fixed
  phase,    \* "count", "assign" or "done"
  left,     \* the configurations the current loop has still to visit
  hits,     \* hit_counts
  objdir    \* cfg.objectsdir, << >> before it is assigned

vars == <<cfgs, phase, left, hits, objdir>>

\* dirs[1] .. dirs[4] of an entry.
Dirs(e) ==
  LET s == cfgs[e] IN
  <<s.base, s.base \o s.plt, s.base \o s.plt \o s.name,
    s.base \o s.plt \o s.name \o s.prj>>

\* "configurations other than the root should bias toward a more description path"
Start(e) == IF cfgs[e].root THEN 1 ELSE 2

Candidates(e) == {Dirs(e)[v] : v \in Start(e) .. 4}

AllDirs == UNION {Candidates(e) : e \in Entries}

\* How often the loop over one configuration's candidates counts d.
Adds(e, d) ==
  LET one(v) == IF v >= Start(e) /\ Dirs(e)[v] = d THEN 1 ELSE 0
  IN one(1) + one(2) + one(3) + one(4)

\* The loops visit projects in order and the configurations of a project in
\* any order (pairs).
Visits(e) == e \in left /\ \A f \in left : Rank[e] <= Rank[f]

Init ==
  /\ cfgs \in Inputs
  /\ phase = "count"
  /\ left = Entries
  /\ hits = [d \in AllDirs |-> 0]
  /\ objdir = [e \in Entries |-> << >>]

Count ==
  /\ phase = "count"
  /\ \E e \in Entries :
       /\ Visits(e)
       /\ hits' = [d \in AllDirs |-> hits[d] + Adds(e, d)]
       /\ left' = left \ {e}
  /\ UNCHANGED <<cfgs, phase, objdir>>

CountDone ==
  /\ phase = "count" /\ left = {}
  /\ phase' = "assign"
  /\ left' = Entries
  /\ UNCHANGED <<cfgs, hits, objdir>>

\* "skipping those that are in use somewhere else in the session"
Free(d) == hits[d] = 1

\* Mutant: the last free candidate is taken.
TakesLast(e, v) ==
  /\ v \in Start(e) .. 4
  /\ \A w \in v + 1 .. 4 : ~Free(Dirs(e)[w])
  /\ Free(Dirs(e)[v]) \/ v = Start(e)

\* The candidate at which the loop stops: the first free one, or the last.
Takes(e, v) ==
  /\ v \in Start(e) .. 4
  /\ \A w \in Start(e) .. v - 1 : ~Free(Dirs(e)[w])
  /\ Free(Dirs(e)[v]) \/ v = 4

Assign ==
  /\ phase = "assign"
  /\ \E e \in Entries, v \in 1 .. 4 :
       /\ Visits(e)
       /\ Takes(e, v)
       /\ objdir' = [objdir EXCEPT ![e] = Dirs(e)[v]]
       /\ left' = left \ {e}
  /\ UNCHANGED <<cfgs, phase, hits>>

AssignDone ==
  /\ phase = "assign" /\ left = {}
  /\ phase' = "done"
  /\ UNCHANGED <<cfgs, left, hits, objdir>>

Next == Count \/ CountDone \/ Assign \/ AssignDone

Spec == Init /\ [][Next]_vars

-----------------------------------------------------------------------------
(* Properties *)

TypeOK ==
  /\ cfgs \in Inputs
  /\ phase \in {"count", "assign", "done"}
  /\ left \subseteq Entries
  /\ hits \in [AllDirs -> Nat]
  /\ objdir \in [Entries -> AllDirs \cup {<< >>}]

Assigned(e) == phase = "done" \/ (phase = "assign" /\ e \notin left)

\* builduniquedirs: two configurations of the session share a directory only
\* when both ran out of candidates, and then they agree in platform,
\* configuration and project name as well as in the directory itself.
SharedOnlyAtFallback ==
  \A e, f \in Entries :
    (e # f /\ Assigned(e) /\ Assigned(f) /\ objdir[e] = objdir[f]) =>
      /\ objdir[e] = Dirs(e)[4] /\ objdir[f] = Dirs(f)[4]
      /\ \A v \in Start(e) .. 4 : hits[Dirs(e)[v]] > 1

\* The root configuration's first three candidates are the same directory,
\* which its own loop counts three times: it always ends with the fourth.
RootTakesLast ==
  \A e \in Entries : Assigned(e) /\ cfgs[e].root => objdir[e] = Dirs(e)[4]

\* No other candidate of the session, of this or of another configuration, is
\* the directory of candidate v of e.
Sole(e, v) ==
  \A f \in Entries : \A w \in Start(f) .. 4 :
    Dirs(f)[w] = Dirs(e)[v] => f = e /\ w = v

\* The counters, filled by the first loop in whatever order pairs gives, let the
\* second loop choose the first candidate that is nobody's but e's, and the last
\* one when there is none.
FirstSole ==
  \A e \in Entries : Assigned(e) =>
    \E v \in Start(e) .. 4 :
      /\ objdir[e] = Dirs(e)[v]
      /\ Sole(e, v) \/ v = 4
      /\ \A w \in Start(e) .. v - 1 : ~Sole(e, w)

=============================================================================
