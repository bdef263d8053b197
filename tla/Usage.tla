------------------------------- MODULE Usage -------------------------------
(***************************************************************************)
(* How a configuration takes over the settings of the usage projects it is *)
(* connected to: getprojrec, getprojectsconnections, copydependentfield and*)
(* copyusagedata in src/base/bake.lua, for one configuration of one regular*)
(* project. (The configurations are independent: the search only reads     *)
(* usage projects, which buildconfigs never copies into.)                  *)
(*                                                                         *)
(* Names are lower-case, as the search compares them. The recursion of     *)
(* getprojrec is a set of projects still to be expanded, taken in any      *)
(* order; the code's depth-first order is one of them, and so is every     *)
(* order of pairs() over dstArray and linkToProjs.                         *)
(***************************************************************************)
EXTENDS Lists

CONSTANTS
  Names,       \* names of projects of the solution
  Libraries,   \* link names that are no projects
  Self,        \* the regular project whose configuration is built
  OwnFlag,     \* a flag set by the configuration itself
  None,
  Graphs       \* the usage projects a script may declare

\* The usage projects as the script declares them.
Graph == [usage  : SUBSET Names,                       \* names with a usage project
          proj   : SUBSET Names,                       \* names with a regular project
          selfuses : SUBSET Names,                     \* cfg.uses
          selflinks : Seq(Names \cup Libraries),       \* cfg.links
          uses   : [Names -> SUBSET Names],            \* usageProj.uses
          links  : [Names -> Seq(Names \cup Libraries)],  \* usageProj.links
          static : SUBSET Names]                       \* kind StaticLib

ASSUME GraphAssumption ==
  /\ Self \in Names
  /\ Names \cap Libraries = {}
  /\ OwnFlag \notin Names
  /\ Graphs \subseteq Graph
  /\ \A g \in Graphs : Self \in g.proj /\ g.usage \subseteq Names

ASSUME NoneAssumption == \A C, L \in SUBSET Names : None # [compile |-> C, link |-> L]

VARIABLES
  g,        \* the declared projects, fixed
  phase,    \* "uses", "links", "copy", "done"
  found,    \* foundList
  dst,      \* dstArray: the names found through uses
  lnk,      \* linkArray: the names found through links
  pending,  \* usage projects getprojrec has still to expand
  todo,     \* the entries the current pairs() loop has still to visit
  cfg       \* the configuration's flags and links

vars == <<g, phase, found, dst, lnk, pending, todo, cfg>>

Linked(n) == RangeOf(g.links[n])

\* "foundList[cfg.project.name:lower()] = true"
StartFound(self) == {self}

\* Mutant: names that were found before are expanded again.
NewNamesAgain(names) == names \cap g.usage

\* The names of a field that are neither found yet nor without usage project.
NewNames(names) == (names \cap g.usage) \ found

Init ==
  /\ g \in Graphs
  /\ phase = "uses"
  /\ LET new == (g.selfuses \cap g.usage) \ StartFound(Self) IN
       /\ found = StartFound(Self) \cup new
       /\ dst = new
       /\ pending = new
  /\ lnk = {}
  /\ todo = {}
  /\ cfg = [flags |-> <<OwnFlag>>, links |-> g.selflinks]

-----------------------------------------------------------------------------
\* getprojrec(dstArray, ..., "uses", false) on one usage project.
ExpandUses ==
  /\ phase = "uses"
  /\ \E n \in pending :
       LET new == NewNames(g.uses[n]) IN
       /\ found' = found \cup new
       /\ dst' = dst \cup new
       /\ pending' = (pending \ {n}) \cup new
  /\ UNCHANGED <<g, phase, lnk, todo, cfg>>

UsesDone ==
  /\ phase = "uses" /\ pending = {}
  /\ phase' = "links"
  /\ todo' = dst
  /\ UNCHANGED <<g, found, dst, lnk, pending, cfg>>

\* The links of one project found through uses, whatever its kind.
LinkRoot ==
  /\ phase = "links" /\ pending = {}
  /\ \E n \in todo :
       LET new == NewNames(Linked(n)) IN
       /\ found' = found \cup new
       /\ lnk' = lnk \cup new
       /\ pending' = new
       /\ todo' = todo \ {n}
  /\ UNCHANGED <<g, phase, dst, cfg>>

\* Mutant: the search goes on through every kind of project.
RecursesAlways(n) == TRUE

\* "Links can only recurse through static libraries."
Recurses(n) == n \in g.static

\* getprojrec(linkArray, ..., "links", true) on one usage project.
ExpandLinks ==
  /\ phase = "links"
  /\ \E n \in pending :
       LET new == IF Recurses(n) THEN NewNames(Linked(n)) ELSE {} IN
       /\ found' = found \cup new
       /\ lnk' = lnk \cup new
       /\ pending' = (pending \ {n}) \cup new
  /\ UNCHANGED <<g, phase, dst, todo, cfg>>

LinksDone ==
  /\ phase = "links" /\ pending = {} /\ todo = {}
  /\ phase' = "copy"
  /\ todo' = dst \cup lnk
  /\ UNCHANGED <<g, found, dst, lnk, pending, cfg>>

\* getCfgKind(cfg) == "StaticLib"
bIsStaticLib == Self \in g.static

\* "if(not prjEntry.bLinkageOnly)": linkArray entries are linkage-only.
CopiesUsage(n) == n \notin lnk

\* "Copy the linkage data if we're building a non-static thing and this is a
\* pure usage project."
CopiesLinkage(n) == ~bIsStaticLib /\ n \notin g.proj

LinksProject(n) == ~bIsStaticLib /\ n \in g.proj

\* isnameofproj: usage projects count as projects of the solution.
isnameofproj(x) == x \in g.proj \cup g.usage

\* Mutant: project names are copied with the libraries.
CopiedLinksAll(n) == g.links[n]

\* copydependentfield for links: names of projects are not copied.
CopiedLinks(n) == Filter(g.links[n], {x \in Names \cup Libraries : ~isnameofproj(x)})

\* copyusagedata for one entry, whose flag stands for its usage data.
CopyEntry ==
  /\ phase = "copy"
  /\ \E n \in todo :
       /\ todo' = todo \ {n}
       /\ cfg' = [cfg EXCEPT
            !.flags = IF CopiesUsage(n) THEN Append(@, n) ELSE @,
            !.links = (IF CopiesLinkage(n) THEN @ \o CopiedLinks(n) ELSE @)
                        \o (IF LinksProject(n) THEN <<n>> ELSE << >>)]
  /\ UNCHANGED <<g, phase, found, dst, lnk, pending>>

CopyDone ==
  /\ phase = "copy" /\ todo = {}
  /\ phase' = "done"
  /\ UNCHANGED <<g, found, dst, lnk, pending, todo, cfg>>

Next == \/ ExpandUses \/ UsesDone \/ LinkRoot \/ ExpandLinks \/ LinksDone
        \/ CopyEntry \/ CopyDone

Spec == Init /\ [][Next]_vars /\ WF_vars(Next)

-----------------------------------------------------------------------------
(* Properties *)

\* The connections, as far as they are known.
conn == IF phase \in {"uses", "links"} THEN None ELSE [compile |-> dst, link |-> lnk]

C == INSTANCE Connections WITH Self <- Self, None <- None, g <- g, conn <- conn

\* getprojectsconnections finds the connections Connections states, for every
\* graph of usage projects, cycles included, and in every pairs() order.
ConnectionsFound == C!Spec

Places(s, x) == {n \in 1 .. Len(s) : s[n] = x}

\* What the copy appended to the links that the script gave the configuration.
Added == SubSeq(cfg.links, Len(g.selflinks) + 1, Len(cfg.links))

\* copyusagedata: the configuration's own links stay in front, as they are. A
\* static library takes no linkage data; anything else gets each connected
\* project of the solution appended once (again, if its own links name it),
\* and the libraries of exactly the usage projects that have no project. The
\* flags are those of exactly the projects that were found through uses.
LinkageCopied ==
  phase = "done" =>
    /\ RangeOf(cfg.flags) = {OwnFlag} \cup {n \in dst : CopiesUsage(n)}
    /\ SubSeq(cfg.links, 1, Len(g.selflinks)) = g.selflinks
    /\ IF bIsStaticLib THEN Added = << >>
       ELSE \A x \in Names \cup Libraries :
              IF isnameofproj(x)
                THEN IF x \in (dst \cup lnk) \cap g.proj
                       THEN \E n \in 1 .. Len(Added) : Places(Added, x) = {n}
                       ELSE Places(Added, x) = {}
                ELSE (x \in RangeOf(Added)) <=>
                     \E n \in (dst \cup lnk) \ g.proj : x \in RangeOf(g.links[n])

\* The search and the copy come to an end, also for usage projects that use or
\* link each other in a circle.
Terminates == <>(phase = "done")
=============================================================================
