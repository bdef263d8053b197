-------------------------------- MODULE Tree --------------------------------
(***************************************************************************)
(* The source tree of a project (src/src/base/tree.lua) as the generators  *)
(* use it: buildsourcetree (project.lua) adds the files of the project one *)
(* by one and sorts the tree, the Xcode generator regroups localized files *)
(* in a traversal that inserts and removes nodes while it runs, and a last *)
(* traversal lists what is there.                                          *)
(*                                                                         *)
(* A path is a sequence of names and "..", with a leading "/" when it is   *)
(* absolute. tree.add recurses to the front of the path first; i and cur   *)
(* are how far it has come back and the node it has returned.              *)
(***************************************************************************)
EXTENDS Lists

CONSTANTS
  Names,        \* names of files, directories and languages
  Up,           \* ".."
  Slash,        \* the root of the file system
  Lproj,        \* the names of directories that end in .lproj
  Lang,         \* their languages: Lang[English.lproj] = English
  Rank,         \* the order of strings
  Projects,     \* the lists of the virtual paths of files to build a tree from
  MaxNodes      \* a bound no project of the instance reaches

Nodes == 1 .. MaxNodes
Root == 1
Nil == 0

ASSUME NodeAssumption == MaxNodes \in Nat \ {0}

\* A language is not the name of an .lproj directory.
ASSUME NameAssumption ==
  /\ Up \notin Names /\ Nil \notin Names
  /\ Lproj \subseteq Names /\ Lang \in [Lproj -> Names \ Lproj]

\* An .lproj directory holds resources, not further .lproj directories.
ASSUME PathAssumption ==
  /\ Projects \subseteq Seq(Seq(Names \cup {Up, Slash}))
  /\ \A list \in Projects : \A f \in DOMAIN list : \A x, y \in DOMAIN list[f] :
    list[f][x] \in Lproj /\ list[f][y] \in Lproj => x = y

VARIABLES
  files,        \* the virtual paths of the project's files
  k, i, cur,    \* tree.add: the file, the components done, the node returned
  size,         \* the nodes made so far
  name, path, cfg, parent,  \* fields of the nodes; cfg is the number of a file
  kids, named,  \* node.children: its array part and its keyed part
  pc,           \* add, start, walk, regroup, done, overflow
  pass,         \* sort, localize, list: the traversals
  frames,       \* the nested calls of dochildren: node and index
  j,            \* the position of the loop over an .lproj directory
  visits        \* how often donode was called for a node in this traversal

fields == <<name, path, cfg, parent, kids, named, size>>
walk == <<pass, frames, j, visits>>
vars == <<files, k, i, cur, fields, pc, walk>>

-----------------------------------------------------------------------------
(* Building the tree.                                                      *)

Init ==
  /\ files \in Projects
  /\ k = 1 /\ i = 0 /\ cur = Root /\ size = 1
  /\ name = [n \in Nodes |-> Nil] /\ path = [n \in Nodes |-> << >>]
  /\ cfg = [n \in Nodes |-> Nil] /\ parent = [n \in Nodes |-> Nil]
  /\ kids = [n \in Nodes |-> << >>]
  /\ named = [n \in Nodes |-> [x \in Names |-> Nil]]
  /\ pc = "add" /\ pass = "sort" /\ frames = << >> /\ j = 1
  /\ visits = [n \in Nodes |-> 0]

\* path.getdirectory("/") is "/": the recursion does not reach ".".
AddAbsolute ==
  /\ pc = "add" /\ k <= Len(files) /\ i = 0
  /\ Len(files[k]) > 0 /\ files[k][1] = Slash
  /\ pc' = "overflow"
  /\ UNCHANGED <<files, k, i, cur, fields, walk>>

Prefix == SubSeq(files[k], 1, i + 1)
Component == files[k][i + 1]

AddsTo ==
  /\ pc = "add" /\ k <= Len(files) /\ i < Len(files[k])
  /\ files[k][1] # Slash
  /\ i' = i + 1

AddUp ==
  /\ AddsTo /\ Component = Up
  /\ UNCHANGED <<files, k, cur, fields, pc, walk>>

\* The child with the name, if it is the node of this very path.
\* Mutant: the path is not compared.
FoundByName(n, x, p) == IF named[n][x] # Nil THEN {named[n][x]} ELSE {}

Found(n, x, p) == {c \in {named[n][x]} : c # Nil /\ path[c] = p}

AddExisting ==
  /\ AddsTo /\ Component \in Names
  /\ cur' \in Found(cur, Component, Prefix)
  /\ UNCHANGED <<files, k, fields, pc, walk>>

\* Mutant: the keyed part is not written.
InsertUnnamed(p, c) ==
  /\ kids' = [kids EXCEPT ![p] = Append(@, c)]
  /\ named' = named
  /\ parent' = [parent EXCEPT ![c] = p]

\* Mutant: a node that is inserted again keeps its first parent.
InsertKeepsParent(p, c) ==
  /\ kids' = [kids EXCEPT ![p] = Append(@, c)]
  /\ named' = [named EXCEPT ![p][name'[c]] = c]
  /\ parent' = [parent EXCEPT ![c] = IF @ = Nil THEN p ELSE @]

insert(p, c) ==
  /\ kids' = [kids EXCEPT ![p] = Append(@, c)]
  /\ named' = [named EXCEPT ![p][name'[c]] = c]
  /\ parent' = [parent EXCEPT ![c] = p]

AddNew ==
  /\ AddsTo /\ Component \in Names
  /\ Found(cur, Component, Prefix) = {} /\ size < MaxNodes
  /\ size' = size + 1 /\ cur' = size + 1
  /\ name' = [name EXCEPT ![size + 1] = Component]
  /\ path' = [path EXCEPT ![size + 1] = Prefix]
  /\ insert(cur, size + 1)
  /\ UNCHANGED <<files, k, cfg, pc, walk>>

\* buildsourcetree: node.cfg = fcfg, whatever file the node had before.
FileAdded ==
  /\ pc = "add" /\ k <= Len(files) /\ i = Len(files[k])
  /\ cfg' = [cfg EXCEPT ![cur] = k]
  /\ k' = k + 1 /\ i' = 0 /\ cur' = Root
  /\ UNCHANGED <<files, name, path, parent, kids, named, size, pc, walk>>

AllAdded ==
  /\ pc = "add" /\ k > Len(files)
  /\ pc' = "start"
  /\ UNCHANGED <<files, k, i, cur, fields, walk>>

-----------------------------------------------------------------------------
(* Traversals.                                                             *)

Top == frames[Len(frames)]
Rest == SubSeq(frames, 1, Len(frames) - 1)
Current == kids[Top.node][Top.i]

\* table.sort by name: nodes of one name come out in any order.
Arrangements(s) ==
  {t \in [DOMAIN s -> {s[x] : x \in DOMAIN s}] :
     /\ \A x, y \in DOMAIN s : t[x] = t[y] => x = y
     /\ \A x, y \in DOMAIN s : x < y => Rank[name[t[x]]] <= Rank[name[t[y]]]}

\* The callback onnode: tree.sort sorts the children, the others leave them.
Onnode(n) ==
  /\ visits' = [visits EXCEPT ![n] = @ + 1]
  /\ IF pass = "sort" THEN \E t \in Arrangements(kids[n]) : kids' = [kids EXCEPT ![n] = t]
                      ELSE kids' = kids
  /\ UNCHANGED <<name, path, cfg, parent, named, size>>

\* dochildren goes on behind a node, unless the node has gone.
\* Mutant: it always goes on.
AdvanceAlways(fs, n) == [fs EXCEPT ![Len(fs)].i = @ + 1]

Advance(fs, n) ==
  LET f == fs[Len(fs)]
  IN IF f.i <= Len(kids[f.node]) /\ kids[f.node][f.i] = n
     THEN [fs EXCEPT ![Len(fs)].i = @ + 1]
     ELSE fs

NextPass(done) ==
  IF done = "sort" THEN "localize" ELSE "list"

\* The root is included in the first traversal and in the last.
StartPass ==
  /\ pc = "start"
  /\ IF pass = "localize"
     THEN visits' = [n \in Nodes |-> 0] /\ UNCHANGED fields
     ELSE /\ visits' = [n \in Nodes |-> IF n = Root THEN 1 ELSE 0]
          /\ IF pass = "sort"
             THEN \E t \in Arrangements(kids[Root]) : kids' = [kids EXCEPT ![Root] = t]
             ELSE kids' = kids
          /\ UNCHANGED <<name, path, cfg, parent, named, size>>
  /\ frames' = <<[node |-> Root, i |-> 1]>>
  /\ pc' = "walk"
  /\ UNCHANGED <<files, k, i, cur, pass, j>>

HasNext == pc = "walk" /\ Len(frames) > 0 /\ Top.i <= Len(kids[Top.node])

VisitLeaf ==
  /\ HasNext /\ Len(kids[Current]) = 0
  /\ Onnode(Current)
  /\ frames' = Advance(frames, Current)
  /\ UNCHANGED <<files, k, i, cur, pc, pass, j>>

Localized(n) == pass = "localize" /\ name[n] \in Lproj

VisitBranch ==
  /\ HasNext /\ Len(kids[Current]) > 0
  /\ Onnode(Current)
  /\ frames' = Append(frames, [node |-> Current, i |-> 1])
  /\ IF Localized(Current) THEN pc' = "regroup" /\ j' = 1 ELSE UNCHANGED <<pc, j>>
  /\ UNCHANGED <<files, k, i, cur, pass>>

Return ==
  /\ pc = "walk" /\ Len(frames) > 1 /\ Top.i > Len(kids[Top.node])
  /\ frames' = Advance(Rest, Top.node)
  /\ UNCHANGED <<files, k, i, cur, fields, pc, pass, j, visits>>

EndPass ==
  /\ pc = "walk" /\ Len(frames) = 1 /\ Top.i > Len(kids[Top.node])
  /\ frames' = << >>
  /\ IF pass = "list" THEN pc' = "done" /\ pass' = pass
                      ELSE pc' = "start" /\ pass' = NextPass(pass)
  /\ UNCHANGED <<files, k, i, cur, fields, j, visits>>

-----------------------------------------------------------------------------
(* The Xcode generator's onbranch: English.lproj/Main.xib becomes          *)
(* Main.xib/English.                                                       *)

Moved == kids[Top.node][j]
Group == named[parent[Top.node]][name[Moved]]
Regroups == pc = "regroup" /\ j <= Len(kids[Top.node]) /\ j' = j + 1

RegroupInto ==
  /\ Regroups /\ Group # Nil
  /\ name' = [name EXCEPT ![Moved] = Lang[name[Top.node]]]
  /\ insert(Group, Moved)
  /\ UNCHANGED <<files, k, i, cur, path, cfg, size, pc, pass, frames, visits>>

RegroupNew ==
  /\ Regroups /\ Group = Nil /\ size < MaxNodes
  /\ LET g == size + 1
         lang == Lang[name[Top.node]]
     IN /\ size' = g
        /\ name' = [name EXCEPT ![g] = name[Moved], ![Moved] = lang]
        /\ kids' = [kids EXCEPT ![parent[Top.node]] = Append(@, g), ![g] = <<Moved>>]
        /\ named' = [named EXCEPT ![parent[Top.node]][name[Moved]] = g, ![g][lang] = Moved]
        /\ parent' = [parent EXCEPT ![g] = parent[Top.node], ![Moved] = g]
  /\ UNCHANGED <<files, k, i, cur, path, cfg, pc, pass, frames, visits>>

\* A list without one of its elements.
Without(s, n) ==
  LET m == CHOOSE m \in DOMAIN s : s[m] = n
  IN [x \in 1 .. Len(s) - 1 |-> s[IF x < m THEN x ELSE x + 1]]

remove(n) == kids' = [kids EXCEPT ![parent[n]] = Without(@, n), ![n] = << >>]

RegroupDone ==
  /\ pc = "regroup" /\ j > Len(kids[Top.node])
  /\ remove(Top.node)
  /\ pc' = "walk"
  /\ UNCHANGED <<files, k, i, cur, name, path, cfg, parent, named, size, walk>>

-----------------------------------------------------------------------------

Next ==
  \/ AddAbsolute \/ AddUp \/ AddExisting \/ AddNew \/ FileAdded \/ AllAdded
  \/ StartPass \/ VisitLeaf \/ VisitBranch \/ Return \/ EndPass
  \/ RegroupInto \/ RegroupNew \/ RegroupDone

Spec == Init /\ [][Next]_vars

-----------------------------------------------------------------------------
(* Properties                                                              *)

\* The directory whose files are being regrouped: they hang in two lists.
Dissolving == IF pc = "regroup" THEN {Top.node} ELSE {}

Hangs(n, p) == \E x \in DOMAIN kids[p] : kids[p][x] = n

\* insert, remove and the sorting of children by the traversals: whatever they
\* do while a traversal runs, a node is in one list only, that of its parent,
\* and once.
TreeShape ==
  /\ \A p \in Nodes : \A x, y \in DOMAIN kids[p] : kids[p][x] = kids[p][y] => x = y
  /\ \A p \in Nodes \ Dissolving : \A x \in DOMAIN kids[p] : parent[kids[p][x]] = p

\* tree.add: "make sure they have the same path to prevent conflicts". A path
\* has a second node under the same parent only if a node of the same name and
\* another path came between the two.
SplitOnlyByNamesakes ==
  pc = "add" =>
    \A m, n \in 2 .. size :
      m < n /\ path[m] = path[n] /\ parent[m] = parent[n] =>
        \E o \in m + 1 .. n - 1 :
          parent[o] = parent[m] /\ name[o] = name[m] /\ path[o] # path[m]

\* The names from the root to a node, and the nodes that hang in the tree.
Trail[n \in Nodes] ==
  IF parent[n] = Nil THEN << >> ELSE Append(Trail[parent[n]], name[n])

InTree[n \in Nodes] ==
  n = Root \/ (parent[n] # Nil /\ Hangs(n, parent[n]) /\ InTree[parent[n]])

\* Where a file is to be shown: below its directories, ".." left out, and a
\* localized file as the language below the name.
Shown(p) == Filter(p, Names)

LprojDirs(names) == {x \in 1 .. Len(names) - 1 : names[x] \in Lproj}

Swapped(names, d) ==
  [x \in 1 .. Len(names) |->
     IF x = d THEN names[d + 1] ELSE IF x = d + 1 THEN Lang[names[d]] ELSE names[x]]

ByLanguage(names) ==
  IF LprojDirs(names) = {} THEN names
  ELSE Swapped(names, CHOOSE d \in LprojDirs(names) : TRUE)

Display(p) == ByLanguage(Shown(p))

IsPrefixOf(p, q) == Len(p) < Len(q) /\ SubSeq(q, 1, Len(p)) = p

\* A file gives way to a later one of the same virtual path, and to a file that
\* is shown below it.
Shadowed(f) ==
  \E g \in DOMAIN files :
    \/ g > f /\ files[g] = files[f]
    \/ IsPrefixOf(Display(files[f]), Display(files[g]))

\* buildsourcetree and the regrouping: every other file is one leaf of the tree
\* that the generator writes, in its place.
FilesShown ==
  pc = "done" =>
    \A f \in DOMAIN files : ~Shadowed(f) =>
      \E n \in Nodes :
        /\ {m \in Nodes : cfg[m] = f /\ InTree[m]} = {n}
        /\ kids[n] = << >>
        /\ Trail[n] = Display(files[f])

\* What was in an .lproj directory may have moved into a group that the
\* traversal had been at before.
Relocated(n) == pc = "start" /\ pass = "list" /\ \E x \in DOMAIN path[n] : path[n][x] \in Lproj

\* tree.traverse: "this goofy iterator allows nodes to be removed during the
\* traversal". No traversal calls back twice for a node, nor misses one that is
\* in the tree and was not moved by it.
VisitedOnce ==
  /\ \A n \in Nodes : visits[n] <= 1
  /\ pc = "done" \/ (pc = "start" /\ pass # "sort") =>
       \A n \in 2 .. size : ~Relocated(n) => (InTree[n] => visits[n] = 1)
  /\ pc = "done" => \A n \in 2 .. size : visits[n] = 1 => InTree[n]
=============================================================================
