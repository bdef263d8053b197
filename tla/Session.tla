------------------------------ MODULE Session ------------------------------
(***************************************************************************)
(* The script-facing half of premake: the global functions of              *)
(* src/base/api.lua (solution, project, usage, configuration and the       *)
(* generated field setters) and the solution list of src/base/solution.lua.*)
(* A premake script is an arbitrary sequence of calls of these functions;  *)
(* every call acts on premake.CurrentContainer and                         *)
(* premake.CurrentConfiguration, the two globals that make the order of    *)
(* calls significant.                                                      *)
(*                                                                         *)
(* A solution is identified by its name (premake.solution.list is keyed by *)
(* it), a project by its position in sln.projects, a container by          *)
(* <<solution, position>> with position 0 for the solution itself, and a   *)
(* configuration block by its container and its position in .blocks.       *)
(***************************************************************************)
EXTENDS Naturals, Sequences

CONSTANTS
  Solutions,     \* names a script may give to solution()
  Names,         \* names a script may give to project() and usage()
  Terms,         \* block terms; EmptyTerms stands for { }
  EmptyTerms,
  BadTerms,      \* the terms that hold a value that is not a string
  Fields,        \* the names in premake.fields
  FieldKind,     \* premake.fields[f].kind: "string", "list", "filelist", "keyvalue"
                 \* (path is like string, dirlist like filelist, keypath like keyvalue)
  FieldScope,    \* premake.fields[f].scope: "config", "container", "solution"
  Words,         \* the values a script writes
  ListArgs,      \* the lists of values a script writes
  Canonical,     \* premake.fields[f].allowed: from the words of each field
                 \* that are accepted to the spelling that is stored
  Expand,        \* from the lists of strings a script writes to the absolute
                 \* paths they stand for, wildcards matched against the disk
  Nil,           \* Lua's nil
  MaxProjects,   \* bound: projects per solution
  MaxBlocks,     \* bound: blocks per container
  MaxCalls       \* bound: calls in a script

ASSUME BoundAssumption ==
  /\ MaxProjects \in Nat /\ MaxBlocks \in Nat /\ MaxCalls \in Nat

ASSUME NilAssumption ==
  /\ Nil \notin Solutions \X (0 .. MaxProjects)
  /\ Nil \notin Solutions \X (0 .. MaxProjects) \X Nat
  /\ EmptyTerms \in Terms \ BadTerms

ASSUME FieldAssumption ==
  /\ FieldKind \in [Fields -> {"string", "list", "filelist", "keyvalue"}]
  /\ FieldScope \in [Fields -> {"config", "container", "solution"}]
  /\ ListArgs \subseteq Seq(Words)
  /\ DOMAIN Expand \subseteq ListArgs
  /\ \A ws \in DOMAIN Expand : Expand[ws] \in Seq(Words)
  /\ DOMAIN Canonical = Fields
  /\ \A f \in Fields : /\ DOMAIN Canonical[f] \subseteq Words
                       /\ \A w \in DOMAIN Canonical[f] : Canonical[f][w] \in Words

VARIABLES
  list,       \* premake.solution.list, the array part
  projects,   \* sln.projects, the array part
  slot,       \* sln.projects, the part keyed by name; 0 is nil
  blocks,     \* container.blocks: the terms of each block
  store,      \* the fields of containers (block 0) and of their blocks
  container,  \* premake.CurrentContainer
  config,     \* premake.CurrentConfiguration
  status,     \* "ok", or how the last call failed
  calls       \* how many calls the script has made

vars == <<list, projects, slot, blocks, store, container, config, status, calls>>

Containers == Solutions \X (0 .. MaxProjects)

Objects == Solutions \X (0 .. MaxProjects) \X (0 .. MaxBlocks)

Project == [name : Names, usage : BOOLEAN, usageProj : 0 .. MaxProjects]

TypeOK ==
  /\ list \in Seq(Solutions)
  /\ projects \in [Solutions -> Seq(Project)]
  /\ slot \in [Solutions -> [Names -> 0 .. MaxProjects]]
  /\ blocks \in [Containers -> Seq(Terms)]
  /\ store \in [Objects -> [Fields -> Seq(Words)]]
  /\ container \in Containers \cup {Nil}
  /\ config \in Objects \cup {Nil}
  /\ status \in {"ok", "error", "nilcall"}
  /\ calls \in Nat

Init ==
  /\ list = << >>
  /\ projects = [s \in Solutions |-> << >>]
  /\ slot = [s \in Solutions |-> [n \in Names |-> 0]]
  /\ blocks = [c \in Containers |-> << >>]
  /\ store = [o \in Objects |-> [f \in Fields |-> << >>]]
  /\ container = Nil
  /\ config = Nil
  /\ status = "ok"
  /\ calls = 0

-----------------------------------------------------------------------------
(* Lookups *)

ContainerOf(o) == <<o[1], o[2]>>

\* Mutant: the solution scope always means the first solution of the session.
getobjectFirstSolution(t) ==
  IF t = "config" THEN config
  ELSE IF container = Nil THEN Nil
  ELSE IF t = "solution" THEN <<list[1], 0, 0>>
  ELSE <<container[1], container[2], 0>>

\* premake.getobject: the object a field of the given scope is stored in.
getobject(t) ==
  IF t = "config" THEN config
  ELSE IF container = Nil THEN Nil
  ELSE IF t = "solution" THEN <<container[1], 0, 0>>
  ELSE <<container[1], container[2], 0>>

\* The solution that project() and usage() create the project in.
ParentSolution == IF container = Nil THEN Nil ELSE container[1]

\* The script makes its next call.
Call ==
  /\ status = "ok"
  /\ calls < MaxCalls
  /\ calls' = calls + 1

\* error(): the call is abandoned, with whatever was done so far in place.
Raise(kind) ==
  /\ status' = kind
  /\ UNCHANGED <<list, projects, slot, blocks, store, container, config>>

-----------------------------------------------------------------------------
(* Constructors *)

\* The block that configuration() appends to container c.
NewBlock(c) == <<c[1], c[2], Len(blocks[c]) + 1>>

\* configuration(terms) in container c: a new block, which becomes current.
OpenBlock(c, t) ==
  /\ Len(blocks[c]) < MaxBlocks
  /\ blocks' = [blocks EXCEPT ![c] = Append(@, t)]
  /\ config' = NewBlock(c)

\* configuration(terms): the keywords are made from the terms once the block
\* is open, and path.wildcards() refuses a term that is not a string.
Configuration(t) ==
  /\ Call
  /\ IF container = Nil
       THEN Raise("error")
       ELSE /\ OpenBlock(container, t)
            /\ status' = IF t \in BadTerms THEN "error" ELSE "ok"
            /\ UNCHANGED <<list, projects, slot, store, container>>

\* premake.solution.get(name)
Listed(s) == \E i \in 1 .. Len(list) : list[i] = s

\* premake.solution.new(name): a solution without projects, blocks or
\* configurations joins the list.
NewSolution(s) == Append(list, s)

\* solution(name): the solution of that name, new or not, becomes current.
Solution(s) ==
  /\ Call
  /\ list' = IF Listed(s) THEN list ELSE NewSolution(s)
  /\ container' = <<s, 0>>
  /\ OpenBlock(<<s, 0>>, EmptyTerms)
  /\ UNCHANGED <<projects, slot, store, status>>

\* Mutant: a new project always takes the slot of its name.
TakesSlotAlways(isUsage, cur) == TRUE

\* A new usage project does not displace the project that holds the slot.
TakesSlot(isUsage, cur) == ~isUsage \/ cur = 0

\* createproject(name, sln, isUsage): appended to the list, then entered in the
\* slot of its name, or attached to the project that already holds the slot.
createproject(n, s, isUsage) ==
  LET i   == Len(projects[s]) + 1
      cur == slot[s][n]
      prj == [name |-> n, usage |-> isUsage,
              usageProj |-> IF isUsage THEN 0 ELSE cur]
      new == Append(projects[s], prj)
  IN /\ i <= MaxProjects
     /\ projects' = [projects EXCEPT ![s] =
                       IF TakesSlot(isUsage, cur)
                         THEN new
                         ELSE [new EXCEPT ![cur] = [@ EXCEPT !.usageProj = i]]]
     /\ slot' = [slot EXCEPT ![s] =
                   IF TakesSlot(isUsage, cur) THEN [@ EXCEPT ![n] = i] ELSE @]
     /\ container' = <<s, i>>
     /\ OpenBlock(<<s, i>>, EmptyTerms)
     /\ UNCHANGED <<list, store, status>>

\* Make an existing project current again, with a fresh empty block.
Reopen(s, i) ==
  /\ container' = <<s, i>>
  /\ OpenBlock(<<s, i>>, EmptyTerms)
  /\ UNCHANGED <<list, projects, slot, store, status>>

\* project() creates unless a regular project already holds the slot.
NeedsProject(s, n) == slot[s][n] = 0 \/ projects[s][slot[s][n]].usage

project(n) ==
  LET s == ParentSolution IN
  /\ Call
  /\ IF s = Nil THEN Raise("error")
     ELSE IF NeedsProject(s, n)
            THEN createproject(n, s, FALSE)
            ELSE Reopen(s, slot[s][n])

\* usage() creates unless the slot is a usage project or already has one.
NeedsUsage(s, n) ==
  \/ slot[s][n] = 0
  \/ /\ ~projects[s][slot[s][n]].usage
     /\ projects[s][slot[s][n]].usageProj = 0

\* The branch that should select the existing usage calls the global iff,
\* which is not defined anywhere: the call of a nil value stops the script.
usage(n) ==
  LET s == ParentSolution IN
  /\ Call
  /\ IF s = Nil THEN Raise("error")
     ELSE IF NeedsUsage(s, n)
            THEN createproject(n, s, TRUE)
            ELSE Raise("nilcall")

-----------------------------------------------------------------------------
(* Setters: accessor() dispatches on the field's kind *)

\* premake.checkvalue: whether a word is allowed, and what is stored for it.
Accepted(f, w) == w \in DOMAIN Canonical[f]

Stored(f, w) == Canonical[f][w]

Set(o, f, value, st) ==
  /\ store' = [store EXCEPT ![o][f] = value]
  /\ status' = st
  /\ UNCHANGED <<list, projects, slot, blocks, container, config>>

\* premake.setstring: the last value wins; a refused value changes nothing.
setstring(f, w) ==
  LET o == getobject(FieldScope[f]) IN
  /\ Call /\ FieldKind[f] = "string"
  /\ IF o = Nil \/ ~Accepted(f, w)
       THEN Raise("error")
       ELSE Set(o, f, <<Stored(f, w)>>, "ok")

\* premake.setarray with the values ws: they are checked and inserted one by
\* one, so a refused value leaves the ones before it in the field.
setarray(f, ws) ==
  LET o == getobject(FieldScope[f]) IN
  /\ Call /\ FieldKind[f] = "list"
  /\ IF o = Nil
       THEN Raise("error")
       ELSE \E m \in 0 .. Len(ws) :
              /\ \A j \in 1 .. m : Accepted(f, ws[j])
              /\ m < Len(ws) => ~Accepted(f, ws[m + 1])
              /\ Set(o, f, store[o][f] \o [j \in 1 .. m |-> Stored(f, ws[j])],
                     IF m = Len(ws) THEN "ok" ELSE "error")

\* Mutant: the paths in front of one that is not a string are stored.
setfilearrayPartly(f, ws) ==
  LET o == getobject(FieldScope[f]) IN
  /\ Call /\ FieldKind[f] = "filelist"
  /\ IF o = Nil
       THEN Raise("error")
       ELSE IF ws \in DOMAIN Expand
              THEN Set(o, f, store[o][f] \o Expand[ws], "ok")
              ELSE Set(o, f, store[o][f] \o SubSeq(ws, 1, 1), "error")

\* premake.setfilearray and setdirarray: all values are made absolute before
\* the first one is inserted, so a value that is no string changes nothing.
setfilearray(f, ws) ==
  LET o == getobject(FieldScope[f]) IN
  /\ Call /\ FieldKind[f] = "filelist"
  /\ IF o = Nil \/ ws \notin DOMAIN Expand
       THEN Raise("error")
       ELSE Set(o, f, store[o][f] \o Expand[ws], "ok")

\* premake.setkeyvalue for one key of the table (the keys are independent):
\* the values are inserted without a check. Anything but a table is refused.
setkeyvalue(f, ws, istable) ==
  LET o == getobject(FieldScope[f]) IN
  /\ Call /\ FieldKind[f] = "keyvalue"
  /\ IF o = Nil \/ ~istable
       THEN Raise("error")
       ELSE Set(o, f, store[o][f] \o ws, "ok")

-----------------------------------------------------------------------------
\* The failing call stood in a pcall: the script goes on with what it left.
Caught ==
  /\ status # "ok"
  /\ status' = "ok"
  /\ UNCHANGED <<list, projects, slot, blocks, store, container, config, calls>>

Next ==
  \/ \E s \in Solutions : Solution(s)
  \/ \E n \in Names : project(n)
  \/ \E n \in Names : usage(n)
  \/ \E t \in Terms : Configuration(t)
  \/ \E f \in Fields, w \in Words : setstring(f, w)
  \/ \E f \in Fields, ws \in ListArgs : setarray(f, ws)
  \/ \E f \in Fields, ws \in ListArgs : setfilearray(f, ws)
  \/ \E f \in Fields, ws \in ListArgs, istable \in BOOLEAN : setkeyvalue(f, ws, istable)
  \/ Caught

Spec == Init /\ [][Next]_vars

-----------------------------------------------------------------------------
(* Properties *)

\* project()/usage(): a name has at most one regular and one usage project
\* in a solution, however the calls that create them are ordered.
OneOfEachKind ==
  \A s \in Solutions : \A i, j \in 1 .. Len(projects[s]) :
    /\ projects[s][i].name = projects[s][j].name
    /\ projects[s][i].usage = projects[s][j].usage
    => i = j

SlotTable(prjs, names) ==
  /\ \A n \in Names : names[n] # 0 =>
       /\ names[n] \in 1 .. Len(prjs)
       /\ prjs[names[n]].name = n
  /\ \A i \in 1 .. Len(prjs) :
       LET p   == prjs[i]
           cur == names[p.name]
       IN /\ cur # 0
          /\ \/ cur = i
             \/ /\ p.usage
                /\ ~prjs[cur].usage
                /\ prjs[cur].usageProj = i
          /\ p.usageProj # 0 =>
               /\ ~p.usage
               /\ p.usageProj \in 1 .. Len(prjs)
               /\ prjs[p.usageProj].usage
               /\ prjs[p.usageProj].name = p.name

\* createproject(): no project is lost: each one is found through the slot of
\* its name or as the usageProj of the regular project in that slot, and a
\* slot holds a usage project only while no regular project has the name.
SlotConsistent == \A s \in Solutions : SlotTable(projects[s], slot[s])

\* The current configuration is the last block of the current container, so
\* config-scoped values can only land in the block opened last; the current
\* container exists in the list it belongs to.
CurrentIsLast ==
  /\ (container = Nil) <=> (config = Nil)
  /\ container # Nil =>
       /\ config = <<container[1], container[2], Len(blocks[container])>>
       /\ Len(blocks[container]) > 0
       /\ container[2] <= Len(projects[container[1]])
       /\ \E i \in 1 .. Len(list) : list[i] = container[1]

\* A block with unusable terms, opened in the current container and nowhere
\* else: what configuration() leaves behind when it fails.
HalfBlock ==
  /\ container # Nil
  /\ \E t \in BadTerms : blocks' = [blocks EXCEPT ![container] = Append(@, t)]
  /\ config' = NewBlock(container)
  /\ UNCHANGED store

\* What a call that raises an error leaves alone.
FailureFrame ==
  status' # "ok" =>
    /\ UNCHANGED <<list, projects, slot, container>>
    /\ UNCHANGED <<blocks, config>> \/ HalfBlock
    /\ \A o \in Objects, f \in Fields : store'[o][f] # store[o][f] =>
         FieldKind[f] = "list" /\ o = getobject(FieldScope[f])

\* A call that raises an error leaves the session as it was, with two
\* exceptions: a list field may have taken the values in front of the refused
\* one (setarray's doinsert), and configuration() has opened a block and made
\* it current before it looks at its terms. A script that goes on after a
\* pcall therefore still has a current block that is the last of its container.
FailedCallsLeaveNoTrace == [][FailureFrame]_vars

Prefix(s, t) == /\ Len(s) <= Len(t)
                /\ \A j \in 1 .. Len(s) : s[j] = t[j]

\* Blocks are only appended, and only to the container that is current afterwards.
BlocksAppended ==
  \A c \in Containers : blocks'[c] # blocks[c] =>
    c = container' /\ Prefix(blocks[c], blocks'[c])

\* Fields change only in the current block, container or solution.
StoreFrame ==
  \A o \in Objects : store'[o] # store[o] =>
    o \in {config, <<container[1], container[2], 0>>, <<container[1], 0, 0>>}

\* No call rewrites what the script said before: configuration() and the
\* constructors only append blocks, the setters reach current objects only.
OnlyCurrentChanges == [][BlocksAppended /\ StoreFrame]_vars

\* A usage call inside a solution makes the usage project of that name the
\* current container, new or not ("if this is a new project, or the project in
\* that slot doesn't have a usage, create it", else select it).
UsageSelected ==
  [][\A n \in Names : usage(n) /\ ParentSolution # Nil =>
       /\ container'[2] # 0
       /\ projects'[container'[1]][container'[2]].name = n
       /\ projects'[container'[1]][container'[2]].usage
    ]_vars
=============================================================================
