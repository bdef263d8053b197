# A TLA+ model of premake

This directory holds TLA+ modules for premake 4.x as this repository has it: how a
script builds a session of solutions and projects, how that session is "baked" into
one flat set of settings per configuration and platform, how the source tree is built
from it, how a run gets from the command line to its action, how its modules find each
other, and how a Lua interpreter executes all of this. TLC checks the modules on small
instances; TLAPS proves the main invariants of seven of them for every value of the
constants. `PROJECT.json` relates definitions to source lines, properties to hazards,
and lists the runs.

    tlc -workers 2 -config MCSession.cfg MCSession      # model-check one run
    tlapm SessionProofs.tla                             # check one module's proofs

## 1. Inventory

The program is premake4 "in pure lua" (`README.md:1` of the repository).
`puremake.sh` sets `LUA_PATH` to the directory `lua/` and starts `luajit`, `lua` or
`gamecake` on `src/host/main.lua`, which reads the arguments, loads the scripts of
`_manifest.lua` and calls `_premake_main`. `build.sh` makes a single file of the same
sources (`puremake`). All of the program is Lua: a script calls global functions
that fill tables (`src/base`), the tables are baked, and one action turns them into
files. `src/host/path.lua` and `src/host/os.lua`, which the manifest loads, replace
`path` and the functions of `os` by `lua/puremake/path.lua` (over
`lua/wetgenes/path.lua`) and `lua/puremake/os.lua` (over lfs, which `lfs_any.lua`
chooses). Below it is the interpreter. The repository has the sources of Lua 5.1.4
(`old/src/host/lua-5.1.4`), the language of `lua`, and the models of the interpreter are
made from these; LuaJIT, which runs the same language, is not in it. The host in
C beside them (`old/src/host/*.c`) belonged to the original premake4; nothing runs it
any more.

The program leans on what is least obvious in the interpreter: `pairs` over
tables that change, lists used as maps, `#` after deletions, errors that unwind nested
`dofile`, `require` in circles, patterns.

Premake has one thread, no messages and no persistent state, so nothing is said
about lost messages or recovery. It does have two interleavings: the collector
runs in steps between those of the program, and directory listings stay open while
a walk reads further directories. What else makes it hard: *the order of calls*
(a script is any sequence of calls on two global "current object" variables),
*aliasing* (tables are copied by reference and overwritten later), *the
unspecified order of* `pairs`, *graph searches* over what scripts declare,
*structures changed while they are traversed*, *phases* that must not use what a
later phase still changes, and *limits* of a one-pass compiler and its machine.

| Component | State | Operations | Correct when | Modules |
| --- | --- | --- | --- | --- |
| Script API (`base/api.lua`, `solution.lua`) | solution list, projects and name slots, blocks, field values, `CurrentContainer`, `CurrentConfiguration` | `solution`, `project`, `usage`, `configuration`, the setters | no project is lost; a value lands in the block opened last; failed calls leave no trace | `Session` |
| Keyword filter (`base/bake.lua`) | none | `iskeywordmatch`, `iskeywordsmatch` | a block applies exactly where its keywords match | `Keywords` |
| Collapse (`base/bake.lua`) | the result tables, the terms tables shared with blocks | `merge`, `collapse`, `postprocess` | each configuration holds exactly its matching blocks, in order | `Collapse` |
| Usage projects (`base/bake.lua`) | `dstArray`, `linkArray`, `foundList`, the configuration | `getprojrec`, `getprojectsconnections`, `copyusagedata` | the connections are the closure of uses and links; each setting is copied where it belongs, once; the search ends | `Usage`, `Connections` |
| Object directories (`base/bake.lua`) | hit counters, chosen directories | `builduniquedirs` | a directory is shared only as a last resort | `ObjDirs` |
| Source tree (`base/tree.lua`, `project.lua`, `xcode_common.lua`) | nodes, their children by index and by name, the frames of a traversal | `add`, `insert`, `remove`, `sort`, `traverse`, `buildsourcetree`, the regrouping of localized files | each file is one leaf in its place; a traversal that is disturbed skips nothing | `Tree` |
| Driver (`puremake.sh`, `lua.c`, `host/main.lua`, `_premake_main.lua`, `globals.lua`, `option.lua`, `action.lua`, `validate.lua`) | the interpreter's flags, options, arguments, working directory, `_SCRIPT`, solutions | from the words of the command line over the phases to the exit code, `dofile`, `include`, the scripts' own calls | an action sees only checked solutions; a script runs in its own directory | `Host` |
| Paths (`puremake/path.lua`, `wetgenes/path.lua`) | none | absolute, relative, join, normalize, rebase, directory | every form of a path denotes the same place | `Paths` |
| File functions (`puremake/os.lua` over lfs) | directories, files, open listings | `mkdir`, `rmdir`, `chdir`, `matchfiles` … | a walk finds every file it promises once | `Host` |
| Module loader (`loadlib.c`, `lfs_any.lua`) | `package.loaded` with its marks, the chunks under way | `require` and its four loaders | one value per module, from the first place that has it; a circle or a failure is an error and no endless recursion | `Loader` |
| Pattern matching (`lstrlib.c`) | the capture array | `find`, `match`, `gmatch`, `gsub` | the leftmost, preferred match with its captures | `LuaPattern`, `PatternMeaning` |
| Lua compiler (`llex.c`, `lparser.c`, `lcode.c`, `lopcodes.h`, `ldebug.c`) | the text and the token buffer, functions being compiled, expression descriptors, pending jumps, registers | the scanner, the whole grammar, `luaG_checkcode` | the code does what the text says and passes the verifier | `LuaLexer`, `LuaParser`, `LuaCode`, `LuaCheck`, `LuaText` |
| Lua machine (`lvm.c`, `ldo.c`, `lfunc.c`, `ltm.c`) | stacks, frames, upvalues, threads | instructions, calls, metamethods, errors, `pcall`, coroutines | as above; what an error unwinds is restored | `LuaVM`, `LuaLang` |
| Lua tables (`ltable.c`) | array part, chained nodes, absence cache, traversals | get, set, rehash, `next`, length, collection of keys | it is a finite map | `LuaTable`, `LuaMap` |
| Lua collector (`lgc.c`) | colours, gray lists, sweep position, finalizers | the steps of the collector, barriers, creation, `lua_close` | nothing reachable is freed, garbage is | `LuaHeap` |
| Targets, project queries, clean action, generators, tool tables, the other Lua libraries (the table library among them), packaging, the retired C host | none that is changed | | | not modelled, section 7 |

The parts of the Lua program interact through shared tables only: the API fills
`premake.solution.list`; `premake.bake.buildconfigs` runs collapse and
postprocess for every project, then the usage search and copy, then removes the
usage projects, then chooses object directories and targets; the generators read
the result through `premake.solution.each` and `premake.getconfig`. `Host` has
the phases around it, and hands each phase the outcome of the one before.

## 2. Modules and how they correspond to the code

**Session.** A script is any sequence of API calls; each call is one action, its early
returns and `error()` calls are the branch `Raise`. An erroring call leaves whatever
it did so far in place: `configuration` inserts its block and makes it current before
it looks at the terms (`BadTerms` are those it cannot lower). The error stops the
script (`status`) unless the script catches it and goes on (`Caught`). Projects are
identified by their position in `sln.projects`; `slot` is the same table keyed by
name. `usageProj` and the four cases of `createproject` are kept. A field is
represented by its kind and scope (`FieldKind`, `FieldScope`); `Canonical` is what
`checkvalue` accepts and returns, `Expand` what `makeabsolute` makes of a list,
wildcards included. `setarray` inserts value by value, so the model stops in the
middle of a list when a value is refused; `setfilearray` converts first and inserts
later. Calls without an argument are getters and change nothing.

**Keywords.** A keyword is a negation flag and a sequence of alternatives, an
alternative is the set of values its pattern matches. `pairs` visits the terms
in any order, so the model has the keys that may be returned (`MatchKeys`) and,
for files, the match that may and the match that must happen.

**Collapse.** Extends Keywords, and Lists (what a list contains, and the list a
filtering loop leaves). One action per step of `merge`: `StartMerge` (up
to the block loop), `MergeBlock` and `SkipBlock` (one turn of it),
`FinishMerge`; then `Postprocess` for one configuration in any order and
`NextProject`. `tab` holds the terms tables of the blocks. `cfg.terms` is a
reference into it, as in the code, where `mergeobject` copies every value that
is no API field as it is. `base`, `terms` are the tables `terms` and
`terms_local` of `collapse`: the platform merges of a configuration start from
the terms the Native merge has left. Lists carry the keyed part that
`mergefield` uses as an index, which `adjustpaths` does not rewrite. The paths
of a project's own blocks are relative when the model starts
(`buildconfigs` adjusts them first), those of the solution are absolute.
Fields of container scope are copied into every configuration without a filter
and are left out. `KeysDistinct` says that no two configurations of the script
have the same key; the key is a concatenation without separator, so the code does
not see to it.

**Connections** states what the usage search promises without searching: the
least set closed under uses, and the least set closed under links through
static libraries. **Usage** is the search of the code, with its recursion as a
set of pending projects, followed by the copy. It implements Connections with
`conn` = nothing until both searches are over. Flags stand for the fields marked
`usagecopy`, links for those marked `linkagecopy`. The configuration begins with a flag
and links of its own (`selflinks`), which stay in front; a project it links already is
listed again when the copy adds it.

**ObjDirs** has the two loops of `builduniquedirs`, one configuration per step.
Projects are visited in list order, the configurations of a project in any
order. A directory is a sequence of path components.

**Tree.** A node has a list of children (`kids`) and the keyed part of the same
Lua table (`named`), which `insert` writes, `add` overwrites and `remove` leaves
alone. `add` recurses to the front of a path and comes back; one action returns
from one call: the node exists (`AddExisting`), is made (`AddNew`), or the
component is `..` (`AddUp`). A traversal is a stack of frames, a node and an
index each; `Visit` is one turn of the loop with its callback, `Advance` the
comparison that steps on only if the node at the index is still the same. The
three traversals are those of `tree.sort`, of the regrouping in the Xcode
generator, which inserts into a group, moves leaves and dissolves `.lproj`
directories while it runs, and of a generator that lists the result.

**LuaMap** is what a table promises. **LuaTable** is `ltable.c`: sizes are powers
of two, nodes have a chain link relative to their position, `lastfree` moves
down, `rehash` counts keys by power and moves them between the parts, `next` finds
its key in either part, dead keys included. It has the metamethod lookups of
`lvm.c` with their cache, and `lapi.c`'s way to set a metatable. Hash values are
a constant, so collisions between keys of every class are chosen.

**LuaHeap** is the collector. One `singlestep` is one action, and the program
acts between any two, except in the atomic phase. The sweeps visit one object per
step in any order the lists allow. Objects are created white, interned strings
and open upvalues can be found again while condemned, stores have the barrier of
their kind. Finalizers run between steps and may store their object. Each object
has one incarnation, except strings and tables, which are made anew.

**Paths** are the path functions of `puremake/path.lua` and of the library below it on
sequences of tokens, with `Meaning` the place a path denotes. **LuaPattern** is the
matcher with the one array of captures that is filled and repaired while it
backtracks; **PatternMeaning** says, on patterns as lists of items, in how many
ways a pattern matches and which way is preferred. **Host** extends both and has one
action for each phase of a run. `pmain` and `handle_script` are `lua.c`: the words before the
script are its own options and may take `main.lua` for an operand. `Arguments` and
`LoadScripts` are `main.lua`, which takes options anywhere, the first other word as the
action and the rest as its arguments. The phases of `_premake_main` follow. What it
returns is kept in `returned`, and dropped: the chunk of `main.lua` returns it to an
interpreter that ignores it, so every return ends with exit code 0 and only an error
with 1 (`Return`, `Quit`). The project script is any sequence of calls (directories
made and removed, walks, nested `dofile` with and without `pcall`, errors).
`os.matchfiles` lists each directory twice, for the files and then for the directories,
whose names must not begin with a dot, and walks these while the listing is open. The
world (`Worlds`) fixes command line, environment, file system and the solutions a
script declares. A world that asks has one script that calls a path or a pattern
function with any argument of the constants; `answer` keeps call and result.

**Loader** is `require` (`ll_require`) with the loaders for preloaded modules, Lua files,
libraries and libraries of the root of a name, each over its templates. Before
a chunk is run its module is marked in `package.loaded`; an error leaves the
mark. A module's `Style` says what its chunk does: put its table into
`package.loaded` at once, return a value, try candidates under `pcall` (`lfs_any.lua`),
return nothing, or return false. Between its own requires any chunk may fail, and
any require may be made under `pcall`. `world` has the templates and what is found there:
a chunk, one that does not load, or a library with the modules it opens.

**LuaLexer** is the scanner, with the buffer the text of a token is collected in. A
text is a sequence of characters, but a word of letters is one character: what
words are made of matters to nothing. `TokensOf` reads the whole text in front of
the parser, which in the code asks for one token at a time; an error of the
scanner is a token that the parser raises when it gets there.

**LuaCode** and **LuaParser** are the compiler, as operators from compiler state
to compiler state that keep the C functions' names: expression descriptors with
their two jump lists, register allocation, constant folding, patched jumps,
scopes. **LuaCheck** is the verifier of
bytecode. **LuaVM** runs it: the steps of the machine are one instruction, a call
into C, the end of one, or an error on its way. **LuaLang** gives programs as
trees, with `Source` their tokens and `Meaning` what they print and return, by
structural recursion. **LuaText** says how tokens are spelled and what may stand
between them, without the scanner's way of reading them; **LuaPrograms** are the
programs with their texts. In the text of a program gaps, comments of both kinds
and three kinds of string take turns.

The `MC*` modules give the constants their values. Definitions whose comment
starts with "Mutant" are wrong variants of a definition that follows; they are
used by nothing, and replacing the right definition by the variant must break the
property `PROJECT.json` names.

## 3. Runs

| Run | Instance | Shows |
| --- | --- | --- |
| `session` | 2 solutions, 2 names, 6 fields (each kind and scope), 4 projects per solution, 3 blocks, scripts of up to 6 calls that may go on after an error; symmetric in solutions and names; 277 thousand states | name slots, current block, frame conditions of successful and failed calls |
| `session_usage_reopen` | the same, 4 calls | violation: `usage()` does not select an existing usage project |
| `collapse` | 2 projects, 2 configurations, 2 platforms, 156 scripts; 44 thousand states | exactly the matching blocks are merged, list order, file settings, excludes |
| `collapse_kind` | the script of `tests/base/test_config_bug.lua` | violation: a block filtered by kind is missed by the second configuration of that kind |
| `usage` | 5 names, a library, 8748 graphs with chains, cycles, edges back and links of the configuration's own; 371 thousand states | refinement of Connections; flags and links are what the configuration had and what belongs to it, each copied once; termination |
| `objdirs` | 3 projects in 2 solutions, 9 configurations, 216 settings; 10 thousand states | each gets the first candidate nobody else has |
| `tree` | 1463 projects of up to 3 files out of 11 paths; 74 thousand states | one list per node, nodes split only by namesakes, files listed once and in place, disturbed traversals |
| `tables` | 7 keys (integers, strings, an object) with colliding hashes, sizes up to 2^3, 5 operations; 415 thousand states | refinement of LuaMap, chains, borders, the absence cache |
| `heap` | 5 heaps of 5 to 6 objects out of 11, 2 operations of the program per history; 845 thousand states | safety and completeness of the collector, finalizers, termination of a full collection |
| `host` | 87 worlds: 9 command lines with and without a script and an environment, 6 ways to write the interpreter's own options, 4 places of `main.lua`, 4 sets of solutions; 3 calls, scripts 3 deep; 127 paths (every form of up to four parts) with each other, 208 patterns on 7 subjects; 257 thousand states | directories of scripts, what reaches an action and what exit code 0 means; path, walk and pattern functions against their meaning |
| `loader` | 8 modules, two in a circle, 6 worlds (templates, preloaded modules, libraries, broken ones), 5 requires; 217 thousand states | one value and one run per module, unfinished modules, the first place |
| `machine` | 1842 programs with small limits (6 locals, 12 registers, 3 upvalues, 16 C calls …), 727 of them about the spelling of strings, comments and numbers; 17 thousand states | programs are read, compiled and run as the language says; verifier and assertions, open upvalues, C calls |

Why the bounds are enough. *session:* six calls can create a solution, a usage
and a regular project of one name in either order, reopen both containers and set
fields in between, which exercises every branch of every call, and the invariants
are proved without the bounds. When `MaxProjects`, `MaxBlocks` or `MaxCalls` is
reached the call is not taken. *collapse:* the interesting case needs three blocks
(one that sets a kind, one that another configuration merged before, one filtered
by kind), two configurations and a platform after Native. *usage:* five names give
every shape of overlap of the two searches: a project reached by both, a static
and a non-static link in a chain, circles through each. *objdirs:* two solutions
with a common project name and location reach the last candidate, and an
`objdir` that spells out another configuration's directory reaches every earlier
one. *tree:* a directory of one name at two depths, added alternately, needs three
files; so do two localizations of one file beside a third. `MaxNodes` is larger
than three files need. *tables:*
five stores fill a hash part of four, rehash it and move integer keys to the array
part; `MAXBITS` 3 bounds both parts, and `MAX_INT` caps the search for a border.
The `t.full` conjunct of `KeysPlaced` says that the bound is no escape. *heap:* the
collector runs through whole cycles; `MaxOps` 2 allows a store before and one after
an object was traversed, or a finalizer call and a store. *host:* three calls are
two nested scripts and an error, or a directory made, entered and a script run in it.
*loader:* five requires are the circle, a failure in it, and a second require of the
module that failed. *machine:* every limit
is reached by one program and kept by its neighbour; the programs cover every
production, every kind of condition in both polarities, every way out of a call.
Strings and comments are every body of up to two characters out of seven (a letter,
a digit, a newline, both brackets, `=`, a backslash), in every spelling it has; two
characters make each delimiter that a body could be confused with.

Fairness. `usage` has `WF_vars(Next)`: the search has no waiting in it, and
this says only that the interpreter goes on executing the program. `heap` has weak
fairness of `singlestep` while a full collection or the atomic phase runs, where
the code is a loop that does nothing else; nothing is assumed of incremental
steps, whose number depends on allocation. All other specifications have none:
a script may end anywhere, and no order is assumed of `pairs`.

Deadlock is checked in `tables`. In the others a script, a program or a phase
ends.

## 4. What is proved

The theorems hold for every value of the constants that satisfies the named
assumptions of the modules; none uses a bound.

*SessionProofs.* `TypeCorrect`: types and `SlotConsistent`. Neither is inductive
alone: `createproject` writes `usageProj` through a slot, and the slot's contents are
meaningful only when it points into the list, so both are carried together.
`ProjectsUnique` derives that no solution lists two projects of one name and kind:
both would have to be the slot or the usage project of the slot. `CurrentCorrect`
proves from the type invariant that the current configuration is the last block of the
current container (`CurrentIsLast`, which no run checks). `HistoryKept` and
`FailuresKeepState` prove the action properties `OnlyCurrentChanges` and
`FailedCallsLeaveNoTrace`, call by call, from both invariants. The latter names the
two traces a failed call may leave: the values of a list before the one that is
refused, and the block `configuration` opens before it fails on a term (`HalfBlock`).
Assumed: `Nil` is not an object, the field tables are well formed.

*UsageProofs.* `SearchInvariant`: everything found lies in every closed set (so
nothing is found that need not be), and whatever was found and is no longer
pending has all its successors among the found (so nothing is missed). The
closed set is quantified inside the invariant, which avoids induction over
paths. `SearchImplementsConnections`: with it, the step that ends the second
search is a `Connect` step of Connections and all others stutter. `CopyInvariant`
says what the configuration has after the entries that the copy has visited, in
whatever order: flags, its own and those of the visited that are not linkage only
(`FlagsSoFar`); links, its own in front and behind them a project of the solution in
one place if it was visited and in none before, a library exactly if a visited pure
usage project links it (`LinksSoFar`). That a project is in one place needs that the
names `copydependentfield` copies are no projects' names, and that the two arrays were
merged before the loop. `LinkageExact` proves `LinkageCopied` from it.

*ObjDirsProofs.* `CountInv` says what the counters mean while they are being
filled: at least one for a counted candidate, at least two when two counted
candidates agree, and exactly the count of its own configuration for a directory
no other candidate has. From it follow `FirstSoleChosen`,
`SharedOnlyAsLastResort` and `RootAlwaysLast`, for any set of configurations.

*TreeProofs.* `TreeShapeKept`: through adding, sorting, and the regrouping that
inserts and removes under a running traversal, a node hangs in one list, once, and
that list is its parent's. It is not inductive: `onbranch` looks the group up by
name in the keyed part of the parent's table, which `remove` leaves behind, so a
stale entry must be shown to refer to a node that is still a child there and is no
`.lproj` directory (`NamedChild`). The rest of `ShapeInv`: only made nodes are
linked (`Made`), the leaves of a dissolving directory that were moved are in front
of the position of the loop (`InListOfParent`), no `.lproj` directory
lies directly in another (`NoNestedLproj`, an assumption on the paths), the
dissolving directory hangs in its parent (`RegroupInv`), and the node `add`
has returned is that of the component before (`CursorNamed`). `SplitsExplained`
adds what the keyed part holds while files are added: the latest node of its name
(`LatestNamed`). Assumed: the paths of a project are sequences of names, `..` and the
leading slash, none has two names of `.lproj` directories, and a language is not one.

`TraversalsVisitOnce` proves `VisitedOnce`. `VisitInv` describes the calls of
`dochildren` that have not returned: they are a path from the root, each of their
nodes hanging, if it still does, exactly where the loop of the call above stands
(`Stack`); what such a loop has behind it was visited (`Behind`), what it has before
it was not, the node of the next call excepted (`Ahead`); below a node that was not
visited nothing was (`VisitedBelow`); and a node that was visited and left has had all
its children visited but those that were moved to it (`Explored`). That a removal
neither skips a sibling nor repeats one is `Ahead` and `Behind` for a list that
became shorter at the very position of its loop; that an insertion is harmless needs
that a new group goes behind that position and that an old one is not on the path.
Which nodes may have been moved is read off their paths, so `LprojBelow` says that
what hangs below an `.lproj` directory has it on its path. The step from lists to
`InTree`, which follows parents up to the root, is an induction over the depth of a
node, which exists because no insertion makes a cycle (`Levels`).

`FilesInPlace` proves `FilesShown` under the hypothesis `PathsPlain`: every path of a
file ends in a name, and not in that of an `.lproj` directory. Without it the property
is false, since a path that ends in `..` names no leaf. All paths of the run satisfy it.
The proof has three invariants besides `VisitInv`:

- `PlaceInv` relates the path of a node, `..` left out, to that of its parent: the node
  is in place, or it came out of an `.lproj` directory into a group of its name beside
  that directory (`Placed`). A group the generator made has no path and is known by what
  was moved into it (`IsGroup`).
- `HangInv`: a node hangs in its parent's list, once the files are added, unless it is an `.lproj`
  directory with nothing in it (`Hanging`); the loop over such a directory has moved what it has behind
  it (`MovedOut`), and one that the traversal has visited is empty (`Emptied`). That all
  of them are visited needs `Explored` to except no `.lproj` directory from what a
  traversal reaches: none hangs below another, so none is moved (`AllEmptied`).
- `FileInv`: `cfg` gives each file a node that was made for its path, and one node only,
  unless a later file has the same path (`FileNodes`).

At the end `AllHang` shows by the depth of nodes that whatever is no `.lproj` directory
is in the tree, and `TrailShown` that the names from the root to a node are what its path
is shown as, in steps of one node or of two where a group is between. A file's node has
a child only if the file is shown above another (`FilesChildless`).

*CollapseProofs.* `CollapseInv` follows `merge`. `EntryInv(c, x, n)` says what
configuration `c` of `x` is after the blocks before the n-th were looked at: which
blocks it was merged from, its links with their index, the names of its files and
excludes. It is carried from the configuration under construction (`CurrentInv`) to
the finished one (`ResultInv`), and from the solution's configuration to the
project's, which begins as its copy. After `postprocess` it gives way to `PostedInv`,
which adds what the settings of single files are. These depend on the terms tables
that configurations share, so `TablesInv` says what a table holds at any time: the
terms of the configuration merged last among those that refer to it (`LastWith`,
`HoldsTerms`). From the invariant follow `MatchingBlocksMerged`, `LinksInScriptOrder`,
`FileBlocksNameFile`, `ExcludedFilesGone` and `FileBlocksOfLastSharer`. That a merge
writes only the terms tables of its own container (`OwnTablesOnly`, proved and in no
run) needs `PhaseInv` only. Assumed is `ScriptAssumption` (blocks are well formed,
keyed by the terms; their paths are relative exactly in projects).
`MatchingBlocksMerged` and `FileBlocksOfLastSharer` are proved under `KeysDistinct`:
with two configurations of one key the later overwrites the earlier (bake.lua:229,
section 5). The names of the runs satisfy it.

*ListProofs.* What `Filter` returns: the items kept, in their order (`Embeds`), hence
which items a list contains afterwards, and that what it keeps of the beginning of a
list begins what it keeps of the list (`FilterBegins`). The induction over the length is done
with a set of numbers (`SetInduction`, from the well-foundedness of `<`), because the
library's induction theorems take an operator.

*LuaHeapProofs.* Objects are alive when they are allocated and not of the condemned
white. `HeapInv` says, besides types and what each kind of object may refer to
(`RefTyped`): alive objects refer to alive objects (`Closed`); outside the marking
every object is of the current white or still to be swept (`SweepInv`); while
marking, a black object refers to nothing white, and a gray one is on one of the
gray lists, list by list through the atomic phase (`MarkInv`); a finalizer has been
called for just the userdata that were separated and have left the queue (`FinInv`).
`Closed` is what makes freeing safe, and only the flip of the white could break it;
there it holds by `MarkInv`, which holds because every store has its barrier or
its object is traversed again, and which needs of `SweepInv` that a cycle starts
without anything condemned. From the invariant follow `ReachableLive`, `TriColour` and
`FinalizedOnce`, for any finite set of objects. `GarbageCollected` needs the opposite
of `Closed`: `GarbageInv` says that nothing but garbage refers to what was garbage
when the cycle began, that garbage is white until the flip, and condemned or already
freed after it. That rests on two facts: the collector marks an object only from one
that refers to it, and the search that defines `Reachable` has found everything when
it stops, since each round of it adds an object and there are finitely many
(`SearchComplete`). Assumed is `HeapAssumption`: the kinds are disjoint, the main
thread and the globals exist, the initial heaps are closed.

*LuaTableProofs.* `StoreInv` is `TableInv` with the values as stored and the cached
absences honest. `TableInv` says of the nodes what `ltable.c` relies on and states in
part: links end and no two lead to one node (`Chained`); a key is in the chain from
its main position, whose occupant is at home (`HomeInv`), which also keeps two keys of
one chain from moving each other in turn; free nodes are in no chain and none is at or
above `lastfree` (`FreeInv`); a dead key does not hide a live one (`DeadInv`). Each way
to insert, into a free home, behind its occupant or in the place of a stranger that
moves, is shown to keep the chains and every value in them (`Inserted`). That a rehash
makes room is a counting argument: what is not in the new array part is at most what
`numusehash` counted less what `computesizes` took (`DemandCovered`), so none of the
re-insertions lacks a node (`ReinsertAllWorks`), nor does the key that caused it, and
`newkey` need not rehash again. `LengthIsBorder` follows `luaH_getn` through halving
(`BisectBorder`), doubling and counting upwards, which end because behind every index
one is absent. For `TableIsMap` the invariant is joined by `WalkInv`: the last key of a
traversal is found, dead or alive, and the keys still to visit are those present at
higher indices. It holds since assigning present keys, asking for tag methods and
collecting leave every index alone (`Unmoved`). Assumed is `KeyAssumption`: one class for
each key, and hash values that are natural numbers; they are arbitrary, so every
pattern of collisions is covered.

What is proved assumes nothing of the instances TLC runs: those fix names, scripts,
graphs and hash values; the theorems take any that satisfy the assumptions.

Only model-checked: liveness (`Terminates`, `FullCollects`); of the interpreter the
compiler, the machine and the pattern matcher, whose models use recursive operators;
Host, which extends the pattern matcher; Loader.

## 5. Findings

Two runs show a disagreement between the code and what it says of itself:

1. `usage()` on an existing usage project calls `iff`, which does not exist
   (`src/base/api.lua:771`).
2. `merge()` decides by the block's own terms table, which configurations
   share, whether to refresh the kind term (`src/base/bake.lua:251`). On the
   repository's own test script `ReleaseDLL` misses the block for `SharedLib`;
   the test looks at `DebugDLL` only.

Noticed while modelling, without a run. In the Lua program (paths of the repository's
`src/` and `lua/`):

- `FileBlocksOfLastSharer` records a relative of finding 2: the settings of a file
  are matched against the terms of the configuration merged last into a table.
- `src/base/bake.lua:366`: the last candidate is taken without a look at its count,
  so equally named projects of two solutions in one location share their object
  directories, against the comment at line 315. `FirstSole` says "or the last".
- `src/base/tree.lua:49`: `path.getdirectory("/")` is `/`, so adding an absolute
  path recurses until the stack overflows (`AddAbsolute`).
- `src/base/project.lua:33`: of two files with one virtual path, the later replaces
  the earlier.
- `src/base/bake.lua:533`: flags copied from usage projects get no keyed entry, which
  `postprocess` (703-706) has given to all others, so `cfg.flags.Symbols` misses them.
- `src/base/bake.lua:582`: a project that the configuration's own links name is listed
  twice. `LinkageCopied` says "again, if its own links name it".
- `src/base/bake.lua:229`: the key of a configuration is its name and its platform's
  without a separator, so two may have one key (`KeysDistinct`, section 4).
- `src/host/main.lua:70-74`: what `_premake_main` returns is dropped, so `1` for help or
  a missing action ends with exit code 0.
- `src/actions/make/_make.lua:96`: what shares its location is written to `<name>.make`,
  which two projects of one name in two solutions there share too.
- `src/base/project.lua:141`: "case insensitive", but names are compared as they are.
- `lua/puremake/path.lua:15`: a path that begins with a macro is relative to the working
  directory, so from elsewhere `getrelative` puts `..` in front of the macro;
  `tests/base/test_path.lua:150-152` wants it as it is.
- `lua/wetgenes/path.lua:314`: of two paths without a common directory, `relative`
  returns the second as it was given, relative if it was; `wetgenes/path.lua:228`: a
  leading `..` is removed by the `..` behind it. `PathsKeepMeaning` names these as its
  exceptions.
- `lua/puremake/os.lua:457`: the `builtin_rmdir` that `os.rmdir` ends with (475) is nil,
  so it deletes the files of the first directory without subdirectories and stops.
- `lua/puremake/os.lua:126`: `path.join` takes a name that begins with `$` for an absolute
  path, so such a file is found by a walk only if the working directory has one of that
  name, and then in every directory. `WalkFindsAll` excepts such names; it also says that
  directories whose names begin with a dot are not entered (389).

In the interpreter:

- `lstrlib.c`: a lone `)` is plain text for `string.find` and an error for `match`.
- `lvm.c:140-144`: in a table that is its own metatable, storing `__newindex` asks
  for it, caches its absence and then stores it, against `lobject.h:340`.
- `lcode.c:64`: the jump for a constant operand takes over the jumps pending to its place,
  with the values they carry. With `a = 1`, `(a or nil) and true or false` yields 1 where
  the manual (`manual.html:1038-1040`) has `true`. The programs of the run avoid constant
  operands in such chains, so `RunsAsMeant` says nothing about them.
- `ltablib.c:229`: `table.sort` checks its bounds only after a comparison held, so an
  inconsistent order function can leave it one past the range, which is then sorted
  again, and the sort may not end.

## 6. Composition

`Loader` stands alone. `Usage` instantiates `Connections`, `LuaTable` instantiates
`LuaMap`; `Collapse` uses `Keywords` and, like `Usage`, `Lists`; `Host` runs `Paths`
and `PatternMeaning` (over `LuaPattern`) on what its scripts ask, `LuaVM` runs what
`LuaParser`, `LuaCode` and `LuaCheck` have made, against `LuaLang`. Session and
Collapse are not composed: Collapse takes any script, which by `SlotConsistent` is
what Session leaves.

## 7. Not modelled

- *Session:* the field table has one field of each kind and scope, not all of them.
- *Collapse, Usage:* keyed flags; the system and the long and short names of a configuration;
  `path.rebase` of copied paths and the removal of usage projects afterwards.
- *Targets and project queries* (`buildtargets`, `gettarget`, `getlinks`,
  `getdependencies`, `getvpath`, `findproject`): they read baked configurations and
  change nothing; what could go wrong in them are tables of naming conventions.
  *The clean action* removes what these name.
- *Generators, tool tables:* text, and tables from flags to command line switches.
- *Tree:* the depth and the other parameters a traversal passes to callbacks.
- *Host:* `os.getversion`, `os.uuid`, `os.stat`, `string.hash`, `os.getcwd` read
  only; masks other than `*` and `**`; Windows branches; the command line of LuaJIT
  where it differs from that of `lua`.
- *Paths:* quoted macros, `path.translate` of tables, the further split into drive and
  extension.
- *Loader:* `module`, `package.seeall`, `package.loadlib`.
- *Patterns:* function replacements of `gsub`, `string.format`, classes
  other than letters, digits and words, embedded zeros.
- *Tables:* the error `table overflow` beyond `2^MAXBITS` nodes.
- *Compiler:* line numbers, precompiled chunks, names for the debugger, the "ambiguous
  syntax" check, the encoding of table sizes, the overflow of constant indices.
- *Machine:* strings as tables, hooks, `coroutine.wrap`, `xpcall`, function
  environments, reallocation of stacks, collection during execution (LuaHeap has
  it on its own), shortage of memory.
- *Collector:* when a step is due (`GCthreshold`, `estimate`), the shrinking of
  stacks and the string table.
- *Table library* (`insert`, `remove`, `sort`, `concat`) and the other Lua libraries:
  where the modules use them they have their meaning.
- *Retired C host* (`old/src/host/*.c`): nothing runs it.
- *Packaging:* how the single file is generated (Host and Loader have the program as
  one of their worlds), and the bytecode files of the Lua distribution.
