------------------------------- MODULE Loader --------------------------------
(***************************************************************************)
(* require (loadlib.c), which main.lua and the modules under lua/ load     *)
(* each other with.  A chunk runs in the middle of the require that found  *)
(* it, may require others, plainly or under pcall, may put its table into  *)
(* package.loaded before it is complete, and may fail half-way.            *)
(***************************************************************************)
EXTENDS Naturals, FiniteSetsExt, SequencesExt

CONSTANTS
  Modules,
  Requires,    \* module (and Main) -> the modules its chunk requires
  Style,       \* module -> what its chunk leaves: "registers" in package.loaded,
               \* "returns" a value, "picks" a candidate, "none", "denies" (false)
  Root,        \* module -> the part of its name before the first dot, or itself
  Candidates,  \* what lfs_any.lua tries, in order
  Worlds,      \* preload: modules; LUA_PATH, default: templates (partial functions
               \* from modules to "chunk" or "broken"); cpath: templates of libraries,
               \* each [loads, opens: the modules it has functions for]
  Default,     \* the ";;" of LUA_PATH
  Main,        \* the script that is run
  MaxRequires, \* bound on the requires of a run
  Nil, True, False, Sentinel

VARIABLES
  world,
  loaded,   \* package.loaded
  stack,    \* the chunks under way: name, whether pcall called require, candidates tried
  status,   \* "run", or the end of the script: "done" or "error"
  origin,   \* history: module -> the place its last chunk was found at
  started,  \* history: module -> how often its chunk was started
  finished, \* history: the modules whose chunk has returned
  got,      \* history: module -> the values require has answered with
  half,     \* history: the modules given before their chunk had returned
  requires

vars == <<world, loaded, stack, status, origin, started, finished, got, half, requires>>

Top == Last(stack)

--------------------------------------------------------------------------------
(* Where a module is.                                                          *)

\* The default templates stand where LUA_PATH has the empty one.
setpath(env, default) ==
  IF env = Nil THEN default
  ELSE FlattenSeq([n \in DOMAIN env |-> IF env[n] = Default THEN default ELSE <<env[n]>>])

\* Mutant: the last template that has a readable file.
findfileLast(name, templates) == Max({0} \cup {n \in DOMAIN templates : name \in DOMAIN templates[n]})

\* The first template that has a readable file; 0 is none.
findfile(name, templates) ==
  LET readable == {n \in DOMAIN templates : name \in DOMAIN templates[n]}
  IN IF readable = {} THEN 0 ELSE Min(readable)

NotFound == [by |-> "none", at |-> 0, is |-> "missing"]
Found(by, at, is) == [by |-> by, at |-> at, is |-> is]

loader_preload(name) ==
  IF name \in world.preload THEN Found("preload", 1, "chunk") ELSE NotFound

loader_Lua(name) ==
  LET templates == setpath(world.LUA_PATH, world.default)
      at        == findfile(name, templates)
  IN IF at = 0 THEN NotFound ELSE Found("Lua", at, templates[at][name])

\* ll_loadfunc: the library loads and has the function of the module.
Opens(library, name) == library.loads /\ name \in library.opens

\* A library that does not load, or has no function of the name, is an error.
loader_C(name) ==
  LET at == findfile(name, world.cpath)
  IN IF at = 0 THEN NotFound
     ELSE Found("C", at, IF Opens(world.cpath[at][name], name) THEN "chunk" ELSE "broken")

\* The library of the root may hold it; that it has no such function is none.
loader_Croot(name) ==
  LET at == findfile(Root[name], world.cpath)
  IN IF Root[name] = name \/ at = 0 THEN NotFound
     ELSE IF ~world.cpath[at][Root[name]].loads THEN Found("Croot", at, "broken")
     ELSE IF Opens(world.cpath[at][Root[name]], name) THEN Found("Croot", at, "chunk") ELSE NotFound

\* The first loader that finds the module, or fails on it.
Search(name) ==
  LET answers == <<loader_preload(name), loader_Lua(name), loader_C(name), loader_Croot(name)>>
  IN SelectSeq(Append(answers, [NotFound EXCEPT !.is = "unknown"]), LAMBDA a : a.is # "missing")[1]

--------------------------------------------------------------------------------
(* require.                                                                    *)

\* An error ends every call up to the latest pcall.
Raise(frames) ==
  LET protected == {n \in DOMAIN frames : frames[n].soft}
  IN IF protected = {} THEN stack' = <<>> /\ status' = "error"
     ELSE stack' = SubSeq(frames, 1, Max(protected) - 1) /\ UNCHANGED status

Answer(name, value, is) ==
  /\ got' = [got EXCEPT ![name] = @ \cup {value}]
  /\ half' = IF name \in is THEN half ELSE half \cup {name}

Frame(name, soft) == [name |-> name, soft |-> soft, tried |-> 0]

Given(name, frames) ==
  /\ Answer(name, loaded[name], finished)
  /\ stack' = frames
  /\ UNCHANGED <<loaded, status, origin, started>>

Refused(name, soft, frames) ==
  /\ Raise(Append(frames, Frame(name, soft)))
  /\ UNCHANGED <<loaded, origin, started, got, half>>

Called(name, soft, frames, mark) ==
  /\ stack' = Append(frames, Frame(name, soft))
  /\ loaded' = [loaded EXCEPT ![name] = mark]
  /\ origin' = [origin EXCEPT ![name] = Search(name)]
  /\ started' = [started EXCEPT ![name] = @ + 1]
  /\ UNCHANGED <<status, got, half>>

\* Mutant: the chunk is called without a mark.
RequireUnmarked(name, soft, frames) ==
  IF loaded[name] \notin {Nil, False} THEN Given(name, frames)
  ELSE IF Search(name).is # "chunk" THEN Refused(name, soft, frames)
  ELSE Called(name, soft, frames, loaded[name])

\* Mutant: the mark of a chunk under way is taken for a value.
RequireMarked(name, soft, frames) ==
  IF loaded[name] \notin {Nil, False} THEN Given(name, frames)
  ELSE IF Search(name).is # "chunk" THEN Refused(name, soft, frames)
  ELSE Called(name, soft, frames, Sentinel)

\* What is there is the answer; a chunk under way, or one that failed, is an
\* error; else the chunk is found, marked and called.
ll_require(name, soft, frames) ==
  IF loaded[name] \notin {Nil, False, Sentinel} THEN Given(name, frames)
  ELSE IF loaded[name] = Sentinel \/ Search(name).is # "chunk" THEN Refused(name, soft, frames)
  ELSE Called(name, soft, frames, Sentinel)

\* Mutant: true takes the place of a value the chunk has set.
ReturnTrue(name, value) ==
  IF value # Nil THEN value ELSE True

\* What package.loaded holds after the chunk has returned.
Returned(name, value) ==
  IF value # Nil THEN value ELSE IF loaded[name] = Sentinel THEN True ELSE loaded[name]

Return(value) ==
  LET name == Top.name
      left == Returned(name, value)
  IN /\ loaded' = [loaded EXCEPT ![name] = left]
     /\ finished' = finished \cup {name}
     /\ Answer(name, left, finished')
     /\ stack' = Front(stack)
     /\ UNCHANGED <<world, status, origin, started, requires>>

--------------------------------------------------------------------------------
(* What a chunk does.                                                          *)

Table(name) == <<name, started[name]>>
Running(styles) == status = "run" /\ Top.name \in Modules /\ Style[Top.name] \in styles

\* require(name), or pcall(function() return require(name) end)
Require ==
  /\ status = "run" /\ requires > 0
  /\ Top.name \in Modules => Style[Top.name] # "picks"
  /\ \E name \in Requires[Top.name], soft \in BOOLEAN : ll_require(name, soft, stack)
  /\ requires' = requires - 1
  /\ UNCHANGED <<world, finished>>

\* package.loaded[(...)] = M
Register ==
  /\ Running({"registers"}) /\ loaded[Top.name] = Sentinel
  /\ loaded' = [loaded EXCEPT ![Top.name] = Table(Top.name)]
  /\ UNCHANGED <<world, stack, status, origin, started, finished, got, half, requires>>

\* The chunk ends.
Finish ==
  /\ Running({"registers", "returns", "none", "denies"})
  /\ Style[Top.name] = "registers" => loaded[Top.name] # Sentinel
  /\ Return(CASE Style[Top.name] = "returns" -> Table(Top.name)
              [] Style[Top.name] = "denies" -> False
              [] OTHER -> Nil)

\* The next candidate under pcall; after the last one an error.
TryNext(n) ==
  /\ IF n > Len(Candidates)
     THEN Raise(stack) /\ UNCHANGED <<loaded, origin, started, got, half>>
     ELSE ll_require(Candidates[n], TRUE, [stack EXCEPT ![Len(stack)].tried = n])
  /\ UNCHANGED <<world, finished, requires>>

\* lfs_any.lua returns the first candidate that does not fail.
Picks ==
  LET tried == Top.tried
  IN /\ Running({"picks"})
     /\ IF tried > 0 /\ loaded[Candidates[tried]] \notin {Nil, False, Sentinel}
        THEN Return(loaded[Candidates[tried]])
        ELSE TryNext(tried + 1)

\* The chunk raises an error.
Fail ==
  /\ status = "run"
  /\ Top.name \in Modules => Style[Top.name] # "picks"
  /\ Raise(stack)
  /\ UNCHANGED <<world, loaded, origin, started, finished, got, half, requires>>

\* The script ends.
EndMain ==
  /\ status = "run" /\ Len(stack) = 1
  /\ stack' = <<>> /\ status' = "done"
  /\ UNCHANGED <<world, loaded, origin, started, finished, got, half, requires>>

--------------------------------------------------------------------------------
(* Specification.                                                              *)

Init ==
  /\ world \in Worlds
  /\ loaded = [m \in Modules |-> Nil]
  /\ stack = <<Frame(Main, FALSE)>> /\ status = "run"
  /\ origin = [m \in Modules |-> NotFound]
  /\ started = [m \in Modules |-> 0] /\ finished = {}
  /\ got = [m \in Modules |-> {}] /\ half = {}
  /\ requires = MaxRequires

Next == Require \/ Register \/ Finish \/ Picks \/ Fail \/ EndMain

Spec == Init /\ [][Next]_vars

--------------------------------------------------------------------------------
(* Properties.                                                                 *)

\* However the requires of a module are nested and caught, those that return all
\* return the same value, and none the mark or nil; only a chunk that returns
\* false gives another one each time (loadlib.c:457-493).
SameModule ==
  \A m \in Modules :
    /\ got[m] \cap {Nil, Sentinel} = {}
    /\ Style[m] # "denies" => Cardinality(got[m]) <= 1 /\ False \notin got[m]

\* Requires that go in a circle end in an error, not in an endless recursion: no
\* chunk is under way twice, nor run again after it returned or failed, but one
\* that returns false (loadlib.c:458-459, 481-482).
RunsOnce ==
  /\ \A p, q \in DOMAIN stack : stack[p].name = stack[q].name => p = q
  /\ \A m \in Modules : Style[m] # "denies" => started[m] <= 1

\* A module whose chunk is still under way, or has failed, is given to others
\* only if it put its table into package.loaded (wetgenes/path.lua:15).
HalfOnlyRegistered == \A m \in half : Style[m] = "registers" /\ got[m] = {Table(m)}

\* The places in the order they are searched: preload, the templates of LUA_PATH
\* with the default ones at ";;", cpath, and the root's libraries.
Places(m) ==
  LET Lua == setpath(world.LUA_PATH, world.default)
  IN <<m \in world.preload>>
     \o [n \in DOMAIN Lua |-> m \in DOMAIN Lua[n]]
     \o [n \in DOMAIN world.cpath |-> m \in DOMAIN world.cpath[n]]
     \o [n \in DOMAIN world.cpath |-> Root[m] # m /\ Root[m] \in DOMAIN world.cpath[n]]

Place(m) ==
  LET Lua == Len(setpath(world.LUA_PATH, world.default))
  IN origin[m].at + CASE origin[m].by = "preload" -> 0 [] origin[m].by = "Lua" -> 1
                      [] origin[m].by = "C" -> 1 + Lua
                      [] origin[m].by = "Croot" -> 1 + Lua + Len(world.cpath)

\* A chunk comes from the first place that has the module, and no earlier one,
\* though unreadable or broken, was passed over (loadlib.c:351-371, 462-480); and
\* lfs_any is the first candidate that loads, none that failed (lfs_any.lua:4-17).
FirstPlace ==
  /\ \A m \in Modules : started[m] > 0 =>
       /\ Places(m)[Place(m)]
       /\ \A p \in 1 .. Place(m) - 1 : ~Places(m)[p]
  /\ \A m \in finished : Style[m] = "picks" =>
       \E c \in DOMAIN Candidates :
         /\ got[m] = got[Candidates[c]] /\ Candidates[c] \in finished
         /\ \A d \in 1 .. c - 1 : Candidates[d] \notin finished

================================================================================
