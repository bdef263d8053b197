-------------------------------- MODULE Host ---------------------------------
(***************************************************************************)
(* A run of the program from the command line to its exit code: the        *)
(* interpreter that is started (lua.c), the driver (src/host/main.lua and  *)
(* _premake_main.lua, with dofile of globals.lua, option.lua, action.lua   *)
(* and the checks of validate.lua) and the functions its scripts call      *)
(* (puremake/os.lua over lfs, the paths of Paths, the string library).     *)
(* The project script is any sequence of calls, nested scripts and errors. *)
(***************************************************************************)
EXTENDS Paths, PatternMeaning, TLC

CONSTANTS
  Worlds,     \* the command lines, file systems and environments at the start
  Options,    \* the registered options: key |-> [needs value, allowed values]
  Actions,    \* the registered actions: name |-> its valid tools
  Names,      \* the names scripts and directories have
  Hidden,     \* names that begin with a dot
  PathArgs,   \* what scripts call the path functions with
  Bases,      \* the directories they match files in, and rebase paths between
  Patterns,   \* the patterns scripts search with
  Subjects,   \* what they search in
  MaxOps,     \* bound: calls a script makes
  MaxDepth,   \* bound: scripts that run scripts
  Nil

premake4_lua == "premake4.lua"

VARIABLES
  world,      \* what does not change: the words of the command line before and
              \* behind the script (sequences of [lead, key, val]), the script's
              \* path, single, init, lfs, env, solutions, and what its
              \* scripts ask for (paths, strings, files)
  pc,         \* the next step of the interpreter or of the driver
  dirs, files, cwd,                   \* the file system and the working directory
  options, args, actn,                \* _OPTIONS, _ARGS and _ACTION
  script,     \* _SCRIPT
  frames,     \* the scripts under way: where each one returns to
  walks,      \* the directory listings under way
  found,      \* the directory and mask of os.matchfiles, and what it has found
  platforms,  \* the platforms of each solution
  at,         \* the solution a loop over the solutions is at
  answer,     \* the last call of a path, string or os function and its result
  strayed,    \* history: a script changed the directory or caught an error
  ran,        \* the solutions the action was called for
  returned,   \* what _premake_main returned
  z,          \* the exit code, Nil while the program runs
  ops         \* the number of calls so far

fs      == <<dirs, files, cwd>>
line    == <<options, args, actn>>
walkers == <<walks, found>>
slns    == <<platforms, at, ran>>
exit    == <<returned, z>>
vars    == <<world, pc, fs, line, script, frames, walkers, slns, answer, strayed, exit, ops>>

--------------------------------------------------------------------------------
(* The file system. A place is the root and the names of the directories on    *)
(* the way; a path leads to a place from the working directory.                *)

Locate(p) ==
  LET Walk(place, part) ==
        IF part = "." \/ (part = ".." /\ Len(place) = 1) THEN place
        ELSE IF part = ".." THEN Front(place) ELSE Append(place, part)
  IN FoldLeft(Walk, IF p # <<>> /\ p[1] = "/" THEN <<"/">> ELSE cwd, SelectSeq(p, LAMBDA c : c # "/"))

isfile(p) == Locate(p) \in files
isdir(p)  == Locate(p) \in dirs
Spell(place) == IF Len(place) = 1 THEN place ELSE concat(<<IF place[1] = "/" THEN "" ELSE place[1]>> \o Tail(place))
getcwd    == Spell(cwd)
Abs(p)    == getabsolute(p, getcwd)

Below(d)  == {p \in dirs \cup files : IsStrictPrefix(d, p)}
Inside(d) == {p \in Below(d) : Len(p) = Len(d) + 1}

\* os.pathsearch: the first directory of the search paths, each a sequence of
\* directories or Nil, that has the file.
pathsearch(name, paths) ==
  LET all  == FlattenSeq(SelectSeq(paths, LAMBDA p : p # Nil))
      hits == {i \in DOMAIN all : isfile(all[i] \o <<"/">> \o name)}
  IN IF hits = {} THEN Nil ELSE all[Min(hits)]

--------------------------------------------------------------------------------
(* lua.c                                                                       *)

\* main: the state is closed and the exit code returned, whatever happened.
Quit(code) == pc' = "close" /\ z' = code /\ UNCHANGED returned

\* The words of the command line: those puremake.sh starts the interpreter with,
\* the path of main.lua, and those of the user.
Words == world.lua \o <<[lead |-> "", key |-> "main.lua", val |-> ""]>> \o world.argv
Ours  == Len(world.lua) + 1

\* One word of collectargs; a word may be the operand of the one before it.
Collect(acc, i) ==
  LET w == Words[i]
      Stop(n) == [acc EXCEPT !.script = n]
      Flag(f) == IF w.val = "" THEN [acc EXCEPT !.flags = @ \cup f] ELSE Stop(-1)
  IN IF acc.script # Nil THEN acc
     ELSE IF acc.operand THEN [acc EXCEPT !.operand = FALSE]
     ELSE IF w.lead \notin {"-", "--"} \/ (w.lead = "-" /\ w.key = "") THEN Stop(i)
     ELSE IF w.lead = "--" THEN Stop(IF w.key # "" THEN -1 ELSE IF i < Len(Words) THEN i + 1 ELSE 0)
     ELSE IF w.key \in {"e", "l"} THEN [acc EXCEPT !.flags = @ \cup {w.key}, !.operand = (w.val = "")]
     ELSE IF w.key = "v" THEN Flag({"v"}) ELSE IF w.key = "i" THEN Flag({"i", "v"})
     ELSE Stop(-1)

\* The script is -1 for a usage message and 0 for none.
collectargs ==
  LET end == FoldLeft(Collect, [script |-> Nil, operand |-> FALSE, flags |-> {}],
                      [i \in DOMAIN Words |-> i])
  IN [end EXCEPT !.script = IF @ # Nil THEN @ ELSE IF end.operand THEN -1 ELSE 0]

\* Whether LUA_INIT, and the chunks and libraries of the options, run without an
\* error.
handle_luainit == IF world.init THEN BOOLEAN ELSE {TRUE}
runargs(c)     == IF c.flags \cap {"e", "l"} = {} THEN {TRUE} ELSE BOOLEAN

\* The arguments of the script.
getargs(n) == SubSeq(Words, n + 1, Len(Words))

\* Whether a file is there and compiles.
luaL_loadfile(p) == IF isfile(p) THEN BOOLEAN ELSE {FALSE}

\* Up to the script; without one, what the standard input does to the exit code
\* is ignored.
pmain ==
  /\ pc = "init"
  /\ \E c \in {collectargs}, started \in handle_luainit :
       \E done \in runargs(c) :
         IF ~started \/ c.script = -1 \/ ~done THEN Quit(1)
         ELSE IF c.script = 0 THEN Quit(0) ELSE pc' = "handle_script" /\ UNCHANGED exit
  /\ UNCHANGED <<world, fs, line, script, frames, walkers, slns, answer, strayed, ops>>

\* The script is main.lua, or an option before it has taken it for its operand
\* and another file is run, or the standard input.
handle_script ==
  /\ pc = "handle_script"
  /\ \E n \in {collectargs.script} :
       \E loaded \in luaL_loadfile(IF n = Ours THEN world.main ELSE <<Words[n].key>>) :
         IF n = Ours /\ loaded THEN pc' = "arguments" /\ UNCHANGED exit
         ELSE \/ Quit(1)
              \/ n # Ours /\ (loaded \/ Words[n].lead = "-") /\ Quit(0)
  /\ UNCHANGED <<world, fs, line, script, frames, walkers, slns, answer, strayed, ops>>

Close ==
  /\ pc = "close"
  /\ pc' = "closed"
  /\ UNCHANGED <<world, fs, line, script, frames, walkers, slns, answer, strayed, exit, ops>>

--------------------------------------------------------------------------------
(* src/host/main.lua                                                           *)

\* One argument: options may stand anywhere, a later value replaces an earlier
\* one; the first other word is the action, the rest are its arguments.
Argument(acc, a) ==
  IF a.lead \in {"/", "--"} THEN [acc EXCEPT !.options = (a.key :> a.val) @@ @]
  ELSE IF acc.action = Nil THEN [acc EXCEPT !.action = a.key]
  ELSE [acc EXCEPT !.args = Append(@, a)]

\* Needs lfs, and the directory of the script; an argument that is nothing but a
\* path without a slash has none.
Arguments ==
  /\ pc = "arguments"
  /\ IF ~world.lfs THEN Quit(1) /\ UNCHANGED <<line, script>>
     ELSE /\ \E r \in {FoldLeft(Argument, [options |-> <<>>, args |-> <<>>, action |-> Nil], getargs(Ours))} :
               options' = r.options /\ args' = r.args /\ actn' = r.action
          /\ IF "/" \in Range(world.main)
             THEN script' = getcwd \o <<"/">> \o world.main /\ pc' = "load" /\ UNCHANGED exit
             ELSE Quit(1) /\ UNCHANGED script
  /\ UNCHANGED <<world, fs, frames, walkers, slns, answer, strayed, ops>>

\* The scripts of the manifest: read from the directory two above main.lua, or
\* part of the single file. Any of them may be missing or fail.
LoadScripts ==
  /\ pc = "load"
  /\ LET base == IF world.main[1] = "/" THEN <<>> ELSE getcwd \o <<"/">>
         main == base \o getdirectory(world.main) \o <<"/", "..", "/", "..", "/", "src", "/", "_premake_main.lua">>
     IN \/ (world.single \/ isfile(main)) /\ pc' = "main" /\ UNCHANGED exit
        \/ Quit(1)
  /\ UNCHANGED <<world, fs, line, script, frames, walkers, slns, answer, strayed, ops>>

--------------------------------------------------------------------------------
(* dofile and what scripts do.                                                 *)

Option(k) == IF k \in DOMAIN options THEN options[k] ELSE Nil

\* The search path dofile uses is the option, which may be empty.
SearchDirs ==
  IF Option("scripts") = Nil THEN Nil
  ELSE << IF Option("scripts") = "" THEN <<>> ELSE <<Option("scripts")>> >>

\* dofile remembers the directory and the script, looks for the file in the
\* search path if it is not here, and moves to its directory before it opens it.
dofile(fname, protected) ==
  LET dir == IF isfile(fname) THEN Nil ELSE pathsearch(fname, <<SearchDirs, world.env>>)
      Enter(file) ==
        /\ script' = file
        /\ cwd' = IF isdir(getdirectory(file)) THEN Locate(getdirectory(file)) ELSE cwd
        /\ \E loaded \in luaL_loadfile(file) :
             IF loaded
             THEN /\ frames' = Append(frames, [cwd |-> cwd, script |-> script, strayed |-> strayed,
                                             protected |-> protected])
                  /\ pc' = "script" /\ strayed' = FALSE
             ELSE /\ pc' = IF protected THEN pc ELSE "raise"
                  /\ strayed' = TRUE
                  /\ UNCHANGED frames
  IN Enter(Abs(IF dir = Nil THEN fname ELSE dir \o <<"/">> \o fname))

InScript == pc = "script" /\ ops < MaxOps

RunScript ==
  /\ InScript /\ walks = <<>> /\ Len(frames) < MaxDepth
  /\ \E d \in Names, protected \in BOOLEAN : dofile(<<d, "/", premake4_lua>>, protected)
  /\ ops' = ops + 1
  /\ UNCHANGED <<world, dirs, files, line, walkers, slns, answer, exit>>

\* Mutant: the directory is not put back.
ReturnStays(f) == script' = f.script /\ cwd' = cwd

\* The end of a script: dofile puts back the script and the directory.
ReturnFrom(f) == script' = f.script /\ cwd' = f.cwd

EndScript ==
  /\ pc = "script" /\ walks = <<>>
  /\ ReturnFrom(Last(frames))
  /\ frames' = Front(frames)
  /\ pc' = IF Len(frames) = 1 THEN "special" ELSE "script"
  /\ strayed' = Last(frames).strayed
  /\ answer' = Nil
  /\ UNCHANGED <<world, dirs, files, line, walkers, slns, exit, ops>>

\* An error in a script ends every script up to one that was called protected;
\* none of them puts anything back. Without one it ends the program.
Raise ==
  /\ pc = "raise" \/ (InScript /\ walks = <<>>)
  /\ \E guards \in {{i \in DOMAIN frames : frames[i].protected}} :
       IF guards = {} THEN frames' = <<>> /\ Quit(1)
       ELSE frames' = SubSeq(frames, 1, Max(guards) - 1) /\ pc' = "script" /\ UNCHANGED exit
  /\ strayed' = TRUE
  /\ ops' = IF pc = "raise" THEN ops ELSE ops + 1
  /\ UNCHANGED <<world, fs, line, script, walkers, slns, answer>>

os_chdir(p) ==
  /\ isdir(p)
  /\ cwd' = Locate(p) /\ strayed' = TRUE
  /\ UNCHANGED <<pc, dirs, files, answer>>

\* os.mkdir also makes the directories on the way, up to one that is a file.
os_mkdir(p) ==
  LET way  == {SubSeq(Locate(p), 1, n) : n \in 1 .. Len(Locate(p))}
      made == {d \in way : \A f \in files : ~IsPrefix(f, d)}
  IN /\ dirs' = dirs \cup made
     /\ UNCHANGED <<pc, files, cwd, answer, strayed>>

\* os.rmdir goes down into the first directory of each listing; where there is
\* none it removes the files it finds and calls builtin_rmdir, which is nil. The
\* script may have called it protected.
os_rmdir(p) ==
  \E leaf \in {Locate(p)} \cup (Below(Locate(p)) \cap dirs) :
    /\ Inside(leaf) \cap dirs = {}
    /\ files' = files \ {f \in Inside(leaf) : ~isabsolute(<<Last(f)>>)}
    /\ answer' = [fn |-> "rmdir", p |-> Locate(p)]
    /\ pc' \in {"script", "raise"}
    /\ UNCHANGED <<dirs, cwd, strayed>>

CallFs ==
  /\ InScript /\ walks = <<>>
  /\ \/ \E d \in Names \cup {".."} : os_chdir(<<d>>)
     \/ \E d \in Names : os_mkdir(<<d>>) \/ os_mkdir(<<d, "/", d>>) \/ os_rmdir(<<d>>)
  /\ ops' = ops + 1
  /\ UNCHANGED <<world, line, script, frames, walkers, slns, exit>>

\* A call of one of the path functions.
CallPath ==
  /\ InScript /\ walks = <<>> /\ "paths" \in world.asks /\ ops = 0
  /\ \/ \E p \in PathArgs :
          \/ answer' = [fn |-> "absolute", p |-> p, q |-> getcwd, r |-> Abs(p)]
          \/ answer' = [fn |-> "normalize", p |-> p, q |-> <<>>, r |-> normalize(p)]
          \/ \E old, new \in Bases : answer' = [fn |-> "rebase", p |-> p, q |-> getcwd, old |-> old, new |-> new,
                                               r |-> rebase(p, old, new, getcwd)]
     \/ \E p, q \in PathArgs :
          \/ answer' = [fn |-> "relative", p |-> p, q |-> q, at |-> getcwd, r |-> getrelative(p, q, getcwd)]
          \/ answer' = [fn |-> "join", p |-> p, q |-> q, r |-> join(<<p, q>>)]
  /\ ops' = MaxOps
  /\ UNCHANGED <<world, pc, fs, line, script, frames, walkers, slns, strayed, exit>>

\* The replacements: the first capture and an x, and a table that has one text.
Replacements ==
  { [kind |-> "text", text |-> <<"%", "1", "x">>], [kind |-> "table", map |-> <<"a">> :> <<"x", "x">>] }

\* A call of string.find, match or gsub; the replacements have a limit or not.
CallString ==
  /\ InScript /\ walks = <<>> /\ "strings" \in world.asks /\ ops = 0
  /\ \E p \in Patterns, q \in Subjects :
       \/ \E init \in {1, -1}, find \in BOOLEAN :
            answer' = [fn |-> "find", p |-> p, q |-> q, init |-> init, find |-> find,
                       r |-> str_find_aux(q, Written(p), init, find)]
       \/ \E max_s \in {1, Len(q) + 1}, repl \in Replacements :
            answer' = [fn |-> "gsub", p |-> p, q |-> q, max_s |-> max_s, repl |-> repl,
                       r |-> str_gsub(q, Written(p), repl, max_s)]
  /\ ops' = MaxOps
  /\ UNCHANGED <<world, pc, fs, line, script, frames, walkers, slns, strayed, exit>>

--------------------------------------------------------------------------------
(* os.matchfiles (domatch of puremake/os.lua) over matchstart and matchnext:   *)
(* the files of a directory are listed, then it is listed again for the        *)
(* directories, which are walked while the listing is still open. The mask is  *)
(* a directory and * or **.                                                    *)

\* A new listing reads the directory as it is, and readdir has no order; one that
\* cannot be opened is empty.
matchstart(dir, phase) == [dir |-> dir, phase |-> phase, left |-> {Last(p) : p \in Inside(Locate(dir))}]

StartWalk ==
  /\ InScript /\ walks = <<>> /\ answer = Nil /\ "files" \in world.asks
  /\ \E base \in Bases, recurse \in BOOLEAN :
       /\ walks' = <<matchstart(base, "files")>>
       /\ found' = [base |-> base, recurse |-> recurse, names |-> <<>>]
  /\ ops' = ops + 1
  /\ UNCHANGED <<world, pc, fs, line, script, frames, slns, answer, strayed, exit>>

\* The whole name against the mask, as path.wildcards writes it.
MatchesMask(fullname) ==
  LET front == IF found.base = <<".">> THEN <<>> ELSE found.base \o <<"/">>
  IN /\ IsPrefix(front, fullname)
     /\ found.recurse \/ "/" \notin Range(SubSeq(fullname, Len(front) + 1, Len(fullname)))

\* Mutant: the second listing also collects files, and no directory is entered.
MatchnextSame ==
  /\ walks # <<>>
  /\ \E name \in Last(walks).left :
       LET fullname == join(<<Last(walks).dir, <<name>>>>)
       IN /\ found' = [found EXCEPT !.names = IF isfile(fullname) /\ MatchesMask(fullname) THEN Append(@, fullname) ELSE @]
          /\ walks' = [walks EXCEPT ![Len(walks)].left = @ \ {name}]
  /\ UNCHANGED <<world, pc, fs, line, script, frames, slns, answer, strayed, exit, ops>>

\* The next name of the listing: a file that matches is collected in the first
\* one; in the second, what is no file is entered unless its name begins with a
\* dot.
matchnext ==
  /\ walks # <<>>
  /\ \E name \in Last(walks).left :
       LET fullname == join(<<Last(walks).dir, <<name>>>>)
           rest     == [walks EXCEPT ![Len(walks)].left = @ \ {name}]
           first    == Last(walks).phase = "files"
       IN /\ found' = [found EXCEPT !.names = IF first /\ isfile(fullname) /\ MatchesMask(fullname)
                                             THEN Append(@, fullname) ELSE @]
          /\ walks' = IF ~first /\ ~isfile(fullname) /\ name \notin Hidden
                      THEN Append(rest, matchstart(fullname, "files")) ELSE rest
  /\ UNCHANGED <<world, pc, fs, line, script, frames, slns, answer, strayed, exit, ops>>

EndListing ==
  /\ walks # <<>> /\ Last(walks).left = {}
  /\ walks' = IF Last(walks).phase = "files" /\ found.recurse
              THEN Append(Front(walks), matchstart(Last(walks).dir, "dirs"))
              ELSE Front(walks)
  /\ answer' = IF walks' = <<>> THEN [fn |-> "match", p |-> Locate(found.base), q |-> files,
                                       r |-> [i \in DOMAIN found.names |-> Locate(found.names[i])]]
               ELSE answer
  /\ UNCHANGED <<world, pc, fs, line, script, frames, found, slns, strayed, exit, ops>>

--------------------------------------------------------------------------------
(* _premake_main                                                               *)

\* The script that is run: the file option or premake4.lua.
Script == IF Option("file") = Nil THEN <<premake4_lua>> ELSE <<Option("file")>>

\* The value of _premake_main is that of the chunk main.lua, which the interpreter
\* drops: the exit code is 0.
Return(value) == pc' = "close" /\ returned' = value /\ z' = 0

\* The script is run if there is one.
MainStart ==
  /\ pc = "main"
  /\ IF isfile(Script) THEN dofile(Script, FALSE)
     ELSE pc' = "special" /\ UNCHANGED <<cwd, script, frames, strayed>>
  /\ UNCHANGED <<world, dirs, files, line, walkers, slns, answer, exit, ops>>

\* option.validate: known, with a value if it needs one, and an allowed one.
validate(opts) ==
  \A k \in DOMAIN opts :
    /\ k \in DOMAIN Options
    /\ Options[k].needs => opts[k] # ""
    /\ Options[k].allowed = {} \/ opts[k] \in Options[k].allowed

\* Version, help and no action end with a message; then the script must exist,
\* the action must be known and the options valid.
Special ==
  /\ pc = "special"
  /\ IF Option("version") # Nil \/ Option("help") # Nil \/ actn = Nil THEN Return(1)
     ELSE IF ~isfile(Script) \/ actn \notin DOMAIN Actions \/ ~validate(options) THEN Quit(1)
     ELSE pc' = "tools" /\ UNCHANGED exit
  /\ UNCHANGED <<world, fs, line, script, frames, walkers, slns, answer, strayed, ops>>

\* checktools: a tool that was given must be valid, others get the first valid one.
checktools ==
  /\ pc = "tools"
  /\ \E tools \in {Actions[actn]} :
       IF \E t \in DOMAIN tools : Option(t) # Nil /\ ~Contains(tools[t], Option(t))
       THEN Quit(1) /\ UNCHANGED <<options, at>>
       ELSE /\ options' = options @@ [t \in DOMAIN tools |-> tools[t][1]]
            /\ pc' = "platform" /\ at' = 1 /\ UNCHANGED exit
  /\ UNCHANGED <<world, fs, args, actn, script, frames, walkers, platforms, ran, answer, strayed, ops>>

\* injectplatform, one solution a step: the first one without a Native platform
\* ends it, with the ones before already changed.
WithPlatform(list, p) ==
  IF Contains(list, p) THEN list ELSE Append(list, p)

injectplatform ==
  /\ pc = "platform" /\ at <= Len(platforms) /\ Option("platform") # Nil
  /\ \E list \in {IF platforms[at] = <<>> THEN <<"Native">> ELSE platforms[at]} :
       IF ~Contains(list, "Native") THEN Quit(1) /\ UNCHANGED <<platforms, at>>
       ELSE /\ platforms' = [platforms EXCEPT ![at] = WithPlatform(list, Option("platform"))]
            /\ at' = at + 1 /\ UNCHANGED <<pc, exit>>
  /\ UNCHANGED <<world, fs, line, script, frames, walkers, ran, answer, strayed, ops>>

\* The configurations are built before the projects are checked (see Collapse,
\* Usage and ObjDirs for what is built).
Bake ==
  /\ pc = "platform" /\ (at > Len(platforms) \/ Option("platform") = Nil)
  /\ pc' = "check" /\ at' = 1
  /\ UNCHANGED <<world, fs, line, script, frames, walkers, platforms, ran, answer, strayed, exit, ops>>

\* checkprojects, one solution a step: projects, configurations, and languages
\* and kinds the action supports.
Checked(sln) == sln.projects > 0 /\ sln.configurations > 0 /\ actn \in sln.supported

\* Mutant: a solution that fails the check does not end the loop.
CheckGoesOn ==
  /\ pc = "check"
  /\ IF at > Len(platforms) THEN pc' = "action" /\ at' = 1 ELSE at' = at + 1 /\ UNCHANGED pc
  /\ UNCHANGED <<world, fs, line, script, frames, walkers, platforms, ran, answer, strayed, exit, ops>>

checkprojects ==
  /\ pc = "check"
  /\ IF at > Len(platforms) THEN pc' = "action" /\ at' = 1 /\ UNCHANGED exit
     ELSE IF Checked(world.solutions[at]) THEN at' = at + 1 /\ UNCHANGED <<pc, exit>>
     ELSE Quit(1) /\ at' = at
  /\ UNCHANGED <<world, fs, line, script, frames, walkers, platforms, ran, answer, strayed, ops>>

\* action.call, one solution a step. Any of the callbacks may raise an error.
CallAction ==
  /\ pc = "action"
  /\ \/ at <= Len(platforms) /\ ran' = Append(ran, at) /\ at' = at + 1 /\ UNCHANGED <<pc, exit>>
     \/ Quit(1) /\ UNCHANGED <<ran, at>>
     \/ at > Len(platforms) /\ Return(0) /\ UNCHANGED <<ran, at>>
  /\ UNCHANGED <<world, fs, line, script, frames, walkers, platforms, answer, strayed, ops>>

--------------------------------------------------------------------------------
(* Specification.                                                              *)

Init ==
  /\ world \in Worlds
  /\ dirs = world.dirs /\ files = world.files /\ cwd = world.cwd
  /\ platforms = [i \in DOMAIN world.solutions |-> world.solutions[i].platforms]
  /\ pc = "init"
  /\ options = <<>> /\ args = <<>> /\ actn = Nil /\ script = <<>>
  /\ frames = <<>> /\ walks = <<>> /\ found = Nil
  /\ at = 1 /\ ran = <<>> /\ answer = Nil /\ strayed = FALSE
  /\ returned = Nil /\ z = Nil /\ ops = 0

Next ==
  \/ pmain \/ handle_script \/ Close \/ Arguments \/ LoadScripts
  \/ RunScript \/ EndScript \/ Raise \/ CallFs \/ CallPath \/ CallString
  \/ StartWalk \/ matchnext \/ EndListing
  \/ MainStart \/ Special \/ checktools \/ injectplatform \/ Bake \/ checkprojects \/ CallAction

Spec == Init /\ [][Next]_vars

--------------------------------------------------------------------------------
(* Properties.                                                                 *)

\* A script runs in its own directory until it changes it itself or catches the
\* error of a script it ran, and when the project script has returned the
\* program is back where it was started, whatever happened in between (dofile
\* of globals.lua).
ScriptDirectory ==
  /\ pc = "script" /\ ~strayed => getcwd = getdirectory(script)
  /\ pc \in {"special", "tools", "platform", "check", "action"} => cwd = world.cwd

\* The action never sees a solution before all of them passed every check, with
\* the platform of the command line in each of them and none twice. The exit
\* code 0 means that the action was called for every solution, or that there was
\* only a message to print, or that the words before main.lua made the
\* interpreter run something else
\* (_premake_main.lua:54-161, main.lua:70-74, lua.c:239-254, 377-391).
ActionGuarded ==
  /\ ran # <<>> =>
       /\ validate([k \in (DOMAIN options) \cap {a.key : a \in Range(world.argv)} |-> options[k]])
       /\ \A i \in DOMAIN platforms :
            /\ Checked(world.solutions[i])
            /\ IsInjective(platforms[i])
            /\ Option("platform") # Nil => {"Native", Option("platform")} \subseteq Range(platforms[i])
       /\ ran = [i \in 1 .. Len(ran) |-> i]
  /\ z = 0 => \/ Len(ran) = Len(platforms) /\ actn \in DOMAIN Actions
              \/ ran = <<>> /\ \E a \in Range(world.argv) : a.lead \in {"/", "--"} /\ a.key \in {"help", "version"}
              \/ ran = <<>> /\ \A a \in Range(world.argv) : a.lead \in {"/", "--"}
              \/ ran = <<>> /\ collectargs.script # Ours
  /\ pc = "closed" => z \in {0, 1}

\* A result has a meaning, where the root may be written as the empty string.
Keeps(result, meaning) == Meaning(result) = meaning \/ (meaning = <<"/">> /\ result = <<>>)

\* The path climbs out of the root on its way.
OutOfRoot(p) == ".." \in Range(FoldLeft(Step, <<>>, SelectSeq(Parts(p), LAMBDA c : c \notin Drives)))

\* The places of two paths have a directory in common, or a drive.
Related(p, q) == \E i \in {1, 2} : i <= Len(p) /\ i <= Len(q) /\ SubSeq(p, 1, i) = SubSeq(q, 1, i) /\ p[i] # "/"

\* The path functions keep the meaning of paths: an absolute path leads to where
\* the path led, a normalized one too, a joined one to where q leads from p, a
\* relative one from p to q leads to q, a rebased one from the new base to where
\* the path led from the old one. Not claimed, because it is not so: .. behind a
\* macro removes it; a second leading .. removes the first; a relative q is
\* returned as it is if it has nothing in common with p (wetgenes/path.lua:208-322,
\* puremake/path.lua:13-103, 263-267).
PathsKeepMeaning ==
  answer # Nil =>
    LET p == answer.p
        q == answer.q
        result == answer.r
        Full(base, x) == IF isabsolute(x) THEN x ELSE base \o <<"/">> \o x
        Relates(a, b, cur, r) ==
          LET x == Full(cur, a)
              y == Full(cur, b)
          IN /\ Range(a \o b) \cap Macros = {}
             /\ Meaning(y) # <<"/">>
             /\ isabsolute(b) \/ (Related(Meaning(x), Meaning(y)) /\ ~OutOfRoot(x) /\ ~OutOfRoot(y))
             => From(getabsolute(a, cur), r) = Meaning(y)
    IN CASE answer.fn = "absolute"  -> Tame(p) => Keeps(result, From(q, p))
         [] answer.fn = "normalize" ->
              /\ Tame(p) /\ Leaves(p) <= 1 => Keeps(result, Meaning(p))
              /\ \A i \in DOMAIN result : result[i] # "." /\ (i > 1 /\ result[i] = "/" => result[i - 1] # "/")
         [] answer.fn = "join" ->
              Tame(Full(p, q)) /\ Leaves(Full(p, q)) <= 1 => Keeps(result, Meaning(Full(p, q)))
         [] answer.fn = "relative" -> Relates(p, q, answer.at, result)
         [] answer.fn = "rebase" ->
              Leaves(Full(answer.old, p)) <= 1 => Relates(answer.new, Spell(From(q, Full(answer.old, p))), q, result)
         [] OTHER -> TRUE

\* string.find and match return the leftmost match and, of the ways to match
\* there, the one the pattern prefers, with its captures, although one array of
\* captures serves all attempts; and they raise an error only when the attempts
\* up to that one run into it. (A lone closing bracket is an error for match and
\* plain text for find, if nothing else in the pattern is special.)
FindsPreferred ==
  answer # Nil /\ answer.fn = "find" =>
    LET start == IF answer.init = 1 THEN 1 ELSE Max({1, Len(answer.q)})
        plain == answer.find /\ Range(Written(answer.p)) \cap Specials = {}
    IN answer.r = Meant(IF plain THEN AsText(answer.p) ELSE answer.p, answer.q, start, answer.find)

\* string.gsub replaces exactly what string.gmatch finds, empty matches included,
\* up to its limit and only once if the pattern is anchored, and keeps the rest.
GsubReplacesMatches ==
  answer # Nil /\ answer.fn = "gsub" =>
    LET first   == str_find_aux(answer.q, Written(answer.p), 1, FALSE)
        all     == IF ~answer.p.anchor THEN gmatch(answer.q, Written(answer.p), 1)
                   ELSE IF first = NotFound THEN <<>> ELSE <<first>>
        Value(m) ==
          LET v   == m.values[1]
              hit == answer.repl.kind = "table" /\ v.text \in DOMAIN answer.repl.map
          IN IF hit THEN answer.repl.map[v.text]
             ELSE IF answer.repl.kind = "table" THEN SubSeq(answer.q, m.from, m.to)
             ELSE IF v.pos > 0 THEN <<ToString(v.pos), "x">> ELSE Append(v.text, "x")
    IN \A matches \in {SubSeq(all, 1, Min({answer.max_s, Len(all)}))} :
         \/ Contains(matches, Error)
         \/ answer.r = [text |-> Replaced(answer.q, matches, Value), n |-> Len(matches), err |-> FALSE]

\* os.matchfiles finds the files below the directory, each exactly once, although
\* listings of the directories on the way stay open while others are read: with
\* ** those on whose way no directory's name begins with a dot, with * those of
\* the directory itself. Not claimed of names that look like an absolute path:
\* they are taken for the file of that name in the working directory, which is
\* then found again (puremake/os.lua:344-399).
WalkFindsAll ==
  answer # Nil /\ answer.fn = "match" =>
    LET base   == answer.p
        Way(f) == SubSeq(f, Len(base) + 1, Len(f))
        Plain(f) == \A i \in DOMAIN f : i > 1 => ~isabsolute(<<f[i]>>)
        Finds(f) ==
          /\ IsStrictPrefix(base, f)
          /\ found.recurse \/ Len(Way(f)) = 1
          /\ \A i \in 1 .. Len(Way(f)) - 1 : Way(f)[i] \notin Hidden
        plain == SelectSeq(answer.r, Plain)
    IN /\ IsInjective(plain)
       /\ Range(plain) = {f \in answer.q : Plain(f) /\ Finds(f)}
       /\ walks = <<>>

=============================================================================
