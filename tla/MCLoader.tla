------------------------------ MODULE MCLoader -------------------------------
(* The modules of lua/, two of a project's own, and places they are found at.  *)
EXTENDS Loader

CONSTANTS path, wpath, wroot, any, lfs, ffi, one, two, off

\* one and two require each other; off is a module that returns false.
MCModules == {path, wpath, any, lfs, ffi, one, two, off}

MCRequires ==
  [m \in MCModules \cup {Main} |->
     CASE m = Main -> {any, path, lfs, one, off}
       [] m = path -> {wpath}
       [] m = wpath -> {any}
       [] m = one -> {two, wpath}
       [] m = two -> {one, off}
       [] OTHER -> {}]

MCStyle ==
  [m \in MCModules |->
     CASE m \in {path, wpath, one} -> "registers"
       [] m \in {lfs, ffi} -> "returns"
       [] m = any -> "picks"
       [] m = two -> "none"
       [] m = off -> "denies"]

MCRoot == [m \in MCModules |-> IF m = wpath THEN wroot ELSE m]
MCCandidates == <<lfs, ffi>>

Files(names) == [m \in names |-> "chunk"]
Own == {path, wpath, any, ffi}
Scripts == {one, two, off}
World(preload, env, default, cpath) ==
  [preload |-> preload, LUA_PATH |-> env, default |-> default, cpath |-> cpath]
Lib(name, opens) == [m \in {name} |-> [loads |-> TRUE, opens |-> opens]]
Broken(name)     == [m \in {name} |-> [loads |-> FALSE, opens |-> {}]]

\* puremake.sh sets LUA_PATH to its own directory and ";;".
MCWorlds ==
  { \* the sources, an older path installed, lfs as a library
    World({}, <<Files(Own), Default>>, <<Files(Scripts), Files({path} \cup Scripts)>>, <<Lib(lfs, {lfs})>>),
    \* the single file: everything preloaded; no lfs
    World(Own, Nil, <<[m \in Own |-> "broken"], Files(Scripts)>>, <<>>),
    \* a library that does not load, one template after another
    World({}, <<Default, Files(Own)>>, <<Files(Scripts)>>, <<Broken(lfs), Lib(lfs, {lfs})>>),
    \* neither lfs; wetgenes is one library
    World({any}, <<Files({path}), Default>>, <<[m \in {ffi} |-> "broken"], Files({one, two})>>,
          <<Lib(wroot, {wpath})>>),
    \* a library of the root without the module, and one that does not load
    World({}, <<Files({path, any}), Default>>, <<Files(Scripts)>>, <<Lib(wroot, {wroot}), Lib(lfs, {lfs})>>),
    World({}, <<Files({path, any}), Default>>, <<Files(Scripts)>>, <<Broken(wroot), Lib(lfs, {})>>) }

================================================================================
