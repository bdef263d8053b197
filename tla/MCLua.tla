-------------------------------- MODULE MCLua --------------------------------
(***************************************************************************)
(* The programs of LuaPrograms, compiled and run with small limits.        *)
(***************************************************************************)
EXTENDS LuaVM

P == INSTANCE LuaPrograms

MCChunks == P!Programs

Library == {"print", "error", "setmetatable", "unpack", "select", "pcall",
            "create", "status", "resume", "yield"}
MCGlobals == [n \in {String(s) : s \in Library} |-> <<"cfunction", n[2]>>]

================================================================================
