------------------------------- MODULE LuaCheck -------------------------------
(***************************************************************************)
(* The verifier of the embedded Lua interpreter (ldebug.c), which the      *)
(* compiler asserts to accept every function it makes: the virtual machine *)
(* itself trusts the code. Only the full check is modelled, not the search *)
(* for the instruction that last changed a register. A batch number that   *)
(* follows a SETLIST is a word DATA, which is no instruction.              *)
(***************************************************************************)
EXTENDS LuaCode

\* luaP_opmodes: what the operands b and c are. A register, a register or a
\* constant, not used, or used for something else.
Binary == {"ADD", "SUB", "MUL", "DIV", "MOD", "POW", "EQ", "LT", "LE", "SETTABLE"}

getBMode(op) ==
  CASE op \in {"MOVE", "LOADNIL", "GETTABLE", "SELF", "UNM", "NOT", "LEN", "CONCAT", "JMP", "TEST",
               "TESTSET", "FORLOOP", "FORPREP"} -> "OpArgR"
    [] op \in Binary \cup {"LOADK", "GETGLOBAL", "SETGLOBAL"} -> "OpArgK"
    [] op \in {"TFORLOOP", "CLOSE"} -> "OpArgN"
    [] OTHER -> "OpArgU"

getCMode(op) ==
  CASE op \in Binary \cup {"GETTABLE", "SELF"} -> "OpArgK"
    [] op = "CONCAT" -> "OpArgR"
    [] op \in {"LOADBOOL", "NEWTABLE", "TEST", "TESTSET", "CALL", "TAILCALL", "TFORLOOP", "SETLIST"} -> "OpArgU"
    [] OTHER -> "OpArgN"

getOpMode(op) ==
  CASE op \in {"LOADK", "GETGLOBAL", "SETGLOBAL", "CLOSURE"} -> "iABx"
    [] op \in {"JMP", "FORLOOP", "FORPREP"} -> "iAsBx"
    [] OTHER -> "iABC"

--------------------------------------------------------------------------------

checkreg(pt, reg) == reg < pt.maxstacksize

precheck(pt) ==
  /\ pt.maxstacksize <= MAXSTACK
  /\ pt.numparams + (IF "HASARG" \in pt.is_vararg THEN 1 ELSE 0) <= pt.maxstacksize
  /\ "NEEDSARG" \in pt.is_vararg => "HASARG" \in pt.is_vararg
  /\ pt.code # <<>> /\ Last(pt.code).op = "RETURN"

\* Instructions that take all the values up to the top.
luaG_checkopenop(i) == i.op \in {"CALL", "TAILCALL", "RETURN", "SETLIST"} /\ i.b = 0

checkArgMode(pt, r, mode) ==
  CASE mode = "OpArgN" -> r = 0
    [] mode = "OpArgU" -> TRUE
    [] mode = "OpArgR" -> checkreg(pt, r)
    [] mode = "OpArgK" -> IF ISK(r) THEN r - BITRK < Len(pt.k) ELSE checkreg(pt, r)

\* A jump stays inside the function and does not hit a batch number.
checkjump(pt, dest) == dest \in 0 .. Len(pt.code) - 1 /\ pt.code[dest + 1].op # "DATA"

Operands(pt, pc, i) ==
  CASE getOpMode(i.op) = "iABC"  -> /\ checkArgMode(pt, i.b, getBMode(i.op))
                                    /\ checkArgMode(pt, i.c, getCMode(i.op))
    [] getOpMode(i.op) = "iABx"  -> getBMode(i.op) = "OpArgK" => i.b < Len(pt.k)
    [] getOpMode(i.op) = "iAsBx" -> checkjump(pt, pc + 1 + i.b)

\* The results of a call or of ...: an open number of them is taken by the next
\* instruction, whose place in the sequence is pc + 2.
Results(pt, pc, a, n) ==
  IF n = LUA_MULTRET THEN luaG_checkopenop(pt.code[pc + 2]) ELSE n # 0 => checkreg(pt, a + n - 1)

Particular(pt, pc, i) ==
  CASE i.op = "LOADBOOL" -> i.c = 1 => pc + 2 < Len(pt.code) /\ checkjump(pt, pc + 2)
    [] i.op \in {"GETUPVAL", "SETUPVAL"} -> i.b < pt.nups
    [] i.op \in {"GETGLOBAL", "SETGLOBAL"} -> pt.k[i.b + 1][1] = "string"
    [] i.op = "SELF" -> checkreg(pt, i.a + 1)
    [] i.op = "CONCAT" -> i.b < i.c
    [] i.op = "TFORLOOP" -> i.c >= 1 /\ checkreg(pt, i.a + 2 + i.c)
    [] i.op \in {"FORLOOP", "FORPREP"} -> checkreg(pt, i.a + 3)
    [] i.op \in {"CALL", "TAILCALL"} -> (i.b # 0 => checkreg(pt, i.a + i.b - 1)) /\ Results(pt, pc, i.a, i.c - 1)
    [] i.op = "RETURN" -> i.b > 1 => checkreg(pt, i.a + i.b - 2)
    [] i.op = "SETLIST" -> (i.b > 0 => checkreg(pt, i.a + i.b)) /\ (i.c = 0 => pc + 1 < Len(pt.code) - 1)
    [] i.op = "CLOSURE" -> /\ i.b < Len(pt.p)
                           /\ pc + pt.p[i.b + 1].nups < Len(pt.code)
                           /\ \A j \in 1 .. pt.p[i.b + 1].nups : pt.code[pc + j + 1].op \in {"GETUPVAL", "MOVE"}
    [] i.op = "VARARG" -> /\ "ISVARARG" \in pt.is_vararg /\ "NEEDSARG" \notin pt.is_vararg
                          /\ Results(pt, pc, i.a, i.b - 1)
    [] OTHER -> TRUE

\* symbexec with no register to trace: every instruction is looked at in its turn.
CheckInstruction(pt, pc, i) ==
  /\ checkreg(pt, i.a)
  /\ Operands(pt, pc, i)
  /\ i.op \in testTMode => pc + 2 < Len(pt.code) /\ pt.code[pc + 2].op = "JMP"
  /\ Particular(pt, pc, i)

luaG_checkcode(pt) ==
  /\ precheck(pt)
  /\ \A n \in DOMAIN pt.code : pt.code[n].op # "DATA" => CheckInstruction(pt, n - 1, pt.code[n])

================================================================================
