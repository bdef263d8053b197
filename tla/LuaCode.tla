------------------------------- MODULE LuaCode -------------------------------
(***************************************************************************)
(* The code generator of the Lua interpreter that the host embeds          *)
(* (lcode.c, lopcodes.h). Every function takes the state s of the compiler *)
(* and returns the next one: s.fs is the FuncState of the function being   *)
(* compiled, s.e the expression descriptor the C function is given. Lines  *)
(* and names for the debugger are left out.                                *)
(***************************************************************************)
EXTENDS Integers, Sequences, SequencesExt

CONSTANTS
  LUAI_MAXVARS, LUAI_MAXUPVALUES, LUAI_MAXCCALLS,   \* luaconf.h
  MAXSTACK, LFIELDS_PER_FLUSH,                      \* lparser.c, lopcodes.h
  MAXINDEXRK, MAXARG_sBx, MAXARG_C                  \* lopcodes.h

NO_JUMP == -1
NO_REG == 255
LUA_MULTRET == -1
BITRK == 256

\* An instruction; b holds Bx or sBx in instructions that have one.
Instr(op, a, b, c) == [op |-> op, a |-> a, b |-> b, c |-> c]

\* Instructions that are followed by a jump.
testTMode == {"EQ", "LT", "LE", "TEST", "TESTSET", "TFORLOOP"}

ISK(x) == x >= BITRK

\* The first error wins and ends the compilation: no token is left to read.
Fail(s, msg) == [s EXCEPT !.err = IF @ = "" THEN msg ELSE @, !.tok.t = "eos", !.toks = <<>>]

\* lua_assert: a failure is only noted, as the program is built without it.
Assert_(s, p) == [s EXCEPT !.ok = @ /\ (p \/ s.err # "")]

Pc(s) == Len(s.fs.code)
LastPc(s) == Len(s.fs.code) - 1
At(s, pc) == s.fs.code[pc + 1]

--------------------------------------------------------------------------------
(* Jumps. A list of jumps is threaded through their offsets.                   *)

getjump(code, pc) == IF code[pc + 1].b = NO_JUMP THEN NO_JUMP ELSE pc + 1 + code[pc + 1].b

\* The last jump of a list.
RECURSIVE LastJump(_, _)
LastJump(code, list) ==
  IF code[list + 1].b = NO_JUMP THEN list ELSE LastJump(code, getjump(code, list))

fixjump(s, pc, dest) ==
  LET offset == dest - (pc + 1)
  IN IF offset > MAXARG_sBx \/ -offset > MAXARG_sBx THEN Fail(s, "control structure too long")
     ELSE Assert_([s EXCEPT !.fs.code[pc + 1].b = offset], dest # NO_JUMP)

luaK_getlabel(s) == [s EXCEPT !.fs.lasttarget = Pc(s)]

\* The position of the instruction that decides whether the jump is taken.
getjumpcontrol(code, pc) == IF pc >= 1 /\ code[pc].op \in testTMode THEN pc - 1 ELSE pc

IsTestset(code, pc) == code[getjumpcontrol(code, pc) + 1].op = "TESTSET"

RECURSIVE need_value(_, _)
need_value(s, list) ==
  list # NO_JUMP /\ (~IsTestset(s.fs.code, list) \/ need_value(s, getjump(s.fs.code, list)))

patchtestreg(s, node, reg) ==
  LET c == getjumpcontrol(s.fs.code, node)
      i == At(s, c)
  IN IF ~IsTestset(s.fs.code, node) THEN s
     ELSE [s EXCEPT !.fs.code[c + 1] = IF reg # NO_REG /\ reg # i.b THEN [i EXCEPT !.a = reg]
                                       ELSE Instr("TEST", i.b, 0, i.c)]

RECURSIVE removevalues(_, _)
removevalues(s, list) ==
  IF list = NO_JUMP THEN s
  ELSE removevalues(patchtestreg(s, list, NO_REG), getjump(s.fs.code, list))

RECURSIVE patchlistaux(_, _, _, _, _)
patchlistaux(s, list, vtarget, reg, dtarget) ==
  IF list = NO_JUMP THEN s
  ELSE patchlistaux(fixjump(patchtestreg(s, list, reg), list,
                            IF IsTestset(s.fs.code, list) THEN vtarget ELSE dtarget),
                    getjump(s.fs.code, list), vtarget, reg, dtarget)

dischargejpc(s) ==
  [patchlistaux(s, s.fs.jpc, Pc(s), NO_REG, Pc(s)) EXCEPT !.fs.jpc = NO_JUMP]

\* The head of two lists put together, and what that does to the code.
Joined(l1, l2) == IF l1 = NO_JUMP THEN l2 ELSE l1

luaK_concat(s, l1, l2) ==
  IF l1 = NO_JUMP \/ l2 = NO_JUMP THEN s ELSE fixjump(s, LastJump(s.fs.code, l1), l2)

luaK_patchtohere(s, list) ==
  [luaK_concat(luaK_getlabel(s), s.fs.jpc, list) EXCEPT !.fs.jpc = Joined(s.fs.jpc, list)]

luaK_patchlist(s, list, target) ==
  IF target = Pc(s) THEN luaK_patchtohere(s, list)
  ELSE Assert_(patchlistaux(s, list, target, NO_REG, target), target < Pc(s))

luaK_code(s, i) == [dischargejpc(s) EXCEPT !.fs.code = Append(@, i)]

\* Jumps to here are kept on hold and share the fate of the new jump.
luaK_jump(s) ==
  LET Hold(t) == luaK_concat(t, LastPc(t), s.fs.jpc)
  IN Hold(luaK_code([s EXCEPT !.fs.jpc = NO_JUMP], Instr("JMP", 0, NO_JUMP, 0)))

condjump(s, op, a, b, c) == luaK_jump(luaK_code(s, Instr(op, a, b, c)))

luaK_ret(s, first, nret) == luaK_code(s, Instr("RETURN", first, nret + 1, 0))

--------------------------------------------------------------------------------
(* Registers and constants.                                                    *)

luaK_checkstack(s, n) ==
  LET newstack == s.fs.freereg + n
  IN IF newstack <= s.fs.maxstacksize THEN s
     ELSE IF newstack >= MAXSTACK THEN Fail(s, "function or expression too complex")
     ELSE [s EXCEPT !.fs.maxstacksize = newstack]

\* Mutant: registers are taken without room for them on the stack.
ReserveUnchecked(s, n) == [s EXCEPT !.fs.freereg = @ + n]

luaK_reserveregs(s, n) == [luaK_checkstack(s, n) EXCEPT !.fs.freereg = @ + n]

freereg(s, reg) ==
  IF ISK(reg) \/ reg < s.fs.nactvar THEN s
  ELSE Assert_([s EXCEPT !.fs.freereg = @ - 1], reg = s.fs.freereg - 1)

freeexp(s, e) == IF e.k = "VNONRELOC" THEN freereg(s, e.info) ELSE s

\* A constant is entered once; luaK_stringK, luaK_numberK, boolK and nilK.
addk(s, v) == IF Contains(s.fs.k, v) THEN s ELSE [s EXCEPT !.fs.k = Append(@, v)]
KIndex(s, v) == SelectInSeq(s.fs.k, LAMBDA x : x = v) - 1

\* Nil goes into registers that are not known to be clean, and an instruction
\* before that does the same is extended.
luaK_nil(s, from, n) ==
  LET before == At(s, LastPc(s))
      free   == Pc(s) > s.fs.lasttarget
  IN IF free /\ Pc(s) = 0 /\ from >= s.fs.nactvar THEN s
     ELSE IF free /\ Pc(s) > 0 /\ before.op = "LOADNIL" /\ before.a <= from /\ from <= before.b + 1
     THEN [s EXCEPT !.fs.code[Pc(s)].b = IF from + n - 1 > @ THEN from + n - 1 ELSE @]
     ELSE luaK_code(s, Instr("LOADNIL", from, from + n - 1, 0))

--------------------------------------------------------------------------------
(* Expressions. k is the kind, info and aux where the value is, t and f the    *)
(* jumps taken when it is true and when it is false.                           *)

init_exp(k, i) == [k |-> k, info |-> i, aux |-> 0, nval |-> 0, t |-> NO_JUMP, f |-> NO_JUMP]
As(s, k, i) == [s EXCEPT !.e.k = k, !.e.info = i]
With(s, e) == [s EXCEPT !.e = e]

hasjumps(e) == e.t # e.f
isnumeral(e) == e.k = "VKNUM" /\ e.t = NO_JUMP /\ e.f = NO_JUMP

\* The instruction just written delivers the value, to a register not yet chosen.
Relocatable(s) == As(s, "VRELOCABLE", LastPc(s))

luaK_setreturns(s, nresults) ==
  CASE s.e.k = "VCALL" -> [s EXCEPT !.fs.code[s.e.info + 1].c = nresults + 1]
    [] s.e.k = "VVARARG" ->
         luaK_reserveregs([s EXCEPT !.fs.code[s.e.info + 1].b = nresults + 1,
                                    !.fs.code[s.e.info + 1].a = s.fs.freereg], 1)
    [] OTHER -> s

luaK_setoneret(s) ==
  CASE s.e.k = "VCALL" -> As(s, "VNONRELOC", At(s, s.e.info).a)
    [] s.e.k = "VVARARG" -> [s EXCEPT !.fs.code[s.e.info + 1].b = 2, !.e.k = "VRELOCABLE"]
    [] OTHER -> s

luaK_dischargevars(s) ==
  LET i == s.e.info
  IN CASE s.e.k = "VLOCAL" -> [s EXCEPT !.e.k = "VNONRELOC"]
       [] s.e.k \in {"VUPVAL", "VGLOBAL", "VINDEXED"} ->
            Relocatable(luaK_code(IF s.e.k = "VINDEXED" THEN freereg(freereg(s, s.e.aux), i) ELSE s,
              CASE s.e.k = "VUPVAL"   -> Instr("GETUPVAL", 0, i, 0)
                [] s.e.k = "VGLOBAL"  -> Instr("GETGLOBAL", 0, i, 0)
                [] s.e.k = "VINDEXED" -> Instr("GETTABLE", 0, i, s.e.aux)))
       [] s.e.k \in {"VVARARG", "VCALL"} -> luaK_setoneret(s)
       [] OTHER -> s

LoadInto(s, reg, i) == As(luaK_code(s, i), "VNONRELOC", reg)
LoadK(s, reg, v) == LoadInto(s, reg, Instr("LOADK", reg, KIndex(s, v), 0))

\* The value goes to a register, unless it is only a jump.
Discharged2reg(s, reg) ==
  CASE s.e.k = "VNIL" -> As(luaK_nil(s, reg, 1), "VNONRELOC", reg)
    [] s.e.k = "VKNUM" -> LoadK(addk(s, <<"number", s.e.nval>>), reg, <<"number", s.e.nval>>)
    [] s.e.k = "VRELOCABLE" -> As([s EXCEPT !.fs.code[s.e.info + 1].a = reg], "VNONRELOC", reg)
    [] s.e.k \in {"VVOID", "VJMP"} \/ (s.e.k = "VNONRELOC" /\ s.e.info = reg) -> s
    [] OTHER -> LoadInto(s, reg, CASE s.e.k = "VFALSE" -> Instr("LOADBOOL", reg, 0, 0)
                                   [] s.e.k = "VTRUE" -> Instr("LOADBOOL", reg, 1, 0)
                                   [] s.e.k = "VK" -> Instr("LOADK", reg, s.e.info, 0)
                                   [] s.e.k = "VNONRELOC" -> Instr("MOVE", reg, s.e.info, 0))

discharge2reg(s, reg) == Discharged2reg(luaK_dischargevars(s), reg)

discharge2anyreg(s) ==
  IF s.e.k = "VNONRELOC" THEN s ELSE discharge2reg(luaK_reserveregs(s, 1), s.fs.freereg)

\* The value goes to a register, whichever way it is reached: jumps that bring no
\* value are led to instructions that load true or false.
LoadBool(s, reg, b, skip) == luaK_code(luaK_getlabel(s), Instr("LOADBOOL", reg, b, skip))

PatchBoth(s, reg, p_f, p_t) ==
  patchlistaux(patchlistaux(luaK_getlabel(s), s.e.f, Pc(s), reg, p_f), s.e.t, Pc(s), reg, p_t)

LoadBools(s, reg, fj) ==
  PatchBoth(luaK_patchtohere(LoadBool(LoadBool(s, reg, 0, 1), reg, 1, 0), fj), reg, Pc(s), Pc(s) + 1)

Resolve(s, reg) ==
  IF ~hasjumps(s.e) THEN s
  ELSE IF ~need_value(s, s.e.t) /\ ~need_value(s, s.e.f) THEN PatchBoth(s, reg, NO_JUMP, NO_JUMP)
  ELSE LoadBools(IF s.e.k = "VJMP" THEN s ELSE luaK_jump(s), reg,
                 IF s.e.k = "VJMP" THEN NO_JUMP ELSE Pc(s))

JumpIsTrue(s) == IF s.e.k # "VJMP" THEN s
                 ELSE [luaK_concat(s, s.e.t, s.e.info) EXCEPT !.e.t = Joined(@, s.e.info)]

exp2reg(s, reg) ==
  With(Resolve(JumpIsTrue(discharge2reg(s, reg)), reg), init_exp("VNONRELOC", reg))

ToNextReg(s) == exp2reg(luaK_reserveregs(s, 1), s.fs.freereg)
FreeExp(s) == freeexp(s, s.e)

luaK_exp2nextreg(s) == ToNextReg(FreeExp(luaK_dischargevars(s)))

ToAnyReg(s) == IF s.e.k = "VNONRELOC" /\ ~hasjumps(s.e) THEN s
               ELSE IF s.e.k = "VNONRELOC" /\ s.e.info >= s.fs.nactvar THEN exp2reg(s, s.e.info)
               ELSE luaK_exp2nextreg(s)

luaK_exp2anyreg(s) == ToAnyReg(luaK_dischargevars(s))

luaK_exp2val(s) == IF hasjumps(s.e) THEN luaK_exp2anyreg(s) ELSE luaK_dischargevars(s)

\* What the operand of an instruction is, after luaK_exp2RK.
RK(e) == IF e.k = "VK" THEN BITRK + e.info ELSE e.info

ConstantOf(e) == CASE e.k = "VNIL" -> <<"nil", 0>> [] e.k = "VKNUM" -> <<"number", e.nval>>
                   [] OTHER -> <<"boolean", e.k = "VTRUE">>
AsConstant(s, v) == As(s, "VK", KIndex(s, v))

ToRK(s) ==
  IF s.e.k \in {"VKNUM", "VTRUE", "VFALSE", "VNIL"} /\ Len(s.fs.k) <= MAXINDEXRK
  THEN AsConstant(addk(s, ConstantOf(s.e)), ConstantOf(s.e))
  ELSE IF s.e.k = "VK" /\ s.e.info <= MAXINDEXRK THEN s
  ELSE luaK_exp2anyreg(s)

luaK_exp2RK(s) == ToRK(luaK_exp2val(s))

\* Stores the value of the expression in a variable.
StoreNamed(s, var) ==
  luaK_code(s, Instr(IF var.k = "VUPVAL" THEN "SETUPVAL" ELSE "SETGLOBAL", s.e.info, var.info, 0))
StoreIndexed(s, var) == luaK_code(s, Instr("SETTABLE", var.info, var.aux, RK(s.e)))

luaK_storevar(s, var) ==
  CASE var.k = "VLOCAL" -> exp2reg(FreeExp(s), var.info)
    [] var.k \in {"VUPVAL", "VGLOBAL"} -> FreeExp(StoreNamed(luaK_exp2anyreg(s), var))
    [] var.k = "VINDEXED" -> FreeExp(StoreIndexed(luaK_exp2RK(s), var))
    [] OTHER -> s

Indexed(s, t) == With(s, [t EXCEPT !.k = "VINDEXED", !.aux = RK(s.e)])
luaK_indexed(s, t) == Indexed(luaK_exp2RK(s), t)

\* The method of a value, with the value as the first argument.
SelfCall(s, func, obj) ==
  As(With(freeexp(luaK_code(s, Instr("SELF", func, obj.info, RK(s.e))), s.e), obj), "VNONRELOC", func)
SelfOf(s, key, obj) == SelfCall(luaK_exp2RK(With(luaK_reserveregs(s, 2), key)), s.fs.freereg, obj)
SelfFree(s, key) == SelfOf(FreeExp(s), key, s.e)

luaK_self(s, key) == SelfFree(luaK_exp2anyreg(s), key)

--------------------------------------------------------------------------------
(* Conditions.                                                                 *)

invertjump(s) == [s EXCEPT !.fs.code[getjumpcontrol(s.fs.code, s.e.info) + 1].a = 1 - @]

\* A jump if the value is as cond says; a NOT just written is undone instead.
JumpOn(s, cond) == condjump(FreeExp(s), "TESTSET", NO_REG, s.e.info, cond)

jumponcond(s, cond) ==
  IF s.e.k = "VRELOCABLE" /\ At(s, s.e.info).op = "NOT"
  THEN condjump([s EXCEPT !.fs.code = Front(@)], "TEST", At(s, s.e.info).b, 0, 1 - cond)
  ELSE JumpOn(discharge2anyreg(s), cond)

\* Go through when true, jump when false: the jump at pc joins those taken when
\* the value is false, and the others lead here.
FalseExit(s, pc) ==
  [luaK_patchtohere(luaK_concat(s, s.e.f, pc), s.e.t) EXCEPT !.e.f = Joined(@, pc), !.e.t = NO_JUMP]
FalseExitLast(s) == FalseExit(s, LastPc(s))

GoIfTrue(s) ==
  CASE s.e.k \in {"VK", "VKNUM", "VTRUE"} -> FalseExit(s, NO_JUMP)
    [] s.e.k = "VJMP" -> FalseExit(invertjump(s), s.e.info)
    [] OTHER -> FalseExitLast(IF s.e.k = "VFALSE" THEN luaK_jump(s) ELSE jumponcond(s, 0))

luaK_goiftrue(s) == GoIfTrue(luaK_dischargevars(s))

TrueExit(s, pc) ==
  [luaK_patchtohere(luaK_concat(s, s.e.t, pc), s.e.f) EXCEPT !.e.t = Joined(@, pc), !.e.f = NO_JUMP]
TrueExitLast(s) == TrueExit(s, LastPc(s))

GoIfFalse(s) ==
  CASE s.e.k \in {"VNIL", "VFALSE"} -> TrueExit(s, NO_JUMP)
    [] s.e.k = "VJMP" -> TrueExit(s, s.e.info)
    [] OTHER -> TrueExitLast(IF s.e.k = "VTRUE" THEN luaK_jump(s) ELSE jumponcond(s, 1))

luaK_goiffalse(s) == GoIfFalse(luaK_dischargevars(s))

CodeNot(s) == Relocatable(luaK_code(FreeExp(s), Instr("NOT", 0, s.e.info, 0)))

Negated(s) ==
  CASE s.e.k \in {"VNIL", "VFALSE"} -> [s EXCEPT !.e.k = "VTRUE"]
    [] s.e.k \in {"VK", "VKNUM", "VTRUE"} -> [s EXCEPT !.e.k = "VFALSE"]
    [] s.e.k = "VJMP" -> invertjump(s)
    [] s.e.k \in {"VRELOCABLE", "VNONRELOC"} -> CodeNot(discharge2anyreg(s))
    [] OTHER -> Assert_(s, FALSE)

\* The jumps change places, and none of them brings a value any more.
SwapJumps(s) == removevalues(removevalues([s EXCEPT !.e.t = s.e.f, !.e.f = s.e.t], s.e.t), s.e.f)

codenot(s) == SwapJumps(Negated(luaK_dischargevars(s)))

--------------------------------------------------------------------------------
(* Operators.                                                                  *)

\* Arithmetic on numbers, which are integers here: a quotient is only asked for
\* where it is one, and Huge stands for infinity.
Huge == 1000000

numarith(op, a, b) ==
  CASE op = "ADD" -> a + b [] op = "SUB" -> a - b [] op = "MUL" -> a * b
    [] op = "DIV" -> IF b = 0 THEN Huge ELSE a \div b
    [] op = "MOD" -> IF b = 0 THEN Huge ELSE a % b
    [] op = "POW" -> a ^ b [] op = "UNM" -> -a

\* Two numerals are computed here, except that nothing is divided by zero.
constfolding(op, e1, e2) ==
  isnumeral(e1) /\ isnumeral(e2) /\ op # "LEN" /\ ~(op \in {"DIV", "MOD"} /\ e2.nval = 0)

\* Both operands are in place; the one in the higher register is freed first.
ArithCode(s, op, e1, e2, o1, o2) ==
  Relocatable(With(luaK_code(IF o1 > o2 THEN freeexp(freeexp(s, e1), e2)
                             ELSE freeexp(freeexp(s, e2), e1),
                             Instr(op, 0, o1, o2)), e1))
ArithDone(s, op, e2, o2) == ArithCode(s, op, s.e, e2, RK(s.e), o2)
ArithFirst(s, op, e1, o2) == ArithDone(luaK_exp2RK(With(s, e1)), op, s.e, o2)
ArithSecond(s, op, e1) == ArithFirst(s, op, e1, RK(s.e))

codearith(s, op, e1, e2) ==
  IF constfolding(op, e1, e2) THEN With(s, [e1 EXCEPT !.nval = numarith(op, e1.nval, e2.nval)])
  ELSE IF op \in {"UNM", "LEN"} THEN ArithFirst(With(s, e2), op, e1, 0)
  ELSE ArithSecond(luaK_exp2RK(With(s, e2)), op, e1)

CompCode(s, op, cond, e1, e2) ==
  As(With(IF cond = 0 /\ op # "EQ"
          THEN condjump(freeexp(freeexp(s, e2), e1), op, 1, RK(e2), RK(e1))
          ELSE condjump(freeexp(freeexp(s, e2), e1), op, cond, RK(e1), RK(e2)), e1),
     "VJMP", Pc(s) + 1)
CompSecond(s, op, cond, e1) == CompCode(s, op, cond, e1, s.e)
CompFirst(s, op, cond, e2) == CompSecond(luaK_exp2RK(With(s, e2)), op, cond, s.e)

codecomp(s, op, cond, e1, e2) == CompFirst(luaK_exp2RK(With(s, e1)), op, cond, e2)

zero == [init_exp("VKNUM", 0) EXCEPT !.nval = 0]
Prefixed(s, op) == codearith(s, op, s.e, zero)

luaK_prefix(s, op) ==
  IF op = "not" THEN codenot(s)
  ELSE Prefixed(IF op = "-" /\ isnumeral(s.e) THEN s ELSE luaK_exp2anyreg(s),
                IF op = "-" THEN "UNM" ELSE "LEN")

Arithmetic == [op \in {"+", "-", "*", "/", "%", "^"} |->
  CASE op = "+" -> "ADD" [] op = "-" -> "SUB" [] op = "*" -> "MUL" [] op = "/" -> "DIV"
    [] op = "%" -> "MOD" [] op = "^" -> "POW"]

luaK_infix(s, op) ==
  CASE op = "and" -> luaK_goiftrue(s)
    [] op = "or"  -> luaK_goiffalse(s)
    [] op = ".."  -> luaK_exp2nextreg(s)
    [] OTHER -> IF op \in DOMAIN Arithmetic /\ isnumeral(s.e) THEN s ELSE luaK_exp2RK(s)

AndJoined(s, e1) ==
  [luaK_concat(Assert_(s, e1.t = NO_JUMP), s.e.f, e1.f) EXCEPT !.e.f = Joined(@, e1.f)]
OrJoined(s, e1) ==
  [luaK_concat(Assert_(s, e1.f = NO_JUMP), s.e.t, e1.t) EXCEPT !.e.t = Joined(@, e1.t)]

ConcatTwo(s, e1) == codearith(s, "CONCAT", e1, s.e)

\* Concatenations in a row become one instruction over all their operands.
Concatenated(s, e1) ==
  IF s.e.k = "VRELOCABLE" /\ At(s, s.e.info).op = "CONCAT"
  THEN With([Assert_(freeexp(s, e1), e1.info = At(s, s.e.info).b - 1)
               EXCEPT !.fs.code[s.e.info + 1].b = e1.info],
            [e1 EXCEPT !.k = "VRELOCABLE", !.info = s.e.info])
  ELSE ConcatTwo(luaK_exp2nextreg(s), e1)

luaK_posfix(s, op, e1) ==
  CASE op = "and" -> AndJoined(luaK_dischargevars(s), e1)
    [] op = "or"  -> OrJoined(luaK_dischargevars(s), e1)
    [] op = ".."  -> Concatenated(luaK_exp2val(s), e1)
    [] op \in DOMAIN Arithmetic -> codearith(s, Arithmetic[op], e1, s.e)
    [] OTHER ->
         codecomp(s, CASE op \in {"==", "~="} -> "EQ" [] op \in {"<", ">"} -> "LT"
                       [] op \in {"<=", ">="} -> "LE",
                  IF op \in {"==", "<", "<="} THEN 1 ELSE 0, e1, s.e)

\* A batch number that does not fit goes into a word of its own.
luaK_setlist(s, base, nelems, tostore) ==
  LET c == (nelems - 1) \div LFIELDS_PER_FLUSH + 1
      Set(n) == luaK_code(s, Instr("SETLIST", base, IF tostore = LUA_MULTRET THEN 0 ELSE tostore, n))
  IN [IF c <= MAXARG_C THEN Set(c) ELSE luaK_code(Set(0), Instr("DATA", 0, 0, c))
        EXCEPT !.fs.freereg = base + 1]

================================================================================
