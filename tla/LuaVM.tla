-------------------------------- MODULE LuaVM --------------------------------
(***************************************************************************)
(* The virtual machine of the embedded Lua interpreter (lvm.c, ldo.c and   *)
(* the parts of lfunc.c, ltm.c and lbaselib.c it runs on): instructions,   *)
(* calls and returns, metamethods, upvalues, protected calls and           *)
(* coroutines. Positions on the stack are indices, so that moving the      *)
(* stack has nothing to correct. Memory is never short, no hook is set,    *)
(* and the collector, which LuaHeap models, never runs.                    *)
(*                                                                         *)
(* The operators take the state m of the machine and return the next one.  *)
(* A C function that calls a Lua function is suspended in the C program;   *)
(* here the call records in cont how its caller goes on. m.todo is what    *)
(* comes next: the next instruction, a call, the end of a call made by C,  *)
(* an error on its way to a handler, or nothing.                           *)
(***************************************************************************)
EXTENDS LuaParser, LuaCheck, TLC

CONSTANTS
  MAXTAGLOOP,                     \* lvm.c
  BASIC_CI_SIZE, LUAI_MAXCALLS,   \* lstate.h, luaconf.h
  Chunks,                         \* the programs: a text, its tree and, if stated, its outcome
  Globals                         \* the global variables the host sets

VARIABLES
  source,   \* the running program
  main,     \* its main function
  m         \* the machine that runs it

vars == <<source, main, m>>

Lang == INSTANCE LuaLang

--------------------------------------------------------------------------------
(* Values. The first component of a value is its type.                         *)

Nil == <<"nil", 0>>
Boolean(b) == <<"boolean", b>>
Number(n) == <<"number", n>>
String(s) == <<"string", s>>

ttype(v) == IF v[1] = "cfunction" THEN "function" ELSE v[1]
l_isfalse(v) == v = Nil \/ v = Boolean(FALSE)

\* The strings that denote numbers are those of a few integers.
Numerals == [n \in -9 .. 99 |-> ToString(n)]
luaV_tonumber(v) ==
  IF v[1] = "string" /\ \E n \in DOMAIN Numerals : Numerals[n] = v[2]
  THEN Number(CHOOSE n \in DOMAIN Numerals : Numerals[n] = v[2]) ELSE v
luaV_tostring(v) == IF v[1] = "number" THEN String(ToString(v[2])) ELSE v

IsNumeric(v) == luaV_tonumber(v)[1] = "number"
IsStringy(v) == v[1] \in {"string", "number"}

Alphabet == "#%*+-.0123456789[]^abcdefghijklmnopqrstuvwxyz"
Rank(c) == CHOOSE i \in 1 .. Len(Alphabet) : SubSeq(Alphabet, i, i) = c

\* Whether the string l comes before r.
RECURSIVE Before(_, _)
Before(l, r) ==
  IF l = "" \/ r = "" THEN r # ""
  ELSE \/ Rank(SubSeq(l, 1, 1)) < Rank(SubSeq(r, 1, 1))
       \/ SubSeq(l, 1, 1) = SubSeq(r, 1, 1) /\ Before(SubSeq(l, 2, Len(l)), SubSeq(r, 2, Len(r)))

--------------------------------------------------------------------------------
(* The stack and the frames of the running thread.                             *)

L(x) == x.th[x.cur]
ThisCI(x) == Last(L(x).ci)
Base(x) == ThisCI(x).base

Get(x, a) == IF a < Len(L(x).stack) THEN L(x).stack[a + 1] ELSE Nil
Stored(st, a, v) ==
  IF a < Len(st) THEN [st EXCEPT ![a + 1] = v] ELSE st \o [i \in 1 .. a - Len(st) |-> Nil] \o <<v>>
Put(x, a, v) == [x EXCEPT !.th[x.cur].stack = Stored(@, a, v)]
PutAll(x, a, vs) == FoldLeftDomain(LAMBDA y, i : Put(y, a + i - 1, vs[i]), x, vs)
Slots(x, a, b) == [i \in 1 .. (IF b > a THEN b - a ELSE 0) |-> Get(x, a + i - 1)]

SetTop(x, a) == [x EXCEPT !.th[x.cur].top = a]
Top(x) == L(x).top
Push(x, vs) == SetTop(PutAll(x, Top(x), vs), Top(x) + Len(vs))
Ccalls(x, n) == [x EXCEPT !.th[x.cur].nCcalls = @ + n]
SetPc(x, pc) == [x EXCEPT !.th[x.cur].ci[Len(L(x).ci)].pc = pc]

Todo(x, t) == [x EXCEPT !.todo = t]
run == [k |-> "run"]
luaD_throw(x, v) == Todo(x, [k |-> "throw", v |-> v])
luaG_runerror(x, msg) == luaD_throw(x, String(msg))

--------------------------------------------------------------------------------
(* Upvalues. The open ones of a thread are listed from the top of the stack.   *)

UpValue(x, u) == IF x.upvals[u].open THEN x.th[x.upvals[u].th].stack[x.upvals[u].v + 1]
                 ELSE x.upvals[u].v

SetUpValue(x, u, v) ==
  IF x.upvals[u].open THEN [x EXCEPT !.th[x.upvals[u].th].stack[x.upvals[u].v + 1] = v]
  ELSE [x EXCEPT !.upvals[u].v = v]

Level(x, u) == x.upvals[u].v

\* The open upvalue of a stack position, which is made if there is none.
FoundUpval(x, level) == SelectInSeq(L(x).openupval, LAMBDA u : Level(x, u) = level)

\* Mutant: a new upvalue goes to the front of the list.
FindupvalInFront(x, level) ==
  IF FoundUpval(x, level) # 0 THEN x
  ELSE [x EXCEPT !.upvals = Append(@, [open |-> TRUE, th |-> x.cur, v |-> level]),
                 !.th[x.cur].openupval = <<Len(x.upvals) + 1>> \o @]

luaF_findupval(x, level) ==
  IF FoundUpval(x, level) # 0 THEN x
  ELSE [x EXCEPT !.upvals = Append(@, [open |-> TRUE, th |-> x.cur, v |-> level]),
                 !.th[x.cur].openupval = SelectSeq(@, LAMBDA u : Level(x, u) > level)
                                         \o <<Len(x.upvals) + 1>>
                                         \o SelectSeq(@, LAMBDA u : Level(x, u) < level)]

UpvalAt(x, level) == L(x).openupval[FoundUpval(x, level)]

\* Upvalues at level and above get a copy of their variable.
luaF_close(x, level) ==
  LET closes(u) == Contains(L(x).openupval, u) /\ Level(x, u) >= level
  IN [x EXCEPT !.upvals = [u \in DOMAIN @ |-> IF closes(u) THEN [@[u] EXCEPT !.open = FALSE, !.v = UpValue(x, u)]
                                              ELSE @[u]],
               !.th[x.cur].openupval = SelectSeq(@, LAMBDA u : Level(x, u) < level)]

--------------------------------------------------------------------------------
(* Tables, of which only the contents and the metatable matter here.           *)

NewTable(x) == [x EXCEPT !.tables = Append(@, [map |-> << >>, meta |-> 0])]
LastTable(x) == <<"table", Len(x.tables)>>

RawGet(x, t, k) == LET h == x.tables[t[2]].map IN IF k \in DOMAIN h THEN h[k] ELSE Nil
RawSet(x, t, k, v) ==
  [x EXCEPT !.tables[t[2]].map = IF v = Nil THEN [y \in DOMAIN @ \ {k} |-> @[y]] ELSE (k :> v) @@ @]

\* The length of a table, where it is determined: programs keep their lists dense.
luaH_getn(x, t) == Cardinality({k \in DOMAIN x.tables[t[2]].map : k[1] = "number" /\ k[2] > 0})

\* The metamethod of a value for an event; only tables have metatables here.
luaT_gettmbyobj(x, v, event) ==
  IF v[1] # "table" \/ x.tables[v[2]].meta = 0 THEN Nil
  ELSE RawGet(x, <<"table", x.tables[v[2]].meta>>, String(event))

--------------------------------------------------------------------------------
(* Calls and returns.                                                          *)

\* What is called is at func, its arguments are above it up to the top.
Call(x, func, nresults, cont) ==
  Todo(x, [k |-> "call", func |-> func, nresults |-> nresults, cont |-> cont])

ErrErr == "error in error handling"

\* A call made by C. Errors are given some room once the limit was reached.
luaD_call(x, func, nresults, cont) ==
  LET n == L(x).nCcalls + 1
  IN IF n = LUAI_MAXCCALLS THEN luaG_runerror(Ccalls(x, 1), "C stack overflow")
     ELSE IF n >= LUAI_MAXCCALLS + LUAI_MAXCCALLS \div 8 THEN luaG_runerror(Ccalls(x, 1), ErrErr)
     ELSE Call(Ccalls(x, 1), func, nresults, cont)

\* A metamethod that gives a result, and one that gives none.
callTMres(x, f, p1, p2, cont) == luaD_call(Push(x, <<f, p1, p2>>), Top(x), 1, cont)
callTM(x, f, p1, p2, p3) == luaD_call(Push(x, <<f, p1, p2, p3>>), Top(x), 0, [k |-> "drop"])

\* A frame more: the frames double up to a limit, and once beyond it they only
\* serve to handle the error.
inc_ci(x, frame) ==
  LET size == L(x).size_ci
      Grown(n) == [x EXCEPT !.th[x.cur].size_ci = n]
      Entered(y) == [y EXCEPT !.th[y.cur].ci = Append(@, frame), !.todo = run]
  IN IF Len(L(x).ci) < size THEN Entered(x)
     ELSE IF size > LUAI_MAXCALLS THEN luaG_runerror(x, ErrErr)
     ELSE IF 2 * size > LUAI_MAXCALLS THEN luaG_runerror(Grown(2 * size), "stack overflow")
     ELSE Entered(Grown(2 * size))

Frame(x, base, top) ==
  [func |-> x.todo.func, base |-> base, top |-> top, pc |-> 0, nresults |-> x.todo.nresults,
   cont |-> x.todo.cont, guard |-> <<>>]

RECURSIVE ProtoAt(_, _)
ProtoAt(p, path) == IF path = <<>> THEN p ELSE ProtoAt(p.p[Head(path)], Tail(path))

Closure(x, func) == x.closures[Get(x, func)[2]]
ProtoOf(x, func) == ProtoAt(main, Closure(x, func).p)

\* The arguments beyond the parameters stay below the base, where ... finds them;
\* a function that needs it gets them in the table arg as well.
WithArg(x, p, extra) ==
  LET Fill(y) == Push(FoldLeftDomain(LAMBDA z, i : RawSet(z, LastTable(y), Number(i), extra[i]),
                                     RawSet(y, LastTable(y), String("n"), Number(Len(extra))), extra),
                      <<LastTable(y)>>)
  IN IF "NEEDSARG" \in p.is_vararg THEN Fill(NewTable(x)) ELSE x

adjust_varargs(x, p) ==
  LET given == Slots(x, x.todo.func + 1, Top(x))
      args  == given \o [i \in 1 .. (IF p.numparams > Len(given) THEN p.numparams - Len(given) ELSE 0) |-> Nil]
      fixed == SubSeq(args, 1, p.numparams)
      extra == SubSeq(args, p.numparams + 1, Len(args))
  IN WithArg(Push(PutAll(SetTop(x, x.todo.func + 1 + Len(args)), x.todo.func + 1,
                         [i \in 1 .. p.numparams |-> Nil] \o extra), fixed), p, extra)

\* Registers that hold no argument are cleared.
EnterLua(x, p, base) ==
  LET top == base + p.maxstacksize
  IN inc_ci(SetTop(PutAll(x, Top(x), [i \in 1 .. (IF top > Top(x) THEN top - Top(x) ELSE 0) |-> Nil]), top),
            Frame(x, base, top))

PrecallLua(x, p) ==
  LET base == x.todo.func + 1
      Shifted(y) == EnterLua(y, p, x.todo.func + 1 + (IF p.numparams > Top(x) - base THEN p.numparams
                                                       ELSE Top(x) - base))
  IN IF p.is_vararg # {} THEN Shifted(adjust_varargs(x, p))
     ELSE EnterLua(IF Top(x) > base + p.numparams THEN SetTop(x, base + p.numparams) ELSE x, p, base)

\* A value that is no function is called through its metamethod, which gets it as
\* the first argument.
tryfuncTM(x) ==
  LET f  == x.todo.func
      tm == luaT_gettmbyobj(x, Get(x, f), "__call")
  IN IF ttype(tm) # "function" THEN luaG_runerror(x, "attempt to call")
     ELSE SetTop(PutAll(x, f, <<tm>> \o Slots(x, f, Top(x))), Top(x) + 1)

\* Ends the running function: as many results as are wanted go to where the
\* function was. Between Lua functions the caller goes on at once.
luaD_poscall(x, first) ==
  LET ci     == ThisCI(x)
      values == Slots(x, first, Top(x))
      wanted == ci.nresults
      moved  == IF wanted = LUA_MULTRET THEN values
                ELSE [i \in 1 .. wanted |-> IF i <= Len(values) THEN values[i] ELSE Nil]
      Left(y) == SetTop([y EXCEPT !.th[y.cur].ci = Front(@)], ci.func + Len(moved))
      Resume(y) == Todo(IF wanted = LUA_MULTRET THEN y ELSE SetTop(y, ThisCI(y).top), run)
  IN IF ci.cont.k = "lua" THEN Resume(Left(PutAll(x, ci.func, moved)))
     ELSE Todo(Left(PutAll(x, ci.func, moved)), [k |-> "end", cont |-> ci.cont])

--------------------------------------------------------------------------------
(* Operations that may end in a metamethod.                                    *)

\* The value of t[key] goes to dest. A metamethod that is no function is indexed
\* in its turn.
RECURSIVE gettable(_, _, _, _, _)
gettable(x, t, key, dest, loop) ==
  LET tm  == luaT_gettmbyobj(x, t, "__index")
      raw == RawGet(x, t, key)
  IN IF loop = MAXTAGLOOP THEN luaG_runerror(x, "loop in gettable")
     ELSE IF t[1] = "table" /\ (raw # Nil \/ tm = Nil) THEN Put(x, dest, raw)
     ELSE IF tm = Nil THEN luaG_runerror(x, "attempt to index")
     ELSE IF ttype(tm) = "function" THEN callTMres(x, tm, t, key, [k |-> "res", dest |-> dest])
     ELSE gettable(x, tm, key, dest, loop + 1)

luaV_gettable(x, t, key, dest) == gettable(x, t, key, dest, 0)

RECURSIVE settable(_, _, _, _, _)
settable(x, t, key, v, loop) ==
  LET tm == luaT_gettmbyobj(x, t, "__newindex")
  IN IF loop = MAXTAGLOOP THEN luaG_runerror(x, "loop in settable")
     ELSE IF t[1] = "table" /\ key = Nil THEN luaG_runerror(x, "table index is nil")
     ELSE IF t[1] = "table" /\ (RawGet(x, t, key) # Nil \/ tm = Nil) THEN RawSet(x, t, key, v)
     ELSE IF tm = Nil THEN luaG_runerror(x, "attempt to index")
     ELSE IF ttype(tm) = "function" THEN callTM(x, tm, t, key, v)
     ELSE settable(x, tm, key, v, loop + 1)

luaV_settable(x, t, key, v) == settable(x, t, key, v, 0)

\* The metamethod of the first operand, or else of the second.
binTM(x, p1, p2, event) ==
  IF luaT_gettmbyobj(x, p1, event) # Nil THEN luaT_gettmbyobj(x, p1, event)
  ELSE luaT_gettmbyobj(x, p2, event)

call_binTM(x, p1, p2, event, cont, msg) ==
  IF binTM(x, p1, p2, event) = Nil THEN luaG_runerror(x, msg)
  ELSE callTMres(x, binTM(x, p1, p2, event), p1, p2, cont)

TMname == [op \in {"ADD", "SUB", "MUL", "DIV", "MOD", "POW", "UNM"} |->
  CASE op = "ADD" -> "__add" [] op = "SUB" -> "__sub" [] op = "MUL" -> "__mul" [] op = "DIV" -> "__div"
    [] op = "MOD" -> "__mod" [] op = "POW" -> "__pow" [] op = "UNM" -> "__unm"]

Arith(x, op, dest, b, c) ==
  IF IsNumeric(b) /\ IsNumeric(c)
  THEN Put(x, dest, Number(numarith(op, luaV_tonumber(b)[2], luaV_tonumber(c)[2])))
  ELSE call_binTM(x, b, c, TMname[op], [k |-> "res", dest |-> dest], "attempt to perform arithmetic")

\* Comparisons only use a metamethod that both operands share.
SharedTM(x, l, r, event) ==
  IF luaT_gettmbyobj(x, l, event) = luaT_gettmbyobj(x, r, event) THEN luaT_gettmbyobj(x, l, event) ELSE Nil

\* The instruction that follows is a jump, taken if the outcome is as A says.
PcOf(x) == ThisCI(x).pc
CodeAt(x, pc) == ProtoOf(x, ThisCI(x).func).code[pc + 1]
CondJump(x, taken) == SetPc(x, PcOf(x) + 1 + (IF taken THEN CodeAt(x, PcOf(x)).b ELSE 0))
Compared(x, outcome) == CondJump(x, outcome = (CodeAt(x, PcOf(x) - 1).a = 1))

equalobj(x, l, r) ==
  LET tm == SharedTM(x, l, r, "__eq")
  IN IF l = r \/ l[1] # "table" \/ r[1] # "table" \/ tm = Nil THEN Compared(x, l = r)
     ELSE callTMres(x, tm, l, r, [k |-> "cmp", not |-> FALSE])

call_orderTM(x, l, r, event, not) == callTMres(x, SharedTM(x, l, r, event), l, r, [k |-> "cmp", not |-> not])

luaV_lessthan(x, l, r) ==
  CASE l[1] = "number" /\ r[1] = "number" -> Compared(x, l[2] < r[2])
    [] l[1] = "string" /\ r[1] = "string" -> Compared(x, Before(l[2], r[2]))
    [] ttype(l) = ttype(r) /\ SharedTM(x, l, r, "__lt") # Nil -> call_orderTM(x, l, r, "__lt", FALSE)
    [] OTHER -> luaG_runerror(x, "attempt to compare")

lessequal(x, l, r) ==
  CASE l[1] = "number" /\ r[1] = "number" -> Compared(x, l[2] <= r[2])
    [] l[1] = "string" /\ r[1] = "string" -> Compared(x, ~Before(r[2], l[2]))
    [] ttype(l) = ttype(r) /\ SharedTM(x, l, r, "__le") # Nil -> call_orderTM(x, l, r, "__le", FALSE)
    [] ttype(l) = ttype(r) /\ SharedTM(x, r, l, "__lt") # Nil -> call_orderTM(x, r, l, "__lt", TRUE)
    [] OTHER -> luaG_runerror(x, "attempt to compare")

\* Concatenates the total values up to register last, from the right: as many
\* strings as there are at a time, and what a metamethod gives for two others.
Texts(x, top, total) == [i \in 1 .. total |-> Get(x, top - i)]
InOnePass(x, top, total) ==
  LET bad == {i \in 2 .. total : ~IsStringy(Get(x, top - i))} IN IF bad = {} THEN total ELSE Min(bad) - 1

Joined_(x, top, n) == String(FoldLeft(LAMBDA acc, v : luaV_tostring(v)[2] \o acc, "", Texts(x, top, n)))

RECURSIVE luaV_concat(_, _, _)
luaV_concat(x, total, last) ==
  LET top == Base(x) + last + 1
      n   == IF luaV_tostring(Get(x, top - 1)) = String("") THEN 2 ELSE InOnePass(x, top, total)
  IN IF total = 1 THEN LET i == CodeAt(x, PcOf(x) - 1) IN Put(x, Base(x) + i.a, Get(x, Base(x) + i.b))
     ELSE IF ~IsStringy(Get(x, top - 2)) \/ ~IsStringy(Get(x, top - 1))
     THEN call_binTM(x, Get(x, top - 2), Get(x, top - 1), "__concat",
                     [k |-> "concat", dest |-> top - 2, total |-> total - 1, last |-> last - 1],
                     "attempt to concatenate")
     ELSE luaV_concat(Put(x, top - n, Joined_(x, top, n)), total - (n - 1), last - (n - 1))

--------------------------------------------------------------------------------
(* Instructions. x is the machine with the instruction i just fetched.         *)

K(x, n) == ProtoOf(x, ThisCI(x).func).k[n + 1]
R(x, n) == Get(x, Base(x) + n)
RKV(x, n) == IF ISK(n) THEN K(x, n - BITRK) ELSE R(x, n)
SetR(x, n, v) == Put(x, Base(x) + n, v)
Skip_(x, n) == SetPc(x, PcOf(x) + n)
Env == <<"table", 1>>

Exec(ops, F(_, _)) ==
  /\ m.todo.k = "run" /\ CodeAt(m, PcOf(m)).op \in ops
  /\ m' = F(Skip_(m, 1), CodeAt(m, PcOf(m)))
  /\ UNCHANGED <<source, main>>

OP_MOVE == Exec({"MOVE"}, LAMBDA x, i : SetR(x, i.a, R(x, i.b)))
OP_LOADK == Exec({"LOADK"}, LAMBDA x, i : SetR(x, i.a, K(x, i.b)))
OP_LOADBOOL == Exec({"LOADBOOL"}, LAMBDA x, i : Skip_(SetR(x, i.a, Boolean(i.b # 0)), i.c))
OP_LOADNIL ==
  Exec({"LOADNIL"}, LAMBDA x, i : PutAll(x, Base(x) + i.a, [j \in 1 .. i.b - i.a + 1 |-> Nil]))

UpvalOf(x, n) == Closure(x, ThisCI(x).func).upvals[n + 1]
OP_GETUPVAL == Exec({"GETUPVAL"}, LAMBDA x, i : SetR(x, i.a, UpValue(x, UpvalOf(x, i.b))))
OP_SETUPVAL == Exec({"SETUPVAL"}, LAMBDA x, i : SetUpValue(x, UpvalOf(x, i.b), R(x, i.a)))

OP_GETGLOBAL == Exec({"GETGLOBAL"}, LAMBDA x, i : luaV_gettable(x, Env, K(x, i.b), Base(x) + i.a))
OP_SETGLOBAL == Exec({"SETGLOBAL"}, LAMBDA x, i : luaV_settable(x, Env, K(x, i.b), R(x, i.a)))
OP_GETTABLE ==
  Exec({"GETTABLE"}, LAMBDA x, i : luaV_gettable(x, R(x, i.b), RKV(x, i.c), Base(x) + i.a))
OP_SETTABLE ==
  Exec({"SETTABLE"}, LAMBDA x, i : luaV_settable(x, R(x, i.a), RKV(x, i.b), RKV(x, i.c)))
NewTableAt(x, a) == LET Set(y) == SetR(y, a, LastTable(y)) IN Set(NewTable(x))
OP_NEWTABLE == Exec({"NEWTABLE"}, LAMBDA x, i : NewTableAt(x, i.a))
OP_SELF == Exec({"SELF"}, LAMBDA x, i : luaV_gettable(SetR(x, i.a + 1, R(x, i.b)), R(x, i.b), RKV(x, i.c),
                                                       Base(x) + i.a))

OP_ARITH ==
  Exec(DOMAIN TMname, LAMBDA x, i : IF i.op = "UNM" THEN Arith(x, i.op, Base(x) + i.a, R(x, i.b), R(x, i.b))
                                    ELSE Arith(x, i.op, Base(x) + i.a, RKV(x, i.b), RKV(x, i.c)))
OP_NOT == Exec({"NOT"}, LAMBDA x, i : SetR(x, i.a, Boolean(l_isfalse(R(x, i.b)))))

Length(x, a, v) ==
  CASE v[1] = "table"  -> SetR(x, a, Number(luaH_getn(x, v)))
    [] v[1] = "string" -> SetR(x, a, Number(Len(v[2])))
    [] OTHER -> call_binTM(x, v, Nil, "__len", [k |-> "res", dest |-> Base(x) + a], "attempt to get length")
OP_LEN == Exec({"LEN"}, LAMBDA x, i : Length(x, i.a, R(x, i.b)))
OP_CONCAT == Exec({"CONCAT"}, LAMBDA x, i : luaV_concat(x, i.c - i.b + 1, i.c))

OP_JMP == Exec({"JMP"}, LAMBDA x, i : Skip_(x, i.b))
OP_EQ == Exec({"EQ"}, LAMBDA x, i : equalobj(x, RKV(x, i.b), RKV(x, i.c)))
OP_LT == Exec({"LT"}, LAMBDA x, i : luaV_lessthan(x, RKV(x, i.b), RKV(x, i.c)))
OP_LE == Exec({"LE"}, LAMBDA x, i : lessequal(x, RKV(x, i.b), RKV(x, i.c)))
OP_TEST == Exec({"TEST"}, LAMBDA x, i : CondJump(x, l_isfalse(R(x, i.a)) # (i.c = 1)))
OP_TESTSET ==
  Exec({"TESTSET"}, LAMBDA x, i : IF l_isfalse(R(x, i.b)) # (i.c = 1)
                                  THEN CondJump(SetR(x, i.a, R(x, i.b)), TRUE) ELSE CondJump(x, FALSE))

\* The top of the arguments is set here, or was by the instruction before.
ArgTop(x, i) == IF i.b # 0 THEN SetTop(x, Base(x) + i.a + i.b) ELSE x
OP_CALL == Exec({"CALL"}, LAMBDA x, i : Call(ArgTop(x, i), Base(x) + i.a, i.c - 1, [k |-> "lua", tail |-> FALSE]))
OP_TAILCALL ==
  Exec({"TAILCALL"}, LAMBDA x, i : Call(ArgTop(x, i), Base(x) + i.a, LUA_MULTRET, [k |-> "lua", tail |-> TRUE]))
ReturnTop(x, i) == IF i.b # 0 THEN SetTop(x, Base(x) + i.a + i.b - 1) ELSE x
OP_RETURN ==
  Exec({"RETURN"}, LAMBDA x, i : luaD_poscall(luaF_close(ReturnTop(x, i), Base(x)), Base(x) + i.a))

ForLoop(x, i, idx, limit, step) ==
  IF IF 0 < step THEN idx <= limit ELSE limit <= idx
  THEN SetR(SetR(Skip_(x, i.b), i.a, Number(idx)), i.a + 3, Number(idx)) ELSE x
OP_FORLOOP ==
  Exec({"FORLOOP"}, LAMBDA x, i : ForLoop(x, i, R(x, i.a)[2] + R(x, i.a + 2)[2], R(x, i.a + 1)[2],
                                          R(x, i.a + 2)[2]))
ForPrep(x, i, init, limit, step) ==
  IF init[1] # "number" THEN luaG_runerror(x, "'for' initial value must be a number")
  ELSE IF limit[1] # "number" THEN luaG_runerror(x, "'for' limit must be a number")
  ELSE IF step[1] # "number" THEN luaG_runerror(x, "'for' step must be a number")
  ELSE Skip_(PutAll(x, Base(x) + i.a, <<Number(init[2] - step[2]), limit, step>>), i.b)
OP_FORPREP ==
  Exec({"FORPREP"}, LAMBDA x, i : ForPrep(x, i, luaV_tonumber(R(x, i.a)), luaV_tonumber(R(x, i.a + 1)),
                                          luaV_tonumber(R(x, i.a + 2))))
OP_TFORLOOP ==
  Exec({"TFORLOOP"}, LAMBDA x, i :
    luaD_call(SetTop(PutAll(x, Base(x) + i.a + 3, <<R(x, i.a), R(x, i.a + 1), R(x, i.a + 2)>>),
                     Base(x) + i.a + 6),
              Base(x) + i.a + 3, i.c, [k |-> "tfor"]))

\* A batch of list items; its number may be in the word that follows.
RECURSIVE StoreList(_, _, _, _)
StoreList(x, i, n, first) ==
  IF n = 0 THEN x ELSE StoreList(RawSet(x, R(x, i.a), Number(first + n), R(x, i.a + n)), i, n - 1, first)
SetList(x, i, n, c) == CASE c >= 1 -> StoreList(x, i, n, (c - 1) * LFIELDS_PER_FLUSH)
OP_SETLIST ==
  Exec({"SETLIST"}, LAMBDA x, i :
    SetList(Skip_(IF i.b = 0 THEN SetTop(x, ThisCI(x).top) ELSE x, IF i.c = 0 THEN 1 ELSE 0), i,
            IF i.b = 0 THEN Top(x) - (Base(x) + i.a) - 1 ELSE i.b,
            IF i.c = 0 THEN CodeAt(x, PcOf(x)).c ELSE i.c))

OP_CLOSE == Exec({"CLOSE"}, LAMBDA x, i : luaF_close(x, Base(x) + i.a))

\* The instructions that follow say where the upvalues come from.
BindUpval(x, j) ==
  IF j.op = "GETUPVAL" THEN x ELSE luaF_findupval(x, Base(x) + j.b)
BoundUpval(x, j) == IF j.op = "GETUPVAL" THEN UpvalOf(x, j.b) ELSE UpvalAt(x, Base(x) + j.b)
MakeClosure(x, i, path, binds) ==
  LET Make(y) == SetR([y EXCEPT !.closures =
                         Append(@, [p |-> path, upvals |-> [j \in DOMAIN binds |-> BoundUpval(y, binds[j])]])],
                      i.a, <<"function", Len(y.closures) + 1>>)
  IN Skip_(Make(FoldLeft(BindUpval, x, binds)), Len(binds))
OP_CLOSURE ==
  Exec({"CLOSURE"}, LAMBDA x, i :
    MakeClosure(x, i, Append(Closure(x, ThisCI(x).func).p, i.b + 1),
                [j \in 1 .. ProtoOf(x, ThisCI(x).func).p[i.b + 1].nups |-> CodeAt(x, PcOf(x) + j - 1)]))

VarargOf(x, i, n) ==
  LET wanted == IF i.b = 0 THEN n ELSE i.b - 1
      Values == [j \in 1 .. wanted |-> IF j <= n THEN Get(x, Base(x) - n + j - 1) ELSE Nil]
  IN PutAll(IF i.b = 0 THEN SetTop(x, Base(x) + i.a + n) ELSE x, Base(x) + i.a, Values)
OP_VARARG ==
  Exec({"VARARG"}, LAMBDA x, i :
    VarargOf(x, i, Base(x) - ThisCI(x).func - ProtoOf(x, ThisCI(x).func).numparams - 1))

--------------------------------------------------------------------------------
(* Calls of Lua functions, and the ends of calls that C made.                  *)

Callee == Get(m, m.todo.func)

\* The frame of a tail call replaces the frame of its caller.
TailMove(x) ==
  LET new == ThisCI(x)
      old == L(x).ci[Len(L(x).ci) - 1]
      top == old.func + Top(x) - new.func
      Move(y) == SetTop(PutAll(y, old.func, Slots(y, new.func, Top(x))), top)
  IN [Move(luaF_close(x, old.base))
        EXCEPT !.th[x.cur].ci = Append(SubSeq(@, 1, Len(@) - 2),
                                       [old EXCEPT !.base = old.func + new.base - new.func,
                                                   !.top = top, !.pc = 0])]

EnterFunction(x, cont) ==
  IF x.todo.k = "run" /\ cont.k = "lua" /\ cont.tail THEN TailMove(x) ELSE x

CallLua ==
  /\ m.todo.k = "call" /\ Callee[1] = "function"
  /\ m' = EnterFunction(PrecallLua(m, ProtoOf(m, m.todo.func)), m.todo.cont)
  /\ UNCHANGED <<source, main>>

CallValue ==
  /\ m.todo.k = "call" /\ ttype(Callee) # "function"
  /\ m' = tryfuncTM(m)
  /\ UNCHANGED <<source, main>>

\* luaD_call returns to the C function that made the call.
Ends(kinds, F(_, _)) ==
  /\ m.todo.k = "end" /\ m.todo.cont.k \in kinds
  /\ m' = F(Todo(Ccalls(m, -1), run), m.todo.cont)
  /\ UNCHANGED <<source, main>>

Pop(x) == SetTop(x, Top(x) - 1)
Result(x) == Get(x, Top(x) - 1)

EndRes == Ends({"res"}, LAMBDA x, c : Put(Pop(x), c.dest, Result(x)))
EndDrop == Ends({"drop"}, LAMBDA x, c : x)
EndCompare == Ends({"cmp"}, LAMBDA x, c : Compared(Pop(x), ~l_isfalse(Result(x)) # c.not))
EndConcat == Ends({"concat"}, LAMBDA x, c : luaV_concat(Put(Pop(x), c.dest, Result(x)), c.total, c.last))

TforNext(x, cb) ==
  IF Get(x, cb) = Nil THEN CondJump(x, FALSE) ELSE CondJump(Put(x, cb - 1, Get(x, cb)), TRUE)
EndTfor == Ends({"tfor"}, LAMBDA x, c : TforNext(SetTop(x, ThisCI(x).top), Base(x) + CodeAt(x, PcOf(x) - 1).a + 3))

\* The host has the results of the program, or the error that ended it.
Finish(x, ok, vs) == Todo(x, [k |-> "done", ok |-> ok, vs |-> vs])
EndMain == Ends({"main"}, LAMBDA x, c : Finish(x, TRUE, Slots(x, Base(x), Top(x))))

--------------------------------------------------------------------------------
(* Functions of the library that are written in C.                             *)

Args(x) == Slots(x, Base(x), Top(x))
ReturnC(x, vs) == luaD_poscall(Push(x, vs), Top(x))
Checked(x, p, msg, y) == IF p THEN y ELSE luaG_runerror(x, msg)

\* The function called name runs in a frame of its own, if there is room for it.
CFunction(name, F(_, _)) ==
  /\ m.todo.k = "call" /\ Callee = <<"cfunction", name>>
  /\ LET Run(x) == IF x.todo.k = "throw" THEN x ELSE F(x, Args(x))
     IN m' = Run(inc_ci(m, Frame(m, m.todo.func + 1, Top(m))))
  /\ UNCHANGED <<source, main>>

luaB_print == CFunction("print", LAMBDA x, a : ReturnC([x EXCEPT !.out = Append(@, a)], <<>>))

\* The position of the error, which the function adds to a message, is left out.
luaB_error == CFunction("error", LAMBDA x, a : luaD_throw(x, IF a = <<>> THEN Nil ELSE a[1]))

SetMeta(x, a) ==
  CASE a = <<>> \/ a[1][1] # "table" -> luaG_runerror(x, "table expected")
    [] Len(a) < 2 \/ a[2][1] \notin {"nil", "table"} -> luaG_runerror(x, "nil or table expected")
    [] luaT_gettmbyobj(x, a[1], "__metatable") # Nil -> luaG_runerror(x, "cannot change a protected metatable")
    [] OTHER -> ReturnC([x EXCEPT !.tables[a[1][2]].meta = IF a[2] = Nil THEN 0 ELSE a[2][2]], <<a[1]>>)
luaB_setmetatable == CFunction("setmetatable", SetMeta)

luaB_unpack ==
  CFunction("unpack", LAMBDA x, a :
    Checked(x, a # <<>> /\ a[1][1] = "table", "table expected",
            ReturnC(x, [i \in 1 .. luaH_getn(x, a[1]) |-> RawGet(x, a[1], Number(i))])))

\* The arguments from the n-th on, counted from the end if n is negative.
SelectFrom(x, a, n) == Checked(x, 1 <= n, "index out of range", ReturnC(x, SubSeq(a, n + 1, Len(a))))
luaB_select ==
  CFunction("select", LAMBDA x, a :
    IF a = <<>> \/ (~IsNumeric(a[1]) /\ a[1] # String("#")) THEN luaG_runerror(x, "number expected")
    ELSE IF a[1] = String("#") THEN ReturnC(x, <<Number(Len(a) - 1)>>)
    ELSE SelectFrom(x, a, IF luaV_tonumber(a[1])[2] < 0 THEN Len(a) + luaV_tonumber(a[1])[2]
                          ELSE IF luaV_tonumber(a[1])[2] > Len(a) THEN Len(a) ELSE luaV_tonumber(a[1])[2]))

--------------------------------------------------------------------------------
(* Protected calls. The frame of pcall holds what an error has to restore.     *)

luaB_pcall ==
  CFunction("pcall", LAMBDA x, a :
    Checked(x, a # <<>>, "value expected",
            luaD_call([x EXCEPT !.th[x.cur].ci[Len(L(x).ci)].guard = <<Base(x), L(x).nCcalls>>],
                      Base(x), LUA_MULTRET, [k |-> "pcall"])))

\* The status goes in front of the results.
PcallReturn(x, ok) ==
  luaD_poscall(SetTop(PutAll(x, Base(x), <<Boolean(ok)>> \o Args(x)), Top(x) + 1), Base(x))
EndPcall == Ends({"pcall"}, LAMBDA x, c : PcallReturn(x, TRUE))

restore_stack_limit(x) ==
  IF L(x).size_ci > LUAI_MAXCALLS /\ Len(L(x).ci) < LUAI_MAXCALLS
  THEN [x EXCEPT !.th[x.cur].size_ci = LUAI_MAXCALLS] ELSE x

\* The error goes to the innermost protected call of the thread: variables are
\* closed, and the stack, the frames and the count of C calls are as before it.
HandlerOf(x) == SelectLastInSeq(L(x).ci, LAMBDA f : f.guard # <<>>)

\* Mutant: an error leaves the count of C calls as it is.
HandledKeepsCount(x, g, v) ==
  restore_stack_limit([SetTop(Put(luaF_close(x, g[1]), g[1], v), g[1] + 1)
    EXCEPT !.th[x.cur].ci = SubSeq(@, 1, HandlerOf(x))])

Handled(x, g, v) ==
  restore_stack_limit([SetTop(Put(luaF_close(x, g[1]), g[1], v), g[1] + 1)
    EXCEPT !.th[x.cur].nCcalls = g[2], !.th[x.cur].ci = SubSeq(@, 1, HandlerOf(x))])

Catch ==
  /\ m.todo.k = "throw" /\ HandlerOf(m) > 1
  /\ m' = PcallReturn(Handled(m, L(m).ci[HandlerOf(m)].guard, m.todo.v), FALSE)
  /\ UNCHANGED <<source, main>>

\* The program as a whole runs in a protected call of the host.
CatchInHost ==
  /\ m.todo.k = "throw" /\ HandlerOf(m) = 1
  /\ m' = Finish(Handled(m, L(m).ci[1].guard, m.todo.v), FALSE, <<m.todo.v>>)
  /\ UNCHANGED <<source, main>>

--------------------------------------------------------------------------------
(* Coroutines.                                                                 *)

\* A thread: base_ci is a frame of C that is never left.
base_ci == [func |-> 0, base |-> 1, top |-> 1, pc |-> 0, nresults |-> 0, cont |-> [k |-> "none"],
            guard |-> <<>>]
NewThread(values) ==
  [stack |-> <<Nil>> \o values, top |-> 1 + Len(values), ci |-> <<base_ci>>, openupval |-> <<>>,
   nCcalls |-> 0, baseCcalls |-> 0, size_ci |-> BASIC_CI_SIZE, status |-> "ok", from |-> 0]

costatus(x, co) ==
  LET t == x.th[co]
  IN CASE co = x.cur -> "running"
       [] co # x.cur /\ t.status = "yield" -> "suspended"
       [] co # x.cur /\ t.status = "error" -> "dead"
       [] OTHER -> IF Len(t.ci) > 1 THEN "normal" ELSE IF t.top = 1 THEN "dead" ELSE "suspended"

luaB_cocreate ==
  CFunction("create", LAMBDA x, a :
    Checked(x, a # <<>> /\ a[1][1] = "function", "Lua function expected",
            ReturnC([x EXCEPT !.th = Append(@, NewThread(<<a[1]>>))], <<<<"thread", Len(x.th) + 1>>>>)))

luaB_costatus ==
  CFunction("status", LAMBDA x, a :
    Checked(x, a # <<>> /\ a[1][1] = "thread", "coroutine expected",
            ReturnC(x, <<String(costatus(x, a[1][2]))>>)))

\* Control goes back to the thread that resumed this one, with values for it.
ToResumer(x, ok, vs) ==
  LET Back(y) == ReturnC([y EXCEPT !.cur = L(x).from], <<Boolean(ok)>> \o vs)
  IN Back(Todo(Ccalls([x EXCEPT !.th[x.cur].from = 0], -1), run))

\* A coroutine starts with its function, or goes on by returning from yield.
resume(x, nargs) ==
  IF L(x).status = "ok" THEN Call(x, Top(x) - nargs - 1, LUA_MULTRET, [k |-> "resume"])
  ELSE luaD_poscall([x EXCEPT !.th[x.cur].status = "ok"], Top(x) - nargs)

\* No room for another C call: the arguments are lost, and of a coroutine that
\* has not started the function too.
ResumeError(x) ==
  ToResumer(SetTop(Ccalls(x, 1), Base(x)), FALSE, <<String("C stack overflow")>>)

lua_resume(x, nargs) ==
  IF L(x).nCcalls >= LUAI_MAXCCALLS THEN ResumeError(x)
  ELSE resume([x EXCEPT !.th[x.cur].nCcalls = @ + 1, !.th[x.cur].baseCcalls = L(x).nCcalls + 1], nargs)

auxresume(x, co, vs) ==
  LET status == costatus(x, co)
      Switched == [x EXCEPT !.cur = co, !.th[co].from = x.cur, !.th[co].nCcalls = L(x).nCcalls]
  IN IF status # "suspended" THEN ReturnC(x, <<Boolean(FALSE), String("cannot resume " \o status \o " coroutine")>>)
     ELSE lua_resume(Push(Switched, vs), Len(vs))

luaB_coresume ==
  CFunction("resume", LAMBDA x, a :
    Checked(x, a # <<>> /\ a[1][1] = "thread", "coroutine expected", auxresume(x, a[1][2], Tail(a))))

\* A coroutine may only yield where no C function waits for it.
luaB_yield ==
  CFunction("yield", LAMBDA x, a :
    Checked(x, L(x).nCcalls <= L(x).baseCcalls, "attempt to yield across metamethod/C-call boundary",
            ToResumer([SetTop(x, Base(x)) EXCEPT !.th[x.cur].status = "yield"], TRUE, a)))

\* The function of the coroutine returned.
EndResume ==
  /\ m.todo.k = "end" /\ m.todo.cont.k = "resume"
  /\ m' = ToResumer(SetTop(m, Base(m)), TRUE, Args(m))
  /\ UNCHANGED <<source, main>>

\* An error that the coroutine does not catch kills it; its frames stay.
KillCoroutine ==
  /\ m.todo.k = "throw" /\ HandlerOf(m) = 0
  /\ m' = ToResumer([m EXCEPT !.th[m.cur].status = "error"], FALSE, <<m.todo.v>>)
  /\ UNCHANGED <<source, main>>

--------------------------------------------------------------------------------
(* The program.                                                                *)

NoProto == Proto(NewFs)

\* The machine with the main function on its stack, and the host's call of it; ok
\* is what the assertions of the compiler said.
Loaded(ok) ==
  LET host == [NewThread(<<<<"function", 1>>>>) EXCEPT !.ci[1].guard = <<1, 0>>]
  IN [th |-> <<host>>, cur |-> 1, closures |-> <<[p |-> <<>>, upvals |-> <<>>]>>,
      upvals |-> <<>>, tables |-> <<[map |-> Globals, meta |-> 0]>>, out |-> <<>>,
      asserts |-> ok, todo |-> run]
Started(ok) == luaD_call(Loaded(ok), 1, LUA_MULTRET, [k |-> "main"])

Init ==
  /\ source \in Chunks
  /\ main = NoProto
  /\ m = [todo |-> [k |-> "load"]]

\* The protected call of the compiler.
Load ==
  /\ m.todo.k = "load"
  /\ \E toks \in {TokensOf(luaL_loadfile(source.text))} : \E r \in {luaY_parser(toks)} :
       /\ main' = r.main
       /\ m' = IF r.err = "" THEN Started(r.ok)
               ELSE Finish(Loaded(r.ok), FALSE, <<String(r.err)>>)
  /\ UNCHANGED source

Next ==
  \/ Load
  \/ OP_MOVE \/ OP_LOADK \/ OP_LOADBOOL \/ OP_LOADNIL \/ OP_GETUPVAL \/ OP_SETUPVAL
  \/ OP_GETGLOBAL \/ OP_SETGLOBAL \/ OP_GETTABLE \/ OP_SETTABLE \/ OP_NEWTABLE \/ OP_SELF
  \/ OP_ARITH \/ OP_NOT \/ OP_LEN \/ OP_CONCAT \/ OP_JMP \/ OP_EQ \/ OP_LT \/ OP_LE
  \/ OP_TEST \/ OP_TESTSET \/ OP_CALL \/ OP_TAILCALL \/ OP_RETURN \/ OP_FORLOOP \/ OP_FORPREP
  \/ OP_TFORLOOP \/ OP_SETLIST \/ OP_CLOSE \/ OP_CLOSURE \/ OP_VARARG
  \/ CallLua \/ CallValue
  \/ EndRes \/ EndDrop \/ EndCompare \/ EndConcat \/ EndTfor \/ EndPcall \/ EndMain \/ EndResume
  \/ luaB_print \/ luaB_error \/ luaB_setmetatable \/ luaB_unpack \/ luaB_select \/ luaB_pcall
  \/ luaB_cocreate \/ luaB_costatus \/ luaB_coresume \/ luaB_yield
  \/ Catch \/ CatchInHost \/ KillCoroutine

Spec == Init /\ [][Next]_vars

--------------------------------------------------------------------------------
(* Properties.                                                                 *)

\* A program prints and returns what the language says it does, or ends in the
\* error the language says: registers, jumps, upvalues and frames never show
\* (what lparser.c and lcode.c make of it, lvm.c and ldo.c run).
RunsAsMeant ==
  m.todo.k = "done" =>
    LET seen == [ok |-> m.todo.ok, vs |-> m.todo.vs, out |-> m.out]
    IN seen = (IF source.want = <<>> THEN Lang!Meaning(source.b, Globals) ELSE source.want[1])

RECURSIVE Protos(_)
Protos(p) == {p} \cup UNION {Protos(p.p[i]) : i \in DOMAIN p.p}

\* What the compiler makes is code the verifier accepts (the assertion of
\* close_func): jumps, registers, constants and upvalues are all in range, and
\* an open number of values goes to an instruction that takes them. The other
\* assertions of the compiler hold too when it ends, and those of luaV_execute
\* before every instruction: the top of the stack is that of the frame unless an
\* instruction that uses it is next, and a caller waits at its call.
CodeChecked ==
  /\ m.todo.k = "call" /\ m.todo.cont.k = "main" => \A p \in Protos(main) : luaG_checkcode(p)
  /\ m.todo.k # "load" => m.asserts
  /\ m.todo.k = "run" =>
       /\ Get(m, ThisCI(m).func)[1] = "function"
       /\ Base(m) <= Top(m)
       /\ Top(m) = ThisCI(m).top \/ luaG_checkopenop(CodeAt(m, PcOf(m)))
       /\ ThisCI(m).top = Base(m) + ProtoOf(m, ThisCI(m).func).maxstacksize
       /\ ThisCI(m).cont.k = "lua" =>
            LET caller == L(m).ci[Len(L(m).ci) - 1]
            IN ProtoOf(m, caller.func).code[caller.pc].op = "CALL"

\* The open upvalues of a thread are listed from the top of its stack down, one
\* for each variable, all of them below its top; those not listed are closed.
\* (The search of luaF_findupval and the loop of luaF_close stop early.)
UpvaluesOpen ==
  m.todo.k # "load" =>
    /\ \A t \in DOMAIN m.th :
         LET list == m.th[t].openupval
         IN /\ \A i \in 1 .. Len(list) - 1 : Level(m, list[i]) > Level(m, list[i + 1])
            /\ \A u \in Range(list) : /\ m.upvals[u].open /\ m.upvals[u].th = t
                                      /\ m.todo.k = "run" => Level(m, u) < Last(m.th[t].ci).top
    /\ \A u \in DOMAIN m.upvals : m.upvals[u].open => Contains(m.th[m.upvals[u].th].openupval, u)

\* The C functions of a thread that wait for a call, and those of the threads
\* that wait for it too.
WaitingInC(t) == Cardinality({i \in DOMAIN m.th[t].ci : m.th[t].ci[i].cont.k \notin {"lua", "none"}})

RECURSIVE CallsUnder(_)
CallsUnder(t) == IF t = 0 THEN 0 ELSE WaitingInC(t) + CallsUnder(m.th[t].from)

\* nCcalls counts the C functions that wait for a call to end, those of the
\* threads that wait for this one included, and a suspended coroutine has none:
\* the limit on the C stack and the right to yield (lua_yield) rest on it, across
\* errors, protected calls and coroutines that die.
CCallsCounted ==
  /\ m.todo.k = "run" => L(m).nCcalls = CallsUnder(m.cur)
  /\ m.todo.k = "done" => L(m).nCcalls = 0
  /\ m.todo.k # "load" => \A t \in DOMAIN m.th : m.th[t].status = "yield" => WaitingInC(t) = 1

================================================================================
