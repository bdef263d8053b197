------------------------------ MODULE LuaParser ------------------------------
(***************************************************************************)
(* The one-pass compiler of the embedded Lua interpreter (lparser.c): the  *)
(* grammar, the scopes of variables and the blocks of a function. s.tok is *)
(* the current token with its kind t and its value v, s.toks the tokens    *)
(* the scanner finds behind it. s.fs is the innermost function, s.prev the *)
(* ones around it; s.n is the number a C function returns.                 *)
(***************************************************************************)
EXTENDS LuaCode, LuaLexer, FiniteSets

Token(s) == s.tok.t

\* An error of the scanner is raised when its token is asked for; the end of the
\* text can be asked for again.
luaX_next(s) ==
  LET tok == Head(s.toks)
  IN IF s.err # "" THEN s
     ELSE IF tok.t = "error" THEN Fail(s, tok.v)
     ELSE [s EXCEPT !.tok = tok, !.toks = IF tok.t = "eos" THEN @ ELSE Tail(@)]
luaX_lookahead(s) == Head(s.toks).t

--------------------------------------------------------------------------------
(* Tokens, variables and blocks.                                               *)

checknext(s, c) == IF Token(s) = c THEN luaX_next(s) ELSE Fail(s, c)
check_match(s, what) == checknext(s, what)
Skip(s, c) == IF Token(s) = c THEN luaX_next(s) ELSE s    \* testnext as a statement

\* str_checkname: the name is the value of the token that is skipped.
Name(s) == IF Token(s) = "name" THEN s.tok.v ELSE ""
str_checkname(s) == checknext(s, "name")

codestring(s, v) == LET Index(t) == With(t, init_exp("VK", KIndex(t, <<"string", v>>)))
                    IN Index(addk(s, <<"string", v>>))
checkname(s) == codestring(str_checkname(s), Name(s))

errorlimit(s, v, l, what) == IF v > l THEN Fail(s, what) ELSE s

new_localvar(s, name, n) ==
  errorlimit([s EXCEPT !.fs.actvar = Append(SubSeq(@, 1, s.fs.nactvar + n), name)],
             s.fs.nactvar + n + 1, LUAI_MAXVARS, "local variables")

adjustlocalvars(s, nvars) == [s EXCEPT !.fs.nactvar = @ + nvars]
removevars(s, tolevel) == [s EXCEPT !.fs.nactvar = tolevel]

\* The innermost active variable of that name, or -1.
searchvar(fs, n) == SelectLastInSeq(SubSeq(fs.actvar, 1, fs.nactvar), LAMBDA x : x = n) - 1

\* The block a variable belongs to has to close it when it ends.
markupval(fs, level) ==
  LET b == SelectLastInSeq(fs.bl, LAMBDA x : x.nactvar <= level)
  IN IF b = 0 THEN fs ELSE [fs EXCEPT !.bl[b].upval = TRUE]

\* The upvalue of fs that is the variable v of the function around it.
UpIndex(fs, v) == SelectInSeq(fs.upvalues, LAMBDA u : u.k = v.k /\ u.info = v.info) - 1
indexupvalue(fs, v) ==
  IF UpIndex(fs, v) >= 0 THEN fs
  ELSE [fs EXCEPT !.upvalues = Append(@, [k |-> v.k, info |-> v.info])]

\* Looks for a name from the innermost of the functions fss outwards: in r.fss the
\* variable is marked where it is found and entered in every function inside.
RECURSIVE singlevaraux(_, _, _)
singlevaraux(fss, n, base) ==
  LET fs == Last(fss)
      v  == searchvar(fs, n)
      Up(r) ==
        IF r.e.k = "VGLOBAL" THEN [r EXCEPT !.fss = Append(@, fs)]
        ELSE [fss |-> Append(r.fss, indexupvalue(fs, r.e)),
              e   |-> init_exp("VUPVAL", UpIndex(indexupvalue(fs, r.e), r.e))]
  IN IF fss = <<>> THEN [fss |-> <<>>, e |-> init_exp("VGLOBAL", NO_REG)]
     ELSE IF v >= 0 THEN [fss |-> IF base THEN fss ELSE Append(Front(fss), markupval(fs, v)),
                          e   |-> init_exp("VLOCAL", v)]
     ELSE Up(singlevaraux(Front(fss), n, FALSE))

singlevar(s) ==
  LET Limit(t) == errorlimit(t, Max({Len(f.upvalues) : f \in Range(t.prev) \cup {t.fs}}),
                             LUAI_MAXUPVALUES, "upvalues")
      Found(r, t) ==
        IF r.e.k = "VGLOBAL" THEN [codestring(t, Name(s)) EXCEPT !.e.k = "VGLOBAL"]
        ELSE Limit([t EXCEPT !.fs = Last(r.fss), !.prev = Front(r.fss), !.e = r.e])
  IN Found(singlevaraux(Append(s.prev, s.fs), Name(s), TRUE), str_checkname(s))

hasmultret(e) == e.k \in {"VCALL", "VVARARG"}

\* Makes as many values of nexps expressions as there are variables.
adjust_assign(s, nvars, nexps) ==
  LET extra == nvars - nexps
      calls == IF extra + 1 < 0 THEN 0 ELSE extra + 1
      Fill(t) == IF extra <= 0 THEN t ELSE luaK_nil(luaK_reserveregs(t, extra), t.fs.freereg, extra)
  IN IF hasmultret(s.e)
     THEN IF calls > 1 THEN luaK_reserveregs(luaK_setreturns(s, calls), calls - 1)
          ELSE luaK_setreturns(s, calls)
     ELSE Fill(IF s.e.k = "VVOID" THEN s ELSE luaK_exp2nextreg(s))

enterlevel(s) ==
  LET t == [s EXCEPT !.nCcalls = @ + 1]
  IN IF t.nCcalls > LUAI_MAXCCALLS THEN Fail(t, "chunk has too many syntax levels") ELSE t
leavelevel(s) == [s EXCEPT !.nCcalls = @ - 1]

enterblock(s, isbreakable) ==
  Assert_([s EXCEPT !.fs.bl = Append(@, [breaklist |-> NO_JUMP, nactvar |-> s.fs.nactvar,
                                          upval |-> FALSE, isbreakable |-> isbreakable])],
          s.fs.freereg = s.fs.nactvar)

leaveblock(s) ==
  LET bl == Last(s.fs.bl)
      Close(t) == IF bl.upval THEN luaK_code(t, Instr("CLOSE", bl.nactvar, 0, 0)) ELSE t
  IN Assert_(luaK_patchtohere([Close(removevars([s EXCEPT !.fs.bl = Front(@)], bl.nactvar))
                                 EXCEPT !.fs.freereg = bl.nactvar], bl.breaklist),
             ~bl.isbreakable \/ ~bl.upval)

--------------------------------------------------------------------------------
(* Functions.                                                                  *)

NewFs == [code |-> <<>>, k |-> <<>>, p |-> <<>>, upvalues |-> <<>>, actvar |-> <<>>,
          nactvar |-> 0, bl |-> <<>>, lasttarget |-> -1, jpc |-> NO_JUMP, freereg |-> 0,
          numparams |-> 0, is_vararg |-> {}, maxstacksize |-> 2]

open_func(s) == [s EXCEPT !.prev = Append(@, s.fs), !.fs = NewFs]

\* What is left of a function once it is compiled.
Proto(fs) == [code |-> fs.code, k |-> fs.k, p |-> fs.p, nups |-> Len(fs.upvalues),
              numparams |-> fs.numparams, is_vararg |-> fs.is_vararg,
              maxstacksize |-> fs.maxstacksize]

\* Ends the function; the instructions behind CLOSURE say where the upvalues are.
pushclosure(s) ==
  LET fs == s.fs
      Outer == [s EXCEPT !.fs = [Last(s.prev) EXCEPT !.p = Append(@, Proto(fs))], !.prev = Front(@)]
      Bind(t, u) == luaK_code(t, Instr(IF u.k = "VLOCAL" THEN "MOVE" ELSE "GETUPVAL", 0, u.info, 0))
      Closure(t) == FoldLeft(Bind, With(t, init_exp("VRELOCABLE", LastPc(t))), fs.upvalues)
  IN Closure(luaK_code(Outer, Instr("CLOSURE", 0, Len(Outer.fs.p) - 1, 0)))

close_func(s) == Assert_(luaK_ret(removevars(s, 0), 0, 0), s.fs.bl = <<>>)

\* The parameters; a function with ... also has a table arg, unless it uses ...
RECURSIVE Params(_, _)
Params(s, nparams) ==
  LET Param(t) == IF Token(t) = "," THEN Params(luaX_next(t), nparams + 1)
                  ELSE [t EXCEPT !.n = nparams + 1]
  IN CASE Token(s) = "name" -> Param(new_localvar(str_checkname(s), Name(s), nparams))
       [] Token(s) = "..." ->
            [new_localvar(luaX_next(s), "arg", nparams)
               EXCEPT !.fs.is_vararg = {"HASARG", "NEEDSARG", "ISVARARG"}, !.n = nparams + 1]
       [] OTHER -> [Fail(s, "<name> or ...") EXCEPT !.n = nparams]

parlist(s) ==
  LET Declare(t) == luaK_reserveregs([t EXCEPT !.fs.numparams = t.fs.nactvar - Cardinality(t.fs.is_vararg \cap {"HASARG"})],
                                     t.fs.nactvar)
      Adjust(t) == Declare(adjustlocalvars(t, t.n))
  IN Adjust(IF Token(s) = ")" THEN [s EXCEPT !.n = 0] ELSE Params(s, 0))

--------------------------------------------------------------------------------
(* Expressions.                                                                *)

\* The rules of the grammar call each other through Parse; x is the parameter a
\* rule has beside the state.
RECURSIVE Parse(_, _, _)

Chunk(s) == Parse("chunk", s, 0)
Block(s) == Parse("block", s, 0)
Body(s, needself) == Parse("body", s, needself)
Primary(s) == Parse("primaryexp", s, 0)
Expr(s) == Parse("subexpr", s, 0)
ExpList(s, n) == Parse("explist1", s, n)

field(s) ==
  LET Index(t) == luaK_indexed(checkname(luaX_next(t)), t.e)
  IN Index(luaK_exp2anyreg(s))

yindex(s) == checknext(luaK_exp2val(Expr(luaX_next(s))), "]")

body(s, needself) ==
  LET self(t) == IF needself THEN adjustlocalvars(new_localvar(t, "self", 0), 1) ELSE t
  IN pushclosure(close_func(check_match(Chunk(checknext(parlist(self(checknext(open_func(s), "("))), ")")),
                                        "end")))

explist1(s, n) ==
  LET More(t) == IF Token(t) = "," THEN ExpList(luaX_next(luaK_exp2nextreg(t)), n + 1)
                 ELSE [t EXCEPT !.n = n]
  IN More(Expr(s))

\* A constructor: table is where the table is, na and nh count the items, tostore
\* the list items not stored yet; the last of them is still in v.
recfield(s, cc) ==
  LET Store(t, key) == [luaK_code(t, Instr("SETTABLE", cc.table, key, RK(t.e)))
                          EXCEPT !.fs.freereg = s.fs.freereg]
      Value(t) == Store(luaK_exp2RK(Expr(t)), RK(t.e))
  IN Value(luaK_exp2RK(checknext(IF Token(s) = "name" THEN checkname(s) ELSE yindex(s), "=")))

closelistfield(s, cc) ==
  LET Flush(t) == IF cc.tostore # LFIELDS_PER_FLUSH THEN t
                  ELSE luaK_setlist(t, cc.table, cc.na, cc.tostore)
  IN IF cc.v.k = "VVOID" THEN s ELSE Flush(luaK_exp2nextreg(With(s, cc.v)))

lastlistfield(s, cc) ==
  IF cc.tostore = 0 THEN s
  ELSE IF hasmultret(cc.v)
  THEN luaK_setlist(luaK_setreturns(With(s, cc.v), LUA_MULTRET), cc.table, cc.na, LUA_MULTRET)
  ELSE luaK_setlist(IF cc.v.k = "VVOID" THEN s ELSE luaK_exp2nextreg(With(s, cc.v)),
                    cc.table, cc.na, cc.tostore)

void == init_exp("VVOID", 0)

\* The items up to the closing brace; the sizes go into the first instruction.
Items(s, cc) ==
  LET Next(t, c) == IF Token(t) \in {",", ";"} THEN Parse("Items", luaX_next(t), c)
                    ELSE Parse("Items", [t EXCEPT !.n = -1], c)
      Sized(t) == [t EXCEPT !.fs.code[cc.pc + 1].b = cc.na - IF hasmultret(cc.v) /\ cc.tostore > 0 THEN 1 ELSE 0,
                            !.fs.code[cc.pc + 1].c = cc.nh,
                            !.e = init_exp("VNONRELOC", cc.table), !.n = 0]
      closed == [cc EXCEPT !.v = void,
                           !.tostore = IF cc.v.k # "VVOID" /\ @ = LFIELDS_PER_FLUSH THEN 0 ELSE @]
      List(t) == Next(t, [closed EXCEPT !.v = t.e, !.na = @ + 1, !.tostore = @ + 1])
      Item(t) == IF Token(t) = "[" \/ (Token(t) = "name" /\ luaX_lookahead(t) = "=")
                 THEN Next(recfield(t, closed), [closed EXCEPT !.nh = @ + 1])
                 ELSE List(Expr(t))
  IN IF Token(s) = "}" \/ s.n = -1 \/ s.err # "" THEN Sized(lastlistfield(check_match(s, "}"), cc))
     ELSE Item(closelistfield(s, cc))

constructor(s) ==
  LET Start(t) == Parse("Items", [checknext(t, "{") EXCEPT !.n = 0],
                        [table |-> t.e.info, pc |-> Pc(s), na |-> 0, nh |-> 0, tostore |-> 0, v |-> void])
  IN Start(luaK_exp2nextreg(Relocatable(luaK_code(s, Instr("NEWTABLE", 0, 0, 0)))))

\* The arguments of a call; the function is in register base.
CodeCall(s, base, nparams) ==
  [luaK_code(s, Instr("CALL", base, nparams + 1, 2))
     EXCEPT !.e = init_exp("VCALL", Pc(s)), !.fs.freereg = base + 1]
CallCounted(s, base) == CodeCall(s, base, s.fs.freereg - (base + 1))
CallWith(s, base) ==
  IF hasmultret(s.e) THEN CodeCall(s, base, LUA_MULTRET)
  ELSE CallCounted(IF s.e.k = "VVOID" THEN s ELSE luaK_exp2nextreg(s), base)

funcargs(s, base) ==
  CallWith(CASE Token(s) = "(" ->
                  IF luaX_lookahead(s) = ")" THEN With(luaX_next(luaX_next(s)), void)
                  ELSE check_match(luaK_setreturns(ExpList(luaX_next(s), 1), LUA_MULTRET), ")")
             [] Token(s) = "{" -> Parse("constructor", s, 0)
             [] Token(s) = "string" -> luaX_next(codestring(s, s.tok.v))
             [] OTHER -> Fail(s, "function arguments expected"), base)

prefixexp(s) ==
  CASE Token(s) = "(" -> luaK_dischargevars(check_match(Expr(luaX_next(s)), ")"))
    [] Token(s) = "name" -> singlevar(s)
    [] OTHER -> With(Fail(s, "unexpected symbol"), void)

IndexTrailer(s) == luaK_indexed(yindex(s), s.e)
CallTrailer(s) == funcargs(s, s.e.info)
MethodTrailer(s, obj) == luaK_self(With(s, obj), s.e)

Trailers(s) ==
  IF Token(s) \notin {".", "[", ":", "(", "string", "{"} THEN s
  ELSE Parse("Trailers",
             CASE Token(s) = "." -> field(s)
               [] Token(s) = "[" -> IndexTrailer(luaK_exp2anyreg(s))
               [] OTHER -> CallTrailer(IF Token(s) = ":" THEN MethodTrailer(checkname(luaX_next(s)), s.e)
                                       ELSE luaK_exp2nextreg(s)), 0)

primaryexp(s) == Parse("Trailers", prefixexp(s), 0)

\* ... is only known in a function that has it, and makes the table arg needless.
Vararg(s) ==
  IF s.fs.is_vararg = {} THEN With(Fail(s, "cannot use ... outside a vararg function"), void)
  ELSE [luaK_code(s, Instr("VARARG", 0, 1, 0))
          EXCEPT !.fs.is_vararg = @ \ {"NEEDSARG"}, !.e = init_exp("VVARARG", Pc(s))]

simpleexp(s) ==
  CASE Token(s) = "number" -> luaX_next(With(s, [init_exp("VKNUM", 0) EXCEPT !.nval = s.tok.v]))
    [] Token(s) = "string" -> luaX_next(codestring(s, s.tok.v))
    [] Token(s) = "nil"    -> luaX_next(With(s, init_exp("VNIL", 0)))
    [] Token(s) = "true"   -> luaX_next(With(s, init_exp("VTRUE", 0)))
    [] Token(s) = "false"  -> luaX_next(With(s, init_exp("VFALSE", 0)))
    [] Token(s) = "..."    -> luaX_next(Vararg(s))
    [] Token(s) = "{"      -> Parse("constructor", s, 0)
    [] Token(s) = "function" -> Body(luaX_next(s), FALSE)
    [] OTHER -> Primary(s)

\* How strongly an operator binds to its left and to its right.
priority(op) ==
  CASE op \in {"+", "-"} -> <<6, 6>> [] op \in {"*", "/", "%"} -> <<7, 7>>
    [] op = "^" -> <<10, 9>> [] op = ".." -> <<5, 4>>
    [] op \in {"==", "~=", "<", "<=", ">", ">="} -> <<3, 3>>
    [] op = "and" -> <<2, 2>> [] op = "or" -> <<1, 1>>
    [] OTHER -> <<0, 0>>

UNARY_PRIORITY == 8

\* Operators with a priority higher than limit, and their right operands.
RightOperand(s, op, limit) ==
  Parse("Operators", luaK_posfix(Parse("subexpr", s, priority(op)[2]), op, s.e), limit)

Operators(s, limit) ==
  IF priority(Token(s))[1] <= limit THEN s
  ELSE RightOperand(luaK_infix(luaX_next(s), Token(s)), Token(s), limit)

RECURSIVE subexpr(_, _)
subexpr(s, limit) ==
  leavelevel(Operators(IF Token(s) \in {"not", "-", "#"}
                       THEN luaK_prefix(subexpr(luaX_next(enterlevel(s)), UNARY_PRIORITY), Token(s))
                       ELSE simpleexp(enterlevel(s)), limit))

--------------------------------------------------------------------------------
(* Statements.                                                                 *)

block_follow == {"else", "elseif", "end", "until", "eos"}

block(s) ==
  LET Leave(t) == leaveblock(Assert_(t, Last(t.fs.bl).breaklist = NO_JUMP))
  IN Leave(Chunk(enterblock(s, FALSE)))

\* The jumps taken when the condition is false are left in e.f.
cond(s) ==
  LET Go(t) == luaK_goiftrue(IF t.e.k = "VNIL" THEN [t EXCEPT !.e.k = "VFALSE"] ELSE t)
  IN Go(Expr(s))

\* A jump back to a position that is known.
JumpBack(s, target) == LET Patch(t) == luaK_patchlist(t, LastPc(t), target) IN Patch(luaK_jump(s))

\* Variables in loops that were captured are closed before the loop is left.
breakstat(s) ==
  LET b == SelectLastInSeq(s.fs.bl, LAMBDA x : x.isbreakable)
      upval == \E i \in b + 1 .. Len(s.fs.bl) : s.fs.bl[i].upval
      Jump(t) == [luaK_concat(t, t.fs.bl[b].breaklist, LastPc(t))
                    EXCEPT !.fs.bl[b].breaklist = Joined(@, LastPc(t))]
  IN IF b = 0 THEN Fail(s, "no loop to break")
     ELSE Jump(luaK_jump(IF upval THEN luaK_code(s, Instr("CLOSE", s.fs.bl[b].nactvar, 0, 0)) ELSE s))

whilestat(s) ==
  LET Loop(t) ==
        luaK_patchtohere(leaveblock(check_match(JumpBack(Block(checknext(enterblock(t, TRUE), "do")), Pc(s)),
                                                "end")), t.e.f)
  IN Loop(cond(luaK_getlabel(luaX_next(s))))

\* The condition is inside the scope of the body: with captured variables they
\* are closed on both ways out.
repeatstat(s) ==
  LET Until(t) ==
        leaveblock(IF ~Last(t.fs.bl).upval THEN luaK_patchlist(leaveblock(t), t.e.f, Pc(s))
                   ELSE JumpBack(leaveblock(luaK_patchtohere(breakstat(t), t.e.f)), Pc(s)))
  IN Until(cond(check_match(Chunk(luaX_next(enterblock(enterblock(luaK_getlabel(s), TRUE), FALSE))),
                            "until")))

\* The body of a loop, between the instruction that enters it, the last one of s,
\* and the one that continues it.
LoopBack(s, prep) == luaK_patchlist(s, LastPc(s), prep + 1)
LoopEnd(s, base, nvars, isnum, prep) ==
  LoopBack(IF isnum THEN luaK_code(s, Instr("FORLOOP", base, NO_JUMP, 0))
           ELSE luaK_jump(luaK_code(s, Instr("TFORLOOP", base, 0, nvars))), prep)
LoopBody(s, base, nvars, isnum) ==
  LoopEnd(luaK_patchtohere(leaveblock(Block(luaK_reserveregs(adjustlocalvars(enterblock(s, FALSE), nvars),
                                                             nvars))), LastPc(s)),
          base, nvars, isnum, LastPc(s))
LoopStart(s, base, isnum) ==
  IF isnum THEN luaK_code(s, Instr("FORPREP", base, NO_JUMP, 0)) ELSE luaK_jump(s)

forbody(s, base, nvars, isnum) ==
  LoopBody(LoopStart(checknext(adjustlocalvars(s, 3), "do"), base, isnum), base, nvars, isnum)

exp1(s) == luaK_exp2nextreg(Expr(s))

Control(s) == new_localvar(new_localvar(new_localvar(s, "(for)", 0), "(for)", 1), "(for)", 2)

StepOne(s) ==
  luaK_reserveregs(luaK_code(s, Instr("LOADK", s.fs.freereg, KIndex(s, <<"number", 1>>), 0)), 1)
StepOf(s) == IF Token(s) = "," THEN exp1(luaX_next(s)) ELSE StepOne(addk(s, <<"number", 1>>))

fornum(s, name) ==
  forbody(StepOf(exp1(checknext(exp1(checknext(new_localvar(Control(s), name, 3), "=")), ","))),
          s.fs.freereg, 1, TRUE)

\* Declares the names of a list, from the n-th variable on; s.n counts them.
RECURSIVE Names(_, _)
Names(s, n) ==
  LET More(t) == IF Token(t) = "," THEN Names(luaX_next(t), n + 1) ELSE [t EXCEPT !.n = n + 1]
  IN More(new_localvar(str_checkname(s), Name(s), n))

ForIn(s, base, nvars) ==
  forbody(luaK_checkstack(adjust_assign(s, 3, s.n), 3), base, nvars, FALSE)
ForNames(s, base) == ForIn(ExpList(checknext(s, "in"), 1), base, s.n - 3)
MoreNames(s) == IF Token(s) = "," THEN Names(luaX_next(s), 4) ELSE [s EXCEPT !.n = 4]

forlist(s, name) == ForNames(MoreNames(new_localvar(Control(s), name, 3)), s.fs.freereg)

ForKind(s, name) ==
  CASE Token(s) = "=" -> fornum(s, name)
    [] Token(s) \in {",", "in"} -> forlist(s, name)
    [] OTHER -> Fail(s, "= or in expected")
ForVar(s) == ForKind(str_checkname(s), Name(s))

forstat(s) == leaveblock(check_match(ForVar(luaX_next(enterblock(s, TRUE))), "end"))

\* The branches of an if, from the one whose keyword is next; escapelist holds the
\* jumps behind the last one.
RECURSIVE Branches(_, _)
Branches(s, escapelist) ==
  LET Finish(t, list) == check_match(luaK_patchtohere(t, list), "end")
      Escape(t) == luaK_concat(t, escapelist, LastPc(t))
      Next(t, flist) ==
        IF Token(t) = "elseif" THEN Branches(luaK_patchtohere(t, flist), Joined(escapelist, LastPc(t)))
        ELSE Finish(Block(luaX_next(luaK_patchtohere(t, flist))), Joined(escapelist, LastPc(t)))
      After(t, flist) ==
        IF Token(t) \in {"elseif", "else"} THEN Next(Escape(luaK_jump(t)), flist)
        ELSE Finish(luaK_concat(t, escapelist, flist), Joined(escapelist, flist))
      test_then_block(t) == After(Block(checknext(t, "then")), t.e.f)
  IN test_then_block(cond(luaX_next(s)))

ifstat(s) == Branches(s, NO_JUMP)

localfunc(s) ==
  LET Store(t) == luaK_storevar(t, init_exp("VLOCAL", s.fs.freereg))
  IN Store(Body(adjustlocalvars(luaK_reserveregs(new_localvar(str_checkname(s), Name(s), 0), 1), 1), FALSE))

localstat(s) ==
  LET Assign(t, nvars) == adjustlocalvars(adjust_assign(t, nvars, t.n), nvars)
      Values(t) == Assign(IF Token(t) = "=" THEN ExpList(luaX_next(t), 1)
                          ELSE [t EXCEPT !.e = void, !.n = 0], t.n)
  IN Values(Names(s, 0))

RECURSIVE Fields(_)
Fields(s) == IF Token(s) = "." THEN Fields(field(s)) ELSE s

DefineFunction(s, needself) == luaK_storevar(Body(s, needself), s.e)
MethodName(s) == IF Token(s) = ":" THEN DefineFunction(field(s), TRUE) ELSE DefineFunction(s, FALSE)

funcstat(s) == MethodName(Fields(singlevar(luaX_next(s))))

\* Mutant: an assignment goes ahead whatever its targets use.
IgnoresConflict(s, lhs) == [s |-> s, lhs |-> lhs]

\* A local that is assigned to while an earlier target uses it is copied first.
check_conflict(s, lhs) ==
  LET v == s.e.info
      Uses(x) == x.k = "VINDEXED" /\ (x.info = v \/ x.aux = v)
      Safe(x) == IF x.k # "VINDEXED" THEN x
                 ELSE [x EXCEPT !.info = IF @ = v THEN s.fs.freereg ELSE @,
                                !.aux  = IF @ = v THEN s.fs.freereg ELSE @]
  IN IF \E x \in Range(lhs) : Uses(x)
     THEN [s   |-> luaK_reserveregs(luaK_code(s, Instr("MOVE", s.fs.freereg, v, 0)), 1),
           lhs |-> [i \in DOMAIN lhs |-> Safe(lhs[i])]]
     ELSE [s |-> s, lhs |-> lhs]

\* Stores what is on the top of the stack, the last value first.
StoreAll(s, lhs) ==
  FoldRight(LAMBDA v, t : luaK_storevar(With(t, init_exp("VNONRELOC", t.fs.freereg - 1)), v), lhs, s)

AssignDropped(s, n, nvars) == IF n > nvars THEN [s EXCEPT !.fs.freereg = @ - (n - nvars)] ELSE s
AssignValues(s, lhs) ==
  IF s.n # Len(lhs) THEN StoreAll(AssignDropped(adjust_assign(s, Len(lhs), s.n), s.n, Len(lhs)), lhs)
  ELSE StoreAll(luaK_storevar(luaK_setoneret(s), Last(lhs)), Front(lhs))

AssignNext(r) ==
  Parse("assignment", errorlimit(r.s, Len(r.lhs), LUAI_MAXCCALLS - r.s.nCcalls, "variables in assignment"),
        Append(r.lhs, r.s.e))
AssignAlso(s, lhs) == AssignNext(IF s.e.k = "VLOCAL" THEN check_conflict(s, lhs) ELSE [s |-> s, lhs |-> lhs])

assignment(s, lhs) ==
  IF Last(lhs).k \notin {"VLOCAL", "VUPVAL", "VGLOBAL", "VINDEXED"} THEN Fail(s, "syntax error")
  ELSE IF Token(s) = "," THEN AssignAlso(Primary(luaX_next(s)), lhs)
  ELSE AssignValues(ExpList(checknext(s, "="), 1), lhs)

ExprStatement(s) == IF s.e.k = "VCALL" THEN [s EXCEPT !.fs.code[s.e.info + 1].c = 1]
                    ELSE Parse("assignment", s, <<s.e>>)

exprstat(s) == ExprStatement(Primary(s))

\* A call whose results are all returned becomes a tail call.
retstat(s) ==
  LET Many(t) ==
        luaK_ret(luaK_setreturns(IF t.e.k = "VCALL" /\ t.n = 1
                                 THEN Assert_([t EXCEPT !.fs.code[t.e.info + 1].op = "TAILCALL"],
                                              At(t, t.e.info).a = t.fs.nactvar)
                                 ELSE t, LUA_MULTRET), t.fs.nactvar, LUA_MULTRET)
      One(t) == luaK_ret(t, t.e.info, 1)
      Some(t) == luaK_ret(Assert_(t, t.n = t.fs.freereg - t.fs.nactvar), t.fs.nactvar, t.n)
      Values(t) == IF hasmultret(t.e) THEN Many(t)
                   ELSE IF t.n = 1 THEN One(luaK_exp2anyreg(t)) ELSE Some(luaK_exp2nextreg(t))
      Which(t) == IF Token(t) \in block_follow \cup {";"} THEN luaK_ret(t, 0, 0)
                  ELSE Values(ExpList(t, 1))
  IN Which(luaX_next(s))

statement(s) ==
  CASE Token(s) = "if"     -> ifstat(s)
    [] Token(s) = "while"  -> whilestat(s)
    [] Token(s) = "do"     -> check_match(Block(luaX_next(s)), "end")
    [] Token(s) = "for"    -> forstat(s)
    [] Token(s) = "repeat" -> repeatstat(s)
    [] Token(s) = "function" -> funcstat(s)
    [] Token(s) = "local"  -> IF luaX_lookahead(s) = "function" THEN localfunc(luaX_next(luaX_next(s)))
                              ELSE localstat(luaX_next(s))
    [] Token(s) = "return" -> retstat(s)
    [] Token(s) = "break"  -> breakstat(luaX_next(s))
    [] OTHER -> exprstat(s)

\* The temporaries of a statement are free again when it ends.
RECURSIVE Statements(_)
Statements(s) ==
  LET Free(t) == [Assert_(t, t.fs.maxstacksize >= t.fs.freereg /\ t.fs.freereg >= t.fs.nactvar)
                    EXCEPT !.fs.freereg = t.fs.nactvar]
  IN IF Token(s) \in block_follow THEN s
     ELSE IF Token(s) \in {"return", "break"} THEN Free(Skip(statement(s), ";"))
     ELSE Statements(Free(Skip(statement(s), ";")))

chunk(s) == leavelevel(Statements(enterlevel(s)))

Parse(rule, s, x) ==
  CASE rule = "chunk"       -> chunk(s)
    [] rule = "block"       -> block(s)
    [] rule = "body"        -> body(s, x)
    [] rule = "constructor" -> constructor(s)
    [] rule = "Items"       -> Items(s, x)
    [] rule = "primaryexp"  -> primaryexp(s)
    [] rule = "Trailers"    -> Trailers(s)
    [] rule = "subexpr"     -> subexpr(s, x)
    [] rule = "Operators"   -> Operators(s, x)
    [] rule = "explist1"    -> explist1(s, x)
    [] rule = "assignment"  -> assignment(s, x)

\* A first line with # is for the shell: an empty one is read instead of it.
luaL_loadfile(text) ==
  IF text # <<>> /\ text[1] = "#"
  THEN <<"\n">> \o next(SkipWhile([z |-> text], LAMBDA c : c # "\n")).z
  ELSE text

\* Compiles the main function: what is left is the state with its prototype.
luaY_parser(toks) ==
  LET start == [tok |-> [t |-> "eos", v |-> 0], toks |-> toks,
                fs |-> [NewFs EXCEPT !.is_vararg = {"ISVARARG"}], prev |-> <<>>, e |-> void,
                n |-> 0, nCcalls |-> 0, err |-> "", ok |-> TRUE]
      Eos(t) == IF Token(t) = "eos" THEN t ELSE Fail(t, "eos")
      Result(t) == [main |-> Proto(t.fs), err |-> t.err, ok |-> t.ok]
  IN Result(close_func(Eos(Chunk(luaX_next(start)))))

================================================================================
