------------------------------- MODULE LuaLang -------------------------------
(***************************************************************************)
(* What a program of the scripting language means, by the structure of the *)
(* program and without stack, registers or instructions: the specification *)
(* that LuaParser, LuaCode and LuaVM together are checked against. A       *)
(* program is a tree; Source writes it as the tokens that the compiler     *)
(* reads, and Meaning says what running it prints and returns.             *)
(***************************************************************************)
EXTENDS Integers, Sequences, SequencesExt, FiniteSets, TLC

--------------------------------------------------------------------------------
(* Trees. The field t is the kind of an expression or of a statement.          *)

NilX == [t |-> "nil"]
True == [t |-> "true"]
False == [t |-> "false"]
Dots == [t |-> "..."]
Num(n) == [t |-> "number", number |-> n]
Str(s) == [t |-> "string", string |-> s]
Var(n) == [t |-> "name", name |-> n]
Idx(o, key) == [t |-> "index", o |-> o, key |-> key]
Field(o, n) == Idx(o, Str(n))
App(f, xs) == [t |-> "call", f |-> f, xs |-> xs]
Fn(f, xs) == App(Var(f), xs)
Meth(o, n, xs) == [t |-> "method", o |-> o, n |-> n, xs |-> xs]
Fun(ps, b) == [t |-> "function", ps |-> ps, b |-> b, arg |-> FALSE]   \* ps may end in "..."
OldFun(ps, b) == [Fun(ps, b) EXCEPT !.arg = TRUE]          \* reads arg instead of ...
Bin(op, l, r) == [t |-> "binary", op |-> op, l |-> l, r |-> r]
Un(op, x) == [t |-> "unary", op |-> op, x |-> x]
Paren(x) == [t |-> "paren", x |-> x]
Tab(items) == [t |-> "table", items |-> items]             \* of <<x>> and <<key, x>>

Local(ns, xs) == [t |-> "local", ns |-> ns, xs |-> xs]
Set(vs, xs) == [t |-> "set", vs |-> vs, xs |-> xs]
Do(x) == [t |-> "do", x |-> x]                             \* a call as a statement
Blk(b) == [t |-> "block", b |-> b]
While(c, b) == [t |-> "while", c |-> c, b |-> b]
Repeat(b, c) == [t |-> "repeat", c |-> c, b |-> b]
If(arms, e) == [t |-> "if", arms |-> arms, e |-> e]        \* arms are <<condition, block>>
For(n, xs, b) == [t |-> "for", n |-> n, xs |-> xs, b |-> b]
ForIn(ns, xs, b) == [t |-> "forin", ns |-> ns, xs |-> xs, b |-> b]
LocalFun(n, f) == [t |-> "localfun", n |-> n, f |-> f]
SetFun(ns, m, f) == [t |-> "setfun", ns |-> ns, m |-> m, f |-> f]  \* function a.b:m
Return(xs) == [t |-> "return", xs |-> xs]
Break == [t |-> "break"]

--------------------------------------------------------------------------------
(* The source of a program. Parentheses are only written where the precedence  *)
(* of the operators asks for them.                                             *)

Tok(s) == <<[t |-> s, v |-> 0]>>
NameTok(n) == IF n = "..." THEN Tok(n) ELSE <<[t |-> "name", v |-> n]>>

Precedence(x) ==
  CASE x.t = "binary" -> (CASE x.op = "or" -> 1 [] x.op = "and" -> 2
                            [] x.op \in {"<", ">", "<=", ">=", "~=", "=="} -> 3
                            [] x.op = ".." -> 4 [] x.op \in {"+", "-"} -> 5
                            [] x.op \in {"*", "/", "%"} -> 6 [] x.op = "^" -> 8)
    [] x.t = "unary" -> 7
    [] OTHER -> 9

RightAssociative == {"..", "^"}

RECURSIVE Write(_)

Between(tok, parts) ==
  FoldLeftDomain(LAMBDA acc, i : acc \o (IF i > 1 THEN Tok(tok) ELSE <<>>) \o parts[i], <<>>, parts)
List(xs) == Between(",", [i \in DOMAIN xs |-> Write(xs[i])])
NameList(ns) == Between(",", [i \in DOMAIN ns |-> NameTok(ns[i])])
Wrap(x) == Tok("(") \o Write(x) \o Tok(")")
Block(b) == FlattenSeq([i \in DOMAIN b |-> Write(b[i])])

Operand(x, op, p, right) ==
  IF Precedence(x) > p \/ (Precedence(x) = p /\ (right <=> op \in RightAssociative)) THEN Write(x) ELSE Wrap(x)
Prefix(x) == IF x.t \in {"name", "index", "call", "method", "paren"} THEN Write(x) ELSE Wrap(x)
FunBody(f) == Tok("(") \o NameList(f.ps) \o Tok(")") \o Block(f.b) \o Tok("end")
Item(it) ==
  IF Len(it) = 1 THEN Write(it[1])
  ELSE (IF it[1].t = "string" THEN NameTok(it[1].string) ELSE Tok("[") \o Write(it[1]) \o Tok("]"))
       \o Tok("=") \o Write(it[2])

Write(x) ==
  CASE x.t \in {"nil", "true", "false", "..."} -> Tok(x.t)
    [] x.t \in {"number", "string", "name"} -> <<[t |-> x.t, v |-> x[x.t]]>>
    [] x.t = "index" -> Prefix(x.o) \o (IF x.key.t = "string" THEN Tok(".") \o NameTok(x.key.string)
                                        ELSE Tok("[") \o Write(x.key) \o Tok("]"))
    [] x.t = "call" -> Prefix(x.f) \o (IF Len(x.xs) = 1 /\ x.xs[1].t \in {"string", "table"} THEN Write(x.xs[1])
                                       ELSE Tok("(") \o List(x.xs) \o Tok(")"))
    [] x.t = "method" -> Prefix(x.o) \o Tok(":") \o NameTok(x.n) \o Tok("(") \o List(x.xs) \o Tok(")")
    [] x.t = "function" -> Tok("function") \o FunBody(x)
    [] x.t = "binary" -> Operand(x.l, x.op, Precedence(x), FALSE) \o Tok(x.op)
                         \o Operand(x.r, x.op, Precedence(x), TRUE)
    [] x.t = "unary" -> Tok(x.op) \o (IF Precedence(x.x) >= 7 THEN Write(x.x) ELSE Wrap(x.x))
    [] x.t = "paren" -> Wrap(x.x)
    [] x.t = "table" -> Tok("{") \o Between(",", [i \in DOMAIN x.items |-> Item(x.items[i])]) \o Tok("}")
    [] x.t = "local" -> Tok("local") \o NameList(x.ns) \o (IF x.xs = <<>> THEN <<>> ELSE Tok("=") \o List(x.xs))
    [] x.t = "set" -> List(x.vs) \o Tok("=") \o List(x.xs)
    [] x.t = "do" -> Write(x.x) \o Tok(";")
    [] x.t = "block" -> Tok("do") \o Block(x.b) \o Tok("end")
    [] x.t = "while" -> Tok("while") \o Write(x.c) \o Tok("do") \o Block(x.b) \o Tok("end")
    [] x.t = "repeat" -> Tok("repeat") \o Block(x.b) \o Tok("until") \o Write(x.c)
    [] x.t = "if" -> FlattenSeq([i \in DOMAIN x.arms |-> Tok(IF i = 1 THEN "if" ELSE "elseif") \o Write(x.arms[i][1])
                                                          \o Tok("then") \o Block(x.arms[i][2])])
                     \o (IF x.e = <<>> THEN <<>> ELSE Tok("else") \o Block(x.e)) \o Tok("end")
    [] x.t = "for" -> Tok("for") \o NameTok(x.n) \o Tok("=") \o List(x.xs) \o Tok("do") \o Block(x.b) \o Tok("end")
    [] x.t = "forin" -> Tok("for") \o NameList(x.ns) \o Tok("in") \o List(x.xs) \o Tok("do") \o Block(x.b) \o Tok("end")
    [] x.t = "localfun" -> Tok("local") \o Tok("function") \o NameTok(x.n) \o FunBody(x.f)
    [] x.t = "setfun" -> Tok("function") \o Between(".", [i \in DOMAIN x.ns |-> NameTok(x.ns[i])])
                         \o (IF x.m = "" THEN <<>> ELSE Tok(":") \o NameTok(x.m)) \o FunBody(x.f)
    [] x.t = "return" -> Tok("return") \o List(x.xs)
    [] x.t = "break" -> Tok("break")

Source(program) == Block(program)

--------------------------------------------------------------------------------
(* Meaning. A store s has the cells of variables, the tables, the functions    *)
(* and what was printed. An outcome has the store, values v and how the        *)
(* evaluation went: "ok", "err" with the error, "ret" with the results, "brk". *)

NilV == <<"nil", 0>>
BoolV(b) == <<"boolean", b>>
NumV(n) == <<"number", n>>
StrV(s) == <<"string", s>>
Falsy(v) == v = NilV \/ v = BoolV(FALSE)

Ok(s, v) == [g |-> "ok", s |-> s, v |-> v]
Err(s, msg) == [g |-> "err", s |-> s, v |-> <<StrV(msg)>>]
Then(r, F(_)) == IF r.g = "ok" THEN F(r) ELSE r
First(r) == IF r.v = <<>> THEN NilV ELSE r.v[1]
One(r) == IF r.g = "ok" THEN [r EXCEPT !.v = <<First(r)>>] ELSE r

\* What evaluates nodes: a block, an expression, the application of a function.
RECURSIVE Eval(_, _, _, _)
Exp(x, env, s) == Eval("exp", x, env, s)
Exp1(x, env, s) == One(Eval("exp", x, env, s))
Exps(xs, env, s) == Eval("list", xs, env, s)
Run(b, env, s) == Eval("run", b, env, s)
Apply(f, args, s) == Eval("apply", <<f, args>>, <<>>, s)

\* Variables are cells; the innermost of a name is the last in the environment.
Bind(env, s, ns, vs) ==
  [env |-> [env EXCEPT !.vars = @ \o [i \in DOMAIN ns |-> <<ns[i], Len(s.cells) + i>>]],
   s   |-> [s EXCEPT !.cells = @ \o [i \in DOMAIN ns |-> IF i <= Len(vs) THEN vs[i] ELSE NilV]]]
Cell(env, n) == LET i == SelectLastInSeq(env.vars, LAMBDA b : b[1] = n) IN IF i = 0 THEN 0 ELSE env.vars[i][2]

RawAt(s, t, key) == LET h == s.tables[t[2]].map IN IF key \in DOMAIN h THEN h[key] ELSE NilV
RawPut(s, t, key, v) ==
  [s EXCEPT !.tables[t[2]].map = IF v = NilV THEN [k \in DOMAIN @ \ {key} |-> @[k]] ELSE (key :> v) @@ @]
Size(s, t) == Cardinality({k \in DOMAIN s.tables[t[2]].map : k[1] = "number" /\ k[2] > 0})
MetaOf(s, v, event) ==
  IF v[1] # "table" \/ s.tables[v[2]].meta = 0 THEN NilV
  ELSE RawAt(s, <<"table", s.tables[v[2]].meta>>, StrV(event))
Callable(v) == v[1] \in {"function", "cfunction"}

RECURSIVE Index(_, _, _, _)
Index(s, t, key, n) ==
  LET h == MetaOf(s, t, "__index")
  IN IF n = 0 THEN Err(s, "loop in gettable")
     ELSE IF t[1] = "table" /\ (RawAt(s, t, key) # NilV \/ h = NilV) THEN Ok(s, <<RawAt(s, t, key)>>)
     ELSE IF h = NilV THEN Err(s, "attempt to index")
     ELSE IF Callable(h) THEN One(Apply(h, <<t, key>>, s))
     ELSE Index(s, h, key, n - 1)

RECURSIVE SetIndex(_, _, _, _, _)
SetIndex(s, t, key, v, n) ==
  LET h == MetaOf(s, t, "__newindex")
  IN IF n = 0 THEN Err(s, "loop in settable")
     ELSE IF t[1] = "table" /\ key = NilV THEN Err(s, "table index is nil")
     ELSE IF t[1] = "table" /\ (RawAt(s, t, key) # NilV \/ h = NilV) THEN Ok(RawPut(s, t, key, v), <<>>)
     ELSE IF h = NilV THEN Err(s, "attempt to index")
     ELSE IF Callable(h) THEN Apply(h, <<t, key, v>>, s)
     ELSE SetIndex(s, h, key, v, n - 1)

Loops == 3

--------------------------------------------------------------------------------
(* Operators.                                                                  *)

AsNumber(v) ==
  IF v[1] = "string" /\ \E n \in -9 .. 99 : ToString(n) = v[2]
  THEN NumV(CHOOSE n \in -9 .. 99 : ToString(n) = v[2]) ELSE v
AsString(v) == IF v[1] = "number" THEN StrV(ToString(v[2])) ELSE v
Infinity == 1000000

Compute(op, a, b) ==
  CASE op = "+" -> a + b [] op = "-" -> a - b [] op = "*" -> a * b
    [] op = "/" -> IF b = 0 THEN Infinity ELSE a \div b
    [] op = "%" -> IF b = 0 THEN Infinity ELSE a % b
    [] op = "^" -> a ^ b

ByMeta(s, l, r, event, msg) ==
  LET h == IF MetaOf(s, l, event) # NilV THEN MetaOf(s, l, event) ELSE MetaOf(s, r, event)
  IN IF h = NilV THEN Err(s, msg) ELSE One(Apply(h, <<l, r>>, s))

EventOf(op) ==
  CASE op = "+" -> "__add" [] op = "-" -> "__sub" [] op = "*" -> "__mul" [] op = "/" -> "__div"
    [] op = "%" -> "__mod" [] op = "^" -> "__pow"

ArithV(s, op, l, r) ==
  IF AsNumber(l)[1] = "number" /\ AsNumber(r)[1] = "number"
  THEN Ok(s, <<NumV(Compute(op, AsNumber(l)[2], AsNumber(r)[2]))>>)
  ELSE ByMeta(s, l, r, EventOf(op), "attempt to perform arithmetic")

Shared(s, l, r, event) == IF MetaOf(s, l, event) = MetaOf(s, r, event) THEN MetaOf(s, l, event) ELSE NilV
Truth(r, not) == IF r.g = "ok" THEN [r EXCEPT !.v = <<BoolV(Falsy(First(r)) = not)>>] ELSE r

EqualV(s, l, r) ==
  IF l = r \/ l[1] # "table" \/ r[1] # "table" \/ Shared(s, l, r, "__eq") = NilV THEN Ok(s, <<BoolV(l = r)>>)
  ELSE Truth(Apply(Shared(s, l, r, "__eq"), <<l, r>>, s), FALSE)

Letters == "abcdefghijklmnopqrstuvwxyz"
Place(c) == CHOOSE i \in 1 .. 26 : SubSeq(Letters, i, i) = c
Precedes(a, b) ==   \* of words in small letters
  \E i \in 0 .. Len(a) : /\ SubSeq(a, 1, i) = SubSeq(b, 1, i) /\ i < Len(b)
                         /\ i = Len(a) \/ Place(SubSeq(a, i + 1, i + 1)) < Place(SubSeq(b, i + 1, i + 1))

LessV(s, l, r) ==
  CASE l[1] = "number" /\ r[1] = "number" -> Ok(s, <<BoolV(l[2] < r[2])>>)
    [] l[1] = "string" /\ r[1] = "string" -> Ok(s, <<BoolV(Precedes(l[2], r[2]))>>)
    [] OTHER -> IF Shared(s, l, r, "__lt") = NilV THEN Err(s, "attempt to compare")
                ELSE Truth(Apply(Shared(s, l, r, "__lt"), <<l, r>>, s), FALSE)

LessEqV(s, l, r) ==
  CASE l[1] = "number" /\ r[1] = "number" -> Ok(s, <<BoolV(l[2] <= r[2])>>)
    [] l[1] = "string" /\ r[1] = "string" -> Ok(s, <<BoolV(~Precedes(r[2], l[2]))>>)
    [] OTHER -> IF Shared(s, l, r, "__le") # NilV THEN Truth(Apply(Shared(s, l, r, "__le"), <<l, r>>, s), FALSE)
                ELSE IF Shared(s, r, l, "__lt") # NilV THEN Truth(Apply(Shared(s, r, l, "__lt"), <<r, l>>, s), TRUE)
                ELSE Err(s, "attempt to compare")

BinaryV(s, op, l, r) ==
  CASE op \in {"+", "-", "*", "/", "%", "^"} -> ArithV(s, op, l, r)
    [] op = ".." -> IF l[1] \in {"string", "number"} /\ r[1] \in {"string", "number"}
                    THEN Ok(s, <<StrV(AsString(l)[2] \o AsString(r)[2])>>)
                    ELSE ByMeta(s, l, r, "__concat", "attempt to concatenate")
    [] op = "==" -> EqualV(s, l, r)
    [] op = "~=" -> Truth(EqualV(s, l, r), TRUE)
    [] op = "<"  -> LessV(s, l, r)
    [] op = ">"  -> LessV(s, r, l)
    [] op = "<=" -> LessEqV(s, l, r)
    [] op = ">=" -> LessEqV(s, r, l)

UnaryV(s, op, v) ==
  CASE op = "not" -> Ok(s, <<BoolV(Falsy(v))>>)
    [] op = "-" -> IF AsNumber(v)[1] = "number" THEN Ok(s, <<NumV(-AsNumber(v)[2])>>)
                   ELSE ByMeta(s, v, v, "__unm", "attempt to perform arithmetic")
    [] op = "#" -> CASE v[1] = "string" -> Ok(s, <<NumV(Len(v[2]))>>)
                     [] v[1] = "table"  -> Ok(s, <<NumV(Size(s, v))>>)
                     [] OTHER -> Err(s, "attempt to get length")

--------------------------------------------------------------------------------
(* Expressions.                                                                *)

GlobalsT == <<"table", 1>>
Read(n, env, s) == IF Cell(env, n) > 0 THEN Ok(s, <<s.cells[Cell(env, n)]>>) ELSE Index(s, GlobalsT, StrV(n), Loops)
Assign(n, v, env, s) ==
  IF Cell(env, n) > 0 THEN Ok([s EXCEPT !.cells[Cell(env, n)] = v], <<>>) ELSE SetIndex(s, GlobalsT, StrV(n), v, Loops)

Both(x, y, env, s, F(_, _, _)) ==
  Then(Exp1(x, env, s), LAMBDA a : Then(Exp1(y, env, a.s), LAMBDA b : F(b.s, a.v[1], b.v[1])))

Logical(op, l, r, env, s) ==
  Then(Exp1(l, env, s), LAMBDA a : IF Falsy(a.v[1]) = (op = "and") THEN a ELSE Exp1(r, env, a.s))

NewFun(x, env, s) == Ok([s EXCEPT !.funs = Append(@, [ps |-> x.ps, b |-> x.b, arg |-> x.arg, env |-> env])],
                        <<<<"function", Len(s.funs) + 1>>>>)

\* The items of a constructor from the i-th on; n list items were stored.
RECURSIVE Items(_, _, _, _, _, _)
Items(items, i, n, t, env, s) ==
  LET it == items[i]
      Listed(r) == FoldLeftDomain(LAMBDA z, j : RawPut(z, t, NumV(n + j), r.v[j]), r.s, r.v)
  IN IF i > Len(items) THEN Ok(s, <<t>>)
     ELSE IF Len(it) = 2
     THEN Both(it[1], it[2], env, s, LAMBDA z, key, v : IF key = NilV THEN Err(z, "table index is nil")
                                                       ELSE Items(items, i + 1, n, t, env, RawPut(z, t, key, v)))
     ELSE Then(IF i = Len(items) THEN Exp(it[1], env, s) ELSE Exp1(it[1], env, s),
               LAMBDA r : Items(items, i + 1, n + 1, t, env, Listed(r)))

NewTab(s) == [s EXCEPT !.tables = Append(@, [map |-> << >>, meta |-> 0])]

EvalExp(x, env, s) ==
  CASE x.t = "nil" -> Ok(s, <<NilV>>)
    [] x.t \in {"true", "false"} -> Ok(s, <<BoolV(x.t = "true")>>)
    [] x.t \in {"number", "string"} -> Ok(s, <<<<x.t, x[x.t]>>>>)
    [] x.t = "..." -> Ok(s, env.dots)
    [] x.t = "name" -> Read(x.name, env, s)
    [] x.t = "index" -> Both(x.o, x.key, env, s, LAMBDA z, o, key : Index(z, o, key, Loops))
    [] x.t = "call" -> Then(Exp1(x.f, env, s), LAMBDA f : Then(Exps(x.xs, env, f.s), LAMBDA a : Apply(f.v[1], a.v, a.s)))
    [] x.t = "method" ->
         Then(Exp1(x.o, env, s), LAMBDA o : Then(Index(o.s, o.v[1], StrV(x.n), Loops), LAMBDA f :
           Then(Exps(x.xs, env, f.s), LAMBDA a : Apply(f.v[1], o.v \o a.v, a.s))))
    [] x.t = "function" -> NewFun(x, env, s)
    [] x.t = "binary" -> IF x.op \in {"and", "or"} THEN Logical(x.op, x.l, x.r, env, s)
                         ELSE Both(x.l, x.r, env, s, LAMBDA z, l, r : BinaryV(z, x.op, l, r))
    [] x.t = "unary" -> Then(Exp1(x.x, env, s), LAMBDA a : UnaryV(a.s, x.op, a.v[1]))
    [] x.t = "paren" -> Exp1(x.x, env, s)
    [] x.t = "table" -> Items(x.items, 1, 0, <<"table", Len(s.tables) + 1>>, env, NewTab(s))

EvalList(xs, env, s) ==
  IF xs = <<>> THEN Ok(s, <<>>)
  ELSE IF Len(xs) = 1 THEN Exp(xs[1], env, s)
  ELSE Then(Exp1(xs[1], env, s), LAMBDA a : Then(Exps(Tail(xs), env, a.s), LAMBDA b : Ok(b.s, a.v \o b.v)))

--------------------------------------------------------------------------------
(* Functions.                                                                  *)

ArgTable(s, extra) ==
  LET t == <<"table", Len(s.tables) + 1>>
  IN FoldLeftDomain(LAMBDA z, i : RawPut(z, t, NumV(i), extra[i]), RawPut(NewTab(s), t, StrV("n"), NumV(Len(extra))), extra)

CallFun(f, args, s) ==
  LET vararg == f.ps # <<>> /\ Last(f.ps) = "..."
      ps     == IF vararg THEN Front(f.ps) ELSE f.ps
      extra  == IF vararg THEN SubSeq(args, Len(ps) + 1, Len(args)) ELSE <<>>
      Body(b) == Run(f.b, [b.env EXCEPT !.dots = extra], b.s)
      Left(r) == IF r.g = "ret" THEN Ok(r.s, r.v) ELSE IF r.g = "ok" THEN Ok(r.s, <<>>) ELSE r
  IN Left(IF f.arg THEN Body(Bind(f.env, ArgTable(s, extra), Append(ps, "arg"),
                                  [i \in 1 .. Len(ps) |-> IF i <= Len(args) THEN args[i] ELSE NilV]
                                  \o <<<<"table", Len(s.tables) + 1>>>>))
          ELSE Body(Bind(f.env, s, ps, args)))

From(args, n) == IF n < 1 THEN <<>> ELSE SubSeq(args, n + 1, Len(args))
Library(name, args, s) ==
  CASE name = "print" -> Ok([s EXCEPT !.out = Append(@, args)], <<>>)
    [] name = "error" -> [g |-> "err", s |-> s, v |-> <<IF args = <<>> THEN NilV ELSE args[1]>>]
    [] name = "pcall" -> LET Caught(r) == Ok(r.s, <<BoolV(r.g = "ok")>> \o r.v)
                         IN IF args = <<>> THEN Err(s, "value expected") ELSE Caught(Apply(args[1], Tail(args), s))
    [] name = "setmetatable" ->
         IF args = <<>> \/ args[1][1] # "table" THEN Err(s, "table expected")
         ELSE IF Len(args) < 2 \/ args[2][1] \notin {"nil", "table"} THEN Err(s, "nil or table expected")
         ELSE IF MetaOf(s, args[1], "__metatable") # NilV THEN Err(s, "cannot change a protected metatable")
         ELSE Ok([s EXCEPT !.tables[args[1][2]].meta = args[2][2]], <<args[1]>>)
    [] name = "unpack" -> IF args = <<>> \/ args[1][1] # "table" THEN Err(s, "table expected")
                          ELSE Ok(s, [i \in 1 .. Size(s, args[1]) |-> RawAt(s, args[1], NumV(i))])
    [] name = "select" ->
         IF args = <<>> THEN Err(s, "number expected")
         ELSE IF args[1] = StrV("#") THEN Ok(s, <<NumV(Len(args) - 1)>>)
         ELSE IF AsNumber(args[1])[1] # "number" THEN Err(s, "number expected")
         ELSE LET n == AsNumber(args[1])[2]
              IN IF n = 0 \/ n <= -Len(args) THEN Err(s, "index out of range")
                 ELSE Ok(s, From(args, IF n < 0 THEN Len(args) + n ELSE n))

EvalApply(f, args, s) ==
  CASE f[1] = "function" -> CallFun(s.funs[f[2]], args, s)
    [] f[1] = "cfunction" -> Library(f[2], args, s)
    [] OTHER -> IF Callable(MetaOf(s, f, "__call")) THEN Apply(MetaOf(s, f, "__call"), <<f>> \o args, s)
                ELSE Err(s, "attempt to call")

--------------------------------------------------------------------------------
(* Statements.                                                                 *)

\* One iteration of a loop, and the ones that follow.
Loop(r, again(_)) == IF r.g = "brk" THEN Ok(r.s, <<>>) ELSE Then(r, again)
WithVars(b, ns, vs, env, s) == LET In(y) == Run(b, y.env, y.s) IN In(Bind(env, s, ns, vs))

EvalWhile(x, env, s) ==
  Then(Exp1(x.c, env, s), LAMBDA c :
    IF Falsy(c.v[1]) THEN Ok(c.s, <<>>) ELSE Loop(Run(x.b, env, c.s), LAMBDA r : Eval("while", x, env, r.s)))

\* The condition is the last thing in the scope of the body.
EvalRepeat(x, env, s) ==
  Loop(Run(Append(x.b, [t |-> "until", c |-> x.c]), env, s), LAMBDA r : Eval("repeat", x, env, r.s))

EvalFor(x, v, env, s) ==   \* v has the counter, the limit and the step
  IF (v[3] > 0 /\ v[1] > v[2]) \/ (v[3] <= 0 /\ v[1] < v[2]) THEN Ok(s, <<>>)
  ELSE Loop(WithVars(x.b, <<x.n>>, <<NumV(v[1])>>, env, s),
            LAMBDA r : Eval("for", <<x, <<v[1] + v[3], v[2], v[3]>>>>, env, r.s))
StartFor(x, v, env, s) ==
  LET ns == [i \in 1 .. 3 |-> IF i <= Len(v) THEN AsNumber(v[i]) ELSE NumV(1)]
  IN IF ns[1][1] # "number" THEN Err(s, "'for' initial value must be a number")
     ELSE IF ns[2][1] # "number" THEN Err(s, "'for' limit must be a number")
     ELSE IF ns[3][1] # "number" THEN Err(s, "'for' step must be a number")
     ELSE EvalFor(x, [i \in 1 .. 3 |-> ns[i][2]], env, s)
\* Each limit of the loop is one expression, the step may be missing.
Limits(xs, env, s) == Exps([i \in DOMAIN xs |-> Paren(xs[i])], env, s)

EvalForIn(x, v, env, s) ==   \* v has the iterator, its state and the control variable
  Then(Apply(v[1], <<v[2], v[3]>>, s), LAMBDA r :
    IF First(r) = NilV THEN Ok(r.s, <<>>)
    ELSE Loop(WithVars(x.b, x.ns, r.v, env, r.s),
              LAMBDA z : Eval("forin", <<x, <<v[1], v[2], First(r)>>>>, env, z.s)))
Three(v) == [i \in 1 .. 3 |-> IF i <= Len(v) THEN v[i] ELSE NilV]

RECURSIVE EvalIf(_, _, _, _)
EvalIf(arms, e, env, s) ==
  IF arms = <<>> THEN Run(e, env, s)
  ELSE Then(Exp1(arms[1][1], env, s), LAMBDA c :
         IF Falsy(c.v[1]) THEN EvalIf(Tail(arms), e, env, c.s) ELSE Run(arms[1][2], env, c.s))

\* The targets of an assignment, evaluated to places, and the values put there.
RECURSIVE Places(_, _, _)
Places(vs, env, s) ==
  IF vs = <<>> THEN Ok(s, <<>>)
  ELSE Then(IF vs[1].t = "name" THEN Ok(s, <<vs[1].name>>)
            ELSE Both(vs[1].o, vs[1].key, env, s, LAMBDA z, o, key : Ok(z, <<<<o, key>>>>)),
            LAMBDA a : Then(Places(Tail(vs), env, a.s), LAMBDA b : Ok(b.s, a.v \o b.v)))

RECURSIVE StoreAt(_, _, _, _, _)
StoreAt(vs, places, values, env, s) ==
  LET n == Len(vs)
      v == IF n <= Len(values) THEN values[n] ELSE NilV
  IN IF n = 0 THEN Ok(s, <<>>)
     ELSE Then(IF vs[n].t = "name" THEN Assign(places[n], v, env, s)
               ELSE SetIndex(s, places[n][1], places[n][2], v, Loops),
               LAMBDA r : StoreAt(Front(vs), Front(places), values, env, r.s))

\* A function statement is an assignment to a name or to a field of it.
Target(ns) == FoldLeft(LAMBDA x, n : Field(x, n), Var(ns[1]), Tail(ns))
FunSet(x) ==
  IF x.m = "" THEN Set(<<Target(x.ns)>>, <<x.f>>)
  ELSE Set(<<Field(Target(x.ns), x.m)>>, <<[x.f EXCEPT !.ps = <<"self">> \o @]>>)

EvalSet(x, env, s) ==
  Then(Places(x.vs, env, s), LAMBDA p : Then(Exps(x.xs, env, p.s), LAMBDA r : StoreAt(x.vs, p.v, r.v, env, r.s)))

EvalStat(x, env, s) ==
  CASE x.t = "set" -> EvalSet(x, env, s)
    [] x.t = "setfun" -> EvalSet(FunSet(x), env, s)
    [] x.t = "do" -> Then(Exp(x.x, env, s), LAMBDA r : Ok(r.s, <<>>))
    [] x.t = "block" -> Run(x.b, env, s)
    [] x.t = "while" -> EvalWhile(x, env, s)
    [] x.t = "repeat" -> EvalRepeat(x, env, s)
    [] x.t = "if" -> EvalIf(x.arms, x.e, env, s)
    [] x.t = "for" -> Then(Limits(x.xs, env, s), LAMBDA r : StartFor(x, r.v, env, r.s))
    [] x.t = "forin" -> Then(Exps(x.xs, env, s), LAMBDA r : EvalForIn(x, Three(r.v), env, r.s))
    [] x.t = "return" -> Then(Exps(x.xs, env, s), LAMBDA r : [r EXCEPT !.g = "ret"])
    [] x.t = "break" -> [Ok(s, <<>>) EXCEPT !.g = "brk"]
    [] x.t = "until" -> Then(Exp1(x.c, env, s), LAMBDA r : IF Falsy(r.v[1]) THEN r ELSE [r EXCEPT !.g = "brk"])

\* A local variable is known to the statements after it, a local function also to
\* itself.
EvalRun(b, env, s) ==
  LET x == b[1]
      Rest(y) == Run(Tail(b), y.env, y.s)
      Recursive(y) == Then(EvalSet(Set(<<Var(x.n)>>, <<x.f>>), y.env, y.s), LAMBDA r : Run(Tail(b), y.env, r.s))
  IN IF b = <<>> THEN Ok(s, <<>>)
     ELSE IF x.t = "local" THEN Then(Exps(x.xs, env, s), LAMBDA r : Rest(Bind(env, r.s, x.ns, r.v)))
     ELSE IF x.t = "localfun" THEN Recursive(Bind(env, s, <<x.n>>, <<>>))
     ELSE Then(EvalStat(x, env, s), LAMBDA r : Run(Tail(b), env, r.s))

Eval(what, x, env, s) ==
  CASE what = "exp" -> EvalExp(x, env, s)
    [] what = "list" -> EvalList(x, env, s)
    [] what = "run" -> EvalRun(x, env, s)
    [] what = "apply" -> EvalApply(x[1], x[2], s)
    [] what = "while" -> EvalWhile(x, env, s)
    [] what = "repeat" -> EvalRepeat(x, env, s)
    [] what = "for" -> EvalFor(x[1], x[2], env, s)
    [] what = "forin" -> EvalForIn(x[1], x[2], env, s)

\* What a program prints and what it returns, or the error that ends it.
Meaning(program, globals) ==
  LET Seen(r) == [ok |-> r.g # "err", vs |-> r.v, out |-> r.s.out]
  IN Seen(Run(program, [vars |-> <<>>, dots |-> <<>>],
              [cells |-> <<>>, tables |-> <<[map |-> globals, meta |-> 0]>>, funs |-> <<>>, out |-> <<>>]))

================================================================================
