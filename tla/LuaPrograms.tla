---------------------------- MODULE LuaPrograms ----------------------------
(***************************************************************************)
(* Programs for the model of the interpreter. They are small, and chosen   *)
(* for what a compiler to registers and jumps, and a machine with a stack  *)
(* that is shared by all frames, can get wrong. The limits they reach are  *)
(* the ones MCLua.cfg sets.                                                *)
(***************************************************************************)
EXTENDS LuaText

\* A program whose outcome the language gives, and one whose outcome is a limit
\* of the implementation or comes from coroutines, which LuaLang leaves out.
Written(b, text) == [b |-> b, text |-> text, want |-> <<>>]
P(b) == Written(b, Spelled(Source(b)))
Gives(b, vs) == [P(b) EXCEPT !.want = <<[ok |-> TRUE, vs |-> vs, out |-> <<>>]>>]
Fails(b, msg) == [P(b) EXCEPT !.want = <<[ok |-> FALSE, vs |-> <<StrV(msg)>>, out |-> <<>>]>>]
Refused(text, msg) == [Fails(<<>>, msg) EXCEPT !.text = text]

A == Var("a")
B == Var("b")
C == Var("c")
F == Var("f")
G == Var("g")
I == Var("i")
N == Var("n")
S == Var("self")
T == Var("t")
X == Var("x")

Plus(x, y) == Bin("+", x, y)
Less(x, y) == Bin("<", x, y)
Def(n, x) == Local(<<n>>, <<x>>)
Put(v, x) == Set(<<v>>, <<x>>)
When(c, b) == If(<< <<c, b>> >>, <<>>)
Show(xs) == Do(Fn("print", xs))
Thunk(xs) == Fun(<<>>, <<Return(xs)>>)
Pcall(b) == Fn("pcall", <<Fun(<<>>, b)>>)
Meta(x, fields) == Fn("setmetatable", <<x, Tab(fields)>>)
At(n, x) == <<Str(n), x>>

--------------------------------------------------------------------------------
(* Conditions: every expression of this form, as a value and as a condition.   *)

Atoms == {NilX, True, Num(1), A, Bin("==", A, Num(1))}
Logical2 == {Bin(op, x, y) : op \in {"and", "or"}, x \in Atoms, y \in Atoms}
Logical3 == {Bin(op, x, y) : op \in {"and", "or"}, x \in Logical2, y \in {False, A, Less(Num(0), A)}}
Logics == Logical3 \cup {Bin("or", A, Un("not", x)) : x \in Logical2}

AsValue(x) == <<Return(<<x>>)>>
AsCondition(x) == <<If(<< <<x, <<Return(<<Num(1)>>)>>>> >>, <<Return(<<Num(2)>>)>>)>>
AsArgument(x) == <<Def("b", Un("not", x)), Return(<<B, x, Num(3)>>)>>

Conditions ==
  {P(<<Def("a", Num(1))>> \o AsValue(x)) : x \in Logics}
    \cup {P(<<Def("a", Num(1))>> \o AsCondition(x)) : x \in Logics}
    \cup {P(<<Def("a", Num(2))>> \o AsArgument(x)) : x \in Logical2}

\* No program has a disjunction and a constant that is true, or a conjunction or
\* one that is false, within another expression: there luaK_jump (lcode.c:64) joins
\* jumps that carry the value of the first operand to the jump it emits, and the
\* result is theirs, not the second operand the manual promises.

\* A conditional repeats while its condition holds; the parts may be missing.
Branches ==
  {P(<<Def("a", Num(n)), If([i \in 1 .. arms |-> <<Bin("==", A, Num(i)), <<Put(A, Num(10 * i))>>>>],
                            els), Return(<<A>>)>>) : n \in 1 .. 4, arms \in 1 .. 3, els \in {<<>>, <<Put(A, Num(0))>>}}

\* Operators by precedence, with constants that are folded and with registers.
Operators ==
  {P(<<Local(<<"a", "b">>, <<Num(3), Num(2)>>), Return(<<tree>>)>>) : tree \in
     UNION {{Bin(o, x, Bin(p, B, Num(1))), Bin(o, Bin(p, x, Num(2)), B)} :
              o, p \in {"+", "-", "*", "%", "^"}, x \in {A, Num(3)}}
       \cup {Bin(o, A, Bin(p, Num(2), B)) : o, p \in {"+", "*", ".."}}
       \cup {Bin(o, Bin(p, A, Num(2)), B) : o, p \in {"+", "*", ".."}}
       \cup {Bin(o, Un("-", A), Num(2)) : o \in {"+", "^", ".."}} \cup {Un("-", Bin("^", Num(3), B))}}

Comparisons ==
  {P(<<Local(<<"a", "b">>, <<x, y>>), Return(<<Bin(o, A, B), Bin(o, x, y)>>)>>) :
     o \in {"<", ">", "<=", ">=", "==", "~="}, x \in {Num(1), Num(2), Str("ab")}, y \in {Num(2), Str("b"), NilX}}

--------------------------------------------------------------------------------
(* Assignments, scopes and closures.                                           *)

Assignments == {
  \* the index of the first target is the second
  P(<<Local(<<"i", "t">>, <<Num(1), Tab(<<>>)>>), Set(<<I, Idx(T, I)>>, <<Plus(I, Num(1)), Num(20)>>),
      Return(<<I, Idx(T, Num(1)), Idx(T, Num(2))>>)>>),
  \* and the table
  P(<<Local(<<"t", "a">>, <<Tab(<<At("x", Num(1))>>)>>), Put(A, T), Set(<<Field(T, "x"), T>>, <<Num(2), Num(3)>>),
      Return(<<T, Field(A, "x")>>)>>),
  P(<<Local(<<"a", "b">>, <<Num(1), Num(2)>>), Set(<<A, B>>, <<B, A>>), Return(<<A, B>>)>>),
  P(<<Local(<<"a", "b", "c">>, <<Num(1), Fn("unpack", <<Tab(<< <<Num(5)>>, <<Num(6)>>, <<Num(7)>> >>)>>)>>),
      Return(<<A, B, C>>)>>),
  P(<<Def("f", Fun(<<>>, <<Return(<<Num(1), Num(2)>>)>>)), Local(<<"a", "b">>, <<>>),
      Set(<<A, B>>, <<Num(0), App(F, <<>>), Num(9)>>), Set(<<B, X>>, <<App(F, <<>>)>>), Show(<<A, B, X>>),
      Set(<<A, B>>, <<Paren(App(F, <<>>))>>), Return(<<A, B>>)>>),
  \* a global, an upvalue, a field and a local in one assignment
  P(<<Local(<<"a", "t">>, <<Num(0), Tab(<<>>)>>),
      Do(App(Fun(<<"b">>, <<Set(<<G, A, Field(T, "x"), B>>, <<Num(1), Num(2), Num(3), Num(4)>>),
                            Show(<<B>>)>>), <<>>)),
      Return(<<G, A, Field(T, "x")>>)>>),
  P(<<Def("a", Num(1)), Blk(<<Def("a", Plus(A, Num(1))), Show(<<A>>)>>), Return(<<A>>)>>)}

\* Counts in a while loop, in a repeat loop and in a for loop, whose bodies capture
\* the variable and leave by break at the third turn if stop is TRUE.
Leave(stop) == IF stop THEN <<When(Bin("==", X, Num(3)), <<Break>>)>> ELSE <<>>
Body(stop) == <<Put(Idx(T, X), Fun(<<>>, <<Put(X, Plus(X, Num(10))), Return(<<X>>)>>))>> \o Leave(stop)
Captured == <<Return(<<App(Idx(T, Num(1)), <<>>), App(Idx(T, Num(1)), <<>>), App(Idx(T, Num(3)), <<>>)>>)>>

Loops_ == UNION {{
  P(<<Local(<<"t", "i">>, <<Tab(<<>>), Num(0)>>),
      While(Less(I, Num(4)), <<Put(I, Plus(I, Num(1))), Def("x", I)>> \o Body(stop))>> \o Captured),
  P(<<Local(<<"t", "i">>, <<Tab(<<>>), Num(0)>>),
      Repeat(<<Put(I, Plus(I, Num(1))), Def("x", I)>> \o Body(stop), Bin("==", X, Num(4)))>> \o Captured),
  P(<<Def("t", Tab(<<>>)), For("x", <<Num(4), Num(1), Num(-1)>>, Body(stop))>> \o Captured),
  P(<<Def("t", Tab(<<>>)),
      ForIn(<<"x", "i">>, <<Fun(<<"self", "i">>, <<When(Less(I, S), <<Return(<<Plus(I, Num(1)), I>>)>>)>>),
                            Num(4), Num(0)>>, Body(stop))>> \o Captured)} : stop \in BOOLEAN}

Closures == {
  \* two functions share a variable, two calls do not
  P(<<Def("f", Fun(<<"a">>, <<Return(<<Fun(<<"b">>, <<Put(A, Plus(A, B)), Return(<<A>>)>>), Thunk(<<A>>)>>)>>)),
      Local(<<"b", "c">>, <<App(F, <<Num(1)>>)>>), Def("g", App(F, <<Num(50)>>)),
      Do(App(B, <<Num(4)>>)), Do(App(G, <<Num(1)>>)), Return(<<App(B, <<Num(1)>>), App(C, <<>>)>>)>>),
  \* through a function that does not use the variable
  P(<<Def("a", Num(1)), Def("f", Thunk(<<Thunk(<<A>>)>>)), Def("g", App(F, <<>>)), Put(A, Num(2)),
      Return(<<App(G, <<>>)>>)>>),
  \* a tail call leaves the frame that a variable of it is in
  P(<<Def("f", Fun(<<"a">>, <<Return(<<Fn("pcall", <<Fun(<<"b">>, <<Put(A, Plus(A, B)), Return(<<A>>)>>), Num(2)>>)>>)>>)),
      Def("g", Fun(<<"a">>, <<Return(<<App(F, <<A>>)>>)>>)), Return(<<App(G, <<Num(5)>>)>>)>>),
  \* an error leaves the frame
  P(<<Local(<<"g">>, <<>>),
      Do(Pcall(<<Def("a", Num(7)), Put(G, Thunk(<<A>>)), Put(A, Num(8)), Do(Fn("error", <<>>))>>)),
      Return(<<App(G, <<>>), Pcall(<<Return(<<Field(NilX, "x")>>)>>)>>)>>),
  P(<<LocalFun("f", Fun(<<"n">>, <<When(Less(N, Num(2)), <<Return(<<Num(1)>>)>>),
                                   Return(<<Bin("*", N, App(F, <<Bin("-", N, Num(1))>>))>>)>>)),
      Return(<<App(F, <<Num(4)>>)>>)>>),
  \* a tail call does not use up frames
  Gives(<<LocalFun("f", Fun(<<"n">>, <<When(Bin("==", N, Num(0)), <<Return(<<Str("end")>>)>>),
                                       Return(<<App(F, <<Bin("-", N, Num(1))>>)>>)>>)),
          Return(<<App(F, <<Num(45)>>)>>)>>, <<StrV("end")>>),
  P(<<Local(<<"a", "b">>, <<Num(1)>>),
      Blk(<<Def("c", Num(2)), Put(B, Fun(<<>>, <<Put(C, Plus(C, A)), Return(<<C>>)>>))>>),
      Def("c", Num(9)), Return(<<App(B, <<>>), App(B, <<>>), C>>)>>)}

--------------------------------------------------------------------------------
(* Calls, arguments and results.                                               *)

Gather(n) == [i \in 1 .. n |-> Num(i)]
Items_(n) == [i \in 1 .. n |-> <<Num(i)>>]

Arguments ==
  {P(<<Def("f", Fun(<<"a", "b", "...">>, <<Return(<<B, Fn("select", <<Str("#"), Dots>>), Dots>>)>>)),
       Return(<<App(F, Gather(n))>>)>>) : n \in 0 .. 4}
  \cup {P(<<Def("f", OldFun(<<"a", "...">>, <<Return(<<Field(Var("arg"), "n"), Idx(Var("arg"), Num(1)), A>>)>>)),
            Return(<<App(F, Gather(n))>>)>>) : n \in 0 .. 2}
  \cup {P(<<Return(<<Fn("select", <<Num(n)>> \o Gather(3))>>)>>) : n \in -4 .. 4}
  \cup {P(<<Def("f", Fun(<<"...">>, <<Local(<<"a", "b">>, <<Dots>>), Def("t", Tab(<< <<Num(0)>>, <<Dots>> >>)),
                                      Return(<<B, Un("#", T), Paren(Dots), Fn("unpack", <<T>>)>>)>>)),
            Return(<<App(F, Gather(n))>>)>>) : n \in {0, 1, 3}}
  \cup {P(<<Def("t", Tab(Items_(n) \o last)), Return(<<Un("#", T), Idx(T, Num(n)), Field(T, "x")>>)>>) :
          n \in {0, 1, 2, 3, 4, 5, 8}, last \in {<<>>, <<At("x", Num(7))>>, << <<Fn("unpack", <<Tab(Items_(2))>>)>> >>}}

Calls == {
  P(<<Def("t", Tab(<<At("n", Num(5)), <<Num(7), Num(8)>> >>)), SetFun(<<"t">>, "f", Fun(<<"a">>, <<Return(<<Plus(Field(S, "n"), A)>>)>>)),
      SetFun(<<"t", "g">>, "", Fun(<<"self">>, <<Return(<<Idx(S, Num(7))>>)>>)),
      Return(<<Meth(T, "f", <<Num(1)>>), Meth(T, "g", <<>>)>>)>>),
  P(<<Def("f", Fun(<<"a">>, <<Return(<<A>>)>>)), Return(<<App(F, <<Str("s")>>), Field(App(F, <<Tab(<<At("x", Num(1))>>)>>), "x")>>)>>),
  \* constants that an operand has no room for
  P(<<Def("a", Num(1)), Def("t", Tab(<<At("x", Num(2)), At("y", Num(3))>>)), Put(Field(T, "z"), Num(4)),
      Return(<<Plus(Field(T, "z"), Num(5)), Bin("==", A, Num(6)), Meth(Meta(T, <<At("w", Num(1))>>), "q", <<>>)>>)>>),
  P(<<Return(<<Un("#", Str("abc")), Bin("..", Bin("..", Num(1), Str("")), Bin("..", Num(2), Str("x")))>>)>>),
  P(<<Return(<<Plus(Str("4"), Num(1)), Pcall(<<Return(<<Plus(Str("x"), Num(1))>>)>>)>>)>>),
  P(<<For("i", <<Str("1"), Num(2)>>, <<Show(<<I>>)>>), For("i", <<Num(1), Num(0)>>, <<Show(<<I>>)>>), Return(<<>>)>>)}
  \cup {P(<<Return(<<Pcall(<<For("i", Replaced, <<>>)>>)>>)>>) :
          Replaced \in {<<Str("x"), Num(1), Num(1)>>, <<Num(1), NilX, Num(1)>>, <<Num(1), Num(1), Tab(<<>>)>>}}
  \cup {P(<<Return(<<Pcall(<<Do(Fn(f, xs))>>)>>)>>) :
          f \in {"error", "setmetatable", "unpack", "select", "pcall", "nosuch"},
          xs \in {<<>>, <<Num(1)>>, <<Tab(<<>>)>>, <<Tab(<<>>), Num(1)>>}}

--------------------------------------------------------------------------------
(* Metamethods and errors.                                                     *)

Event(e, f) == Meta(Tab(<<>>), <<At(e, f)>>)
Second == Fun(<<"a", "b">>, <<Return(<<Bin("==", B, T), Str("lost")>>)>>)

Events ==
  {P(<<Def("t", Event(e, Fun(<<"a", "b">>, <<Return(<<Bin("==", A, T)>>)>>))), Return(<<Bin(o, T, Num(1)), Bin(o, Num(1), T)>>)>>) :
     <<e, o>> \in {<<"__add", "+">>, <<"__concat", "..">>, <<"__pow", "^">>, <<"__mod", "%">>, <<"__div", "/">>,
                   <<"__mul", "*">>, <<"__sub", "-">>}}
  \cup {P(<<Def("g", Fun(<<"a", "b">>, <<Return(<<Field(A, "n")>>)>>)), Def("b", Tab(<<At(e, G)>>)),
            Local(<<"a", "c">>, <<Fn("setmetatable", <<Tab(<<At("n", Num(1))>>), B>>), Fn("setmetatable", <<Tab(<<>>), B>>)>>),
            Show(<<Pcall(<<Return(<<Bin(o, A, C)>>)>>)>>), Return(<<Pcall(<<Return(<<Bin(o, A, Num(1))>>)>>), Pcall(<<Return(<<Bin(o, C, A)>>)>>)>>)>>) :
          e \in {"__eq", "__lt", "__le"}, o \in {"==", "~=", "<", ">", "<=", ">="}}
  \cup {P(<<Def("t", Event("__concat", Fun(<<"a", "b">>, <<When(Bin("==", A, T), <<Return(<<Str("l")>>)>>), Return(<<v>>)>>))),
            Return(<<Bin("..", Str("a"), Bin("..", Num(1), Bin("..", T, Bin("..", Str("b"), Str("c"))))),
                     Pcall(<<Return(<<Bin("..", Bin("..", Str("a"), T), Str("z"))>>)>>)>>)>>) : v \in {Str("r"), Str(""), NilX}}

Index_ == {
  P(<<Def("f", Fun(<<"self", "a">>, <<Return(<<Bin("..", A, Str("b")), Num(2)>>)>>)), Def("t", Event("__index", F)),
      Return(<<Field(T, "x"), Field(Event("__index", T), "y")>>)>>),
  P(<<Def("b", Tab(<<At("x", Num(4))>>)), Def("t", Event("__newindex", B)), Put(Field(T, "x"), Num(5)), Put(Idx(B, Num(1)), T),
      Return(<<Field(T, "x"), Field(B, "x"), Bin("==", Idx(B, Num(1)), T)>>)>>),
  P(<<Def("t", Event("__newindex", Fun(<<"self", "a", "b">>, <<Show(<<A, B>>), Return(<<Num(1)>>)>>))),
      Set(<<Field(T, "x"), A>>, <<Num(1), Num(2)>>), Return(<<Field(T, "x"), A>>)>>),
  P(<<Def("t", Tab(<<>>)), Do(Meta(T, <<At("__index", T), At("__newindex", T)>>)),
      Return(<<Pcall(<<Return(<<Field(T, "x")>>)>>), Pcall(<<Put(Field(T, "x"), Num(1))>>)>>)>>),
  P(<<Def("t", Event("__call", Fun(<<"self", "a">>, <<Return(<<Bin("==", S, T), A>>)>>))),
      Return(<<App(T, <<Num(3)>>), Paren(App(T, <<Num(4)>>)), Fn("pcall", <<T, Num(5)>>)>>)>>),
  P(<<Def("t", Event("__unm", Second)), Return(<<Un("-", T), Un("#", T), Pcall(<<Return(<<Un("#", Num(1))>>)>>)>>)>>),
  P(<<Def("t", Meta(Tab(<<>>), <<At("__metatable", True)>>)), Return(<<Pcall(<<Do(Meta(T, <<>>))>>)>>)>>),
  P(<<Def("t", Fn("setmetatable", <<Event("__index", Tab(<<At("x", Num(1))>>)), NilX>>)), Return(<<Field(T, "x")>>)>>),
  P(<<Return(<<Pcall(<<Put(Idx(Tab(<<>>), NilX), Num(1))>>), Pcall(<<Return(<<Tab(<< <<NilX, Num(1)>> >>)>>)>>)>>)>>),
  P(<<Put(Field(A, "x"), Num(1))>>),
  P(<<Return(<<Meth(Num(1), "x", <<>>)>>)>>),
  \* an error inside a metamethod, in a call inside a call
  P(<<Def("t", Event("__add", Fun(<<>>, <<Do(Fn("error", <<Str("e")>>))>>))),
      Def("f", Fun(<<>>, <<Return(<<Pcall(<<Return(<<Plus(T, Num(1))>>)>>)>>)>>)),
      Return(<<Pcall(<<Local(<<"a", "b">>, <<App(F, <<>>)>>), Do(Fn("error", <<B>>))>>)>>)>>),
  P(<<Do(Fn("error", <<Str("uncaught")>>))>>)}

--------------------------------------------------------------------------------
(* Limits.                                                                     *)

Names_(n) == SubSeq(<<"a", "b", "c", "d", "e", "f", "g">>, 1, n)
RECURSIVE Nested(_, _)
Nested(x, n) == IF n = 0 THEN x ELSE Nested(Un("not", x), n - 1)
Many(st, n) == [i \in 1 .. n |-> st]
Overflow == LocalFun("f", Fun(<<"a">>, <<Return(<<Plus(Num(1), App(F, <<>>))>>)>>))

Exceeding == {
  Gives(<<Local(Names_(6), <<>>), Return(<<Num(1)>>)>>, <<NumV(1)>>),
  Fails(<<Local(Names_(7), <<>>)>>, "local variables"),
  Gives(<<Local(Names_(3), <<>>), Return(<<App(Thunk(<<A, B, C>>), <<>>)>>)>>, <<NilV, NilV, NilV>>),
  Fails(<<Local(Names_(4), <<>>), Return(<<Thunk(<<A, B, C, Var("d")>>)>>)>>, "upvalues"),
  Gives(<<Return(<<Nested(True, 14)>>)>>, <<BoolV(TRUE)>>),
  Fails(<<Return(<<Nested(True, 15)>>)>>, "chunk has too many syntax levels"),
  Gives(<<Return(Many(True, 11))>>, Many(BoolV(TRUE), 11)),
  Fails(<<Return(Many(True, 12))>>, "function or expression too complex"),
  Gives(<<While(A, Many(Put(A, True), 8))>>, <<>>),
  Fails(<<While(A, Many(Put(A, True), 9))>>, "control structure too long"),
  Fails(<<Break>>, "no loop to break"),
  Fails(<<Return(<<Fun(<<>>, <<Return(<<Dots>>)>>)>>)>>, "cannot use ... outside a vararg function"),
  \* too many frames, twice, and the machine is as before
  Gives(<<Overflow, Def("b", Fn("pcall", <<F>>)), Return(<<B, Fn("pcall", <<F>>)>>)>>,
        <<BoolV(FALSE), BoolV(FALSE), StrV("stack overflow")>>),
  Fails(<<Overflow, Do(App(F, <<>>))>>, "stack overflow"),
  \* too many C functions that wait for each other
  Gives(<<Local(<<"t">>, <<>>), Put(T, Event("__index", Fun(<<"self", "a">>, <<Return(<<Plus(Num(1), Field(T, "x"))>>)>>))),
          Def("b", Pcall(<<Return(<<Field(T, "x")>>)>>)), Return(<<B, Pcall(<<Return(<<Field(T, "x")>>)>>)>>)>>,
        <<BoolV(FALSE), BoolV(FALSE), StrV("C stack overflow")>>)}

--------------------------------------------------------------------------------
(* Coroutines.                                                                 *)

Co(f) == Fn("create", <<f>>)
Resume(xs) == Fn("resume", <<C>> \o xs)
Status == Fn("status", <<C>>)
Yield(xs) == Fn("yield", xs)
Create(b) == Def("c", Co(Fun(<<>>, b)))
Across == "attempt to yield across metamethod/C-call boundary"

Coroutines == {
  \* values go both ways, a loop is suspended, and the function returns
  Gives(<<Def("c", Co(Fun(<<"a">>, <<For("i", <<Num(1), Num(2)>>, <<Put(A, Plus(A, Yield(<<A, I>>)))>>), Return(<<A>>)>>))),
          Local(<<"i", "a", "b">>, <<Resume(<<Num(5)>>)>>), Do(Resume(<<Num(10)>>)),
          Return(<<A, B, Status, Resume(<<Num(20)>>)>>)>>,
        <<NumV(5), NumV(1), StrV("suspended"), BoolV(TRUE), NumV(35)>>),
  Gives(<<Local(<<"c">>, <<>>), Put(C, Co(Thunk(<<Status, Resume(<<>>)>>))), Local(<<"i", "a", "b", "x">>, <<Resume(<<>>)>>), Return(<<A, B, X, Status>>)>>,
        <<StrV("running"), BoolV(FALSE), StrV("cannot resume running coroutine"), StrV("dead")>>),
  Gives(<<Local(<<"c">>, <<>>),
          Put(C, Co(Fun(<<>>, <<Return(<<Fn("resume", <<Co(Fun(<<>>, <<Return(<<Status, Resume(<<>>)>>)>>))>>)>>)>>))),
          Return(<<Resume(<<>>)>>)>>,
        <<BoolV(TRUE), BoolV(TRUE), StrV("normal"), BoolV(FALSE), StrV("cannot resume normal coroutine")>>),
  \* an error kills the coroutine; its variables are still there
  Gives(<<Local(<<"g">>, <<>>),
          Create(<<Def("a", Num(1)), Put(G, Fun(<<>>, <<Put(A, Plus(A, Num(1))), Return(<<A>>)>>)), Do(Fn("error", <<Str("e")>>))>>),
          Local(<<"a", "b">>, <<Resume(<<>>)>>), Do(App(G, <<>>)), Return(<<A, B, Status, App(G, <<>>), Resume(<<>>)>>)>>,
        <<BoolV(FALSE), StrV("e"), StrV("dead"), NumV(3), BoolV(FALSE), StrV("cannot resume dead coroutine")>>),
  \* two coroutines and the main program share variables
  Gives(<<Local(<<"a", "g">>, <<Num(1)>>),
          Create(<<Def("b", Num(50)), Put(G, Fun(<<>>, <<Put(B, Plus(B, A)), Return(<<B>>)>>)), Put(A, Plus(A, Num(1))),
                   Do(Yield(<<>>)), Put(B, Plus(B, Num(100))), Put(A, Bin("*", A, Num(10)))>>),
          Do(Resume(<<>>)), Put(A, Plus(A, Num(3))), Do(App(G, <<>>)), Do(Resume(<<>>)), Return(<<A, App(G, <<>>)>>)>>,
        <<NumV(50), NumV(205)>>),
  \* no yield where a C function waits: none in the main program, in a protected
  \* call, in a metamethod, in an iterator
  Fails(<<Do(Yield(<<>>))>>, Across),
  Gives(<<Create(<<Local(<<"a", "b">>, <<Fn("pcall", <<Var("yield")>>)>>), Do(Yield(<<B>>)), Return(<<A>>)>>),
          Local(<<"a", "b">>, <<Resume(<<>>)>>), Return(<<B, Resume(<<>>)>>)>>,
        <<StrV(Across), BoolV(TRUE), BoolV(FALSE)>>),
  Gives(<<Create(<<Return(<<Field(Event("__index", Var("yield")), "x")>>)>>), Return(<<Resume(<<>>)>>)>>,
        <<BoolV(FALSE), StrV(Across)>>),
  Gives(<<Create(<<ForIn(<<"i">>, <<Var("yield")>>, <<>>)>>), Return(<<Resume(<<>>)>>)>>, <<BoolV(FALSE), StrV(Across)>>),
  \* a yield in a tail call and in a call inside a call
  Gives(<<Create(<<Def("f", Thunk(<<Plus(Num(1), Yield(<<Num(7)>>))>>)), Return(<<App(F, <<>>)>>)>>),
          Local(<<"a", "b">>, <<Resume(<<>>)>>), Return(<<B, Resume(<<Num(4)>>)>>)>>, <<NumV(7), BoolV(TRUE), NumV(5)>>),
  Gives(<<Def("c", Co(Fun(<<"...">>, <<Return(<<Yield(<<Dots>>)>>)>>))), Local(<<"i", "a", "b">>, <<Resume(Gather(2))>>),
          Return(<<A, B, Resume(Gather(3))>>)>>, <<NumV(1), NumV(2), BoolV(TRUE), NumV(1), NumV(2), NumV(3)>>),
  Gives(<<Create(<<Overflow, Return(<<App(F, <<>>)>>)>>), Return(<<Resume(<<>>)>>)>>, <<BoolV(FALSE), StrV("stack overflow")>>),
  Fails(<<Do(Co(Var("print")))>>, "Lua function expected"), Fails(<<Do(Resume(<<>>))>>, "coroutine expected"),
  Fails(<<Return(<<Status>>)>>, "coroutine expected"),
  \* coroutines that resume coroutines, up to the last C call and beyond it
  Gives(<<LocalFun("f", Fun(<<>>, <<Local(<<"a", "b", "c">>, <<Fn("resume", <<Co(F)>>)>>),
                                    When(Un("not", A), <<Return(<<B, Fn("select", <<Num(3), Fn("pcall", <<Var("pcall"), F>>)>>)>>)>>),
                                    Return(<<B, C>>)>>)),
          Return(<<App(F, <<>>)>>)>>, <<StrV("C stack overflow"), StrV("error in error handling")>>)}

\* Frames beyond the limit, which are there to handle the error, run out too: a
\* protected call in the last frame catches the first error and calls on.
BeyondLimit ==
  LET Calling(n, f) == Def(n, Thunk(<<Paren(App(Var(f), <<>>))>>))
  IN Gives(<<Local(<<"f", "g">>, <<>>), Put(G, Thunk(<<Plus(Num(1), App(G, <<>>))>>)),
             Put(F, Fun(<<>>, <<Local(<<"a", "b">>, <<App(Fun(<<>>, <<Local(<<"a", "b">>, <<Fn("pcall", <<F>>)>>), Return(<<A, B>>)>>), <<>>)>>),
                                When(Bin("==", B, Str("stack overflow")), <<Put(B, App(G, <<>>))>>),
                                Return(<<B>>)>>)),
             Calling("a", "f"), Calling("b", "a"), Calling("c", "b"), Return(<<App(C, <<>>)>>)>>,
           <<StrV("error in error handling")>>)

--------------------------------------------------------------------------------
(* Texts. A body is anything that may stand in a string or a comment.          *)

Bodies == UNION {[1 .. n -> {"a", "1", "\n", "]", "[", "=", "\\"}] : n \in 0 .. 2}
Value(body) == <<Return(<<Str(Joined(body))>>)>>
Literals(body) ==
  {EscapedText(body, "\""), EscapedText(body, "'"), DecimalText(body)}
    \cup {LongText(body, l) : l \in {i \in 0 .. 2 : Fits(body, i)}}
Strings == UNION {{Written(Value(body), <<"return">> \o x) : x \in Literals(body)} : body \in Bodies}

\* A short comment ends with the line, unless it begins like a long one.
Dashes == <<"return", "-", "-">>
ShortBodies ==
  {body \in Bodies : /\ ~Contains(body, "\n")
                     /\ \A n \in 0 .. 2 : ~Occurs(<<"[">> \o Repeat_("=", n) \o <<"[">>, body, 1)}
Comments ==
  {Written(<<Return(<<Num(1)>>)>>, x) : x \in
     UNION {{Dashes \o LongText(body, l) \o <<"1">> : l \in {i \in 0 .. 2 : Fits(body, i)}} : body \in Bodies}
       \cup {Dashes \o body \o <<"\n", "1">> : body \in ShortBodies}}

Numbers ==
  {Written(<<Return(<<Num(x[1])>>)>>, <<"return", " ">> \o x[2]) : x \in {
     <<30, <<"3", "0", ".">>>>, <<0, <<".", "0">>>>, <<7, <<"0", "7", ".", "0", "0">>>>, <<30, <<"3", "e", "1">>>>,
     <<30, <<"3", ".", "E", "+", "1">>>>, <<3, <<"3", "0", "e", "-", "1">>>>, <<31, <<"0", "x", "1", "f">>>>,
     <<14, <<"0", "X", "e">>>>}}
    \cup {Refused(<<"return", " ">> \o x, "malformed number") : x \in {
     <<"3", ".", ".", "2">>, <<"3", "x">>, <<"0", "x">>, <<"0", "x", "g">>, <<"3", "e">>, <<"3", "e", "+">>,
     <<".", "1", ".", "1">>}}
    \cup {Written(<<Return(<<Bin("+", Num(14), Num(1))>>)>>, <<"return", " ", "0", "x", "e", "+", "1">>),
          Written(<<Return(<<Bin("..", Num(3), Num(2))>>)>>, <<"return", " ", "3", " ", ".", ".", "2">>)}

\* What is left open, and what only looks like a string or a long bracket.
Short(body) == Len(body) < 3
Unfinished ==
  {Refused(<<"return">> \o Front(EscapedText(body, "'")), "unfinished string") : body \in {x \in Bodies : Short(x)}}
    \cup {Refused(<<"return">> \o Front(LongText(body, 2)), "unfinished long string") : body \in {x \in Bodies : Short(x)}}
    \cup {Refused(Dashes \o Front(LongText(body, 1)), "unfinished long comment") :
            body \in {x \in Bodies : Short(x) /\ Fits(x, 1)}}
    \cup {Refused(<<"return", "'", "a", "\n", "'">>, "unfinished string"),
          Refused(<<"return", "'", "\\", "2", "5", "6", "'">>, "escape sequence too large"),
          Refused(<<"return", "[", "=", "a">>, "invalid long string delimiter"),
          Refused(<<"return", "[", "[", "a", "[", "[", "]", "]">>, "nesting of [[...]] is deprecated"),
          Refused(Dashes \o <<"[", "[", "[", "[", "]", "]">>, "nesting of [[...]] is deprecated")}

\* The first line of a script may be meant for the shell.
Shebangs ==
  {Written(<<Return(<<Num(1)>>)>>, <<"#", "!", "'", "\n", "return", " ", "1">>), Written(<<>>, <<"#">>), Written(<<>>, <<>>)}

Texts_ == Strings \cup Comments \cup Numbers \cup Unfinished \cup Shebangs

Programs ==
  Conditions \cup Branches \cup Operators \cup Comparisons \cup Assignments \cup Loops_ \cup Closures
    \cup Arguments \cup Calls \cup Events \cup Index_ \cup Exceeding \cup {BeyondLimit} \cup Coroutines \cup Texts_

================================================================================
