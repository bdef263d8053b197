------------------------------- MODULE MCHost --------------------------------
(* Command lines, file systems and solutions for Host.                         *)
EXTENDS Host

Word(lead, k, v) == [lead |-> lead, key |-> k, val |-> v]
Opt(k, v) == Word("--", k, v)
Act(k)    == Word("", k, "")

MCArgLists ==
  { <<Act("gmake")>>, <<Opt("platform", "x64"), Act("gmake")>>,
    <<Opt("cc", "gcc"), Act("gmake"), Act("x"), Word("/", "cc", "clang")>>,
    <<Act("gmake"), Opt("help", "")>>, <<Opt("file", "other.lua"), Act("gmake")>>,
    <<Opt("bad", ""), Act("gmake")>>, <<Act("nothing")>>, <<Opt("scripts", "")>>, <<>> }

\* The words puremake.sh puts before main.lua: none, flags, an operand of their
\* own, one that takes main.lua for its operand, and an unknown one.
MCLuaWords ==
  { <<Word("-", "v", "")>>, <<Word("-", "l", "m"), Word("--", "", "")>>, <<Word("-", "e", "")>>,
    <<Word("-", "l", ""), Act("m"), Word("-", "i", "")>>, <<Word("-", "x", "")>>, <<Word("-", "", "")>> }

MCOptions ==
  ("platform" :> [needs |-> TRUE, allowed |-> {"x64", "x32"}]) @@
  ("cc" :> [needs |-> TRUE, allowed |-> {}]) @@
  ("file" :> [needs |-> TRUE, allowed |-> {}]) @@
  ("scripts" :> [needs |-> FALSE, allowed |-> {}]) @@
  ("help" :> [needs |-> FALSE, allowed |-> {}])

MCActions == "gmake" :> ("cc" :> <<"gcc", "clang">>)

Sln(list, prjs, supported) ==
  [platforms |-> list, projects |-> prjs, configurations |-> 1, supported |-> supported]

MCSolutions ==
  { <<Sln(<<>>, 1, {"gmake"}), Sln(<<"x64", "Native">>, 1, {"gmake"})>>,
    <<Sln(<<"Native">>, 1, {"gmake"}), Sln(<<"x32">>, 1, {"gmake"})>>,
    <<Sln(<<>>, 1, {"gmake"}), Sln(<<>>, 0, {"gmake"})>>, <<>> }

Work(n) == <<"/", "w">> \o n
Good    == <<Sln(<<>>, 1, {"gmake"})>>
Started == {Work(<<"premake4.lua">>)}

MainPath == <<"s", "/", "src", "/", "host", "/", "main.lua">>

\* The program is started in /w, which has a project script or not, a directory d
\* with another one, and the program itself in s.
World(argv, solutions, more) ==
  [lua |-> <<>>, main |-> MainPath, argv |-> argv, single |-> FALSE, init |-> FALSE, lfs |-> TRUE,
   env |-> Nil, solutions |-> solutions, asks |-> {},
   cwd |-> <<"/", "w">>, dirs |-> {<<"/">>, Work(<<>>), Work(<<"d">>), Work(<<"s">>),
             Work(<<"s", "src">>), Work(<<"s", "src", "host">>)},
   files |-> {Work(<<"d", "premake4.lua">>), Work(<<"s", "src", "host", "main.lua">>),
              Work(<<"s", "src", "_premake_main.lua">>)} \cup more]

Asking(what) == [World(<<Act("gmake")>>, Good, Started) EXCEPT !.asks = what]

\* Every command line with and without a project script; the words before
\* main.lua, and the places it may be in, with two of them; the solutions with
\* two; worlds whose scripts ask for paths and strings, and one in which they
\* match files.
MCWorlds ==
  {[World(a, Good, f) EXCEPT !.env = v] :
     a \in MCArgLists, v \in {Nil, << <<"d">>, <<"/", "w", "/", "s">> >>}, f \in {{}, Started}}
  \cup {[World(a, Good, Started) EXCEPT !.lua = l, !.init = i] :
          a \in {<<Act("d"), Opt("help", "")>>, <<Act("gmake")>>}, l \in MCLuaWords, i \in BOOLEAN}
  \cup {[World(<<Act("gmake")>>, Good, Started) EXCEPT !.main = m, !.single = s, !.lfs = l] :
          m \in {<<"premake4.lua">>, <<"d", "/", "premake4.lua">>, <<"s", "/", "gone.lua">>, <<"/", "w", "/">> \o MainPath},
          s, l \in BOOLEAN}
  \cup {World(a, s, Started) : a \in {<<Act("gmake")>>, <<Opt("platform", "x64"), Act("gmake")>>}, s \in MCSolutions}
  \cup {Asking({"paths", "strings"}),
        [Asking({"paths"}) EXCEPT !.cwd = Work(<<"d">>), !.main = <<"..", "/">> \o MainPath],
        [Asking({"files"}) EXCEPT
          !.main = <<"/", "w", "/", "d", "/", "main">>, !.single = TRUE,
          !.dirs = {<<"/">>, Work(<<>>), Work(<<".git">>), Work(<<"d">>), Work(<<"d", "e">>)},
          !.files = {Work(<<n>>) : n \in {"premake4.lua", "$x"}} \cup {Work(<<".git", "a">>)}
                    \cup {Work(<<"d", n>>) : n \in {"main", "$x"}} \cup {Work(<<"d", "e", ".git">>)}]}

Atoms == {"a", "..", ".", "$x", "c:", "/"}
Seqs(S, n) == UNION {[1 .. k -> S] : k \in 0 .. n}

\* Paths: no two names follow each other, and a drive comes first.
WellFormed(p) ==
  /\ \A i \in 1 .. Len(p) - 1 : p[i] = "/" \/ p[i + 1] = "/"
  /\ \A i \in 2 .. Len(p) : p[i] # "c:"

MCPathArgs == {p \in Seqs(Atoms, 4) : p # <<>> /\ WellFormed(p)}
              \cup {<<"..", "/", "a", "/", "..">>, <<"/", "w", "/", "a", "/">>, <<"a", "/", "/", "a", "/", ".", "/", "..">>}
MCBases    == {<<".">>, <<"d">>, <<"..">>}

One(text, set, rep) == [Item("one", text) EXCEPT !.set = set, !.rep = rep]
Alphabet == {"a", "b", "1", "\\0"}
MCCollate == <<"$", "%", "0", "1", "2", "[", "]", "a", "b", "x">>

Open     == Item("open", <<"(">>)
CloseCap == Item("close", <<")">>)
Position == Item("pos", <<"(", ")">>)
End      == Item("end", <<"$">>)
Back(n)  == [Item("back", <<"%", ToString(n)>>) EXCEPT !.n = n]
Bal      == Item("balance", <<"%", "b", "a", "b">>)
Frontier(text, set) == [Item("frontier", <<"%", "f">> \o text) EXCEPT !.set = set]

Repeated == {One(<<"a">>, {"a"}, r) : r \in {"", "?", "*", "+", "-"}}
            \cup {One(<<".">>, Alphabet, r) : r \in {"", "*", "-"}}
Singles  == {One(<<"%", "a">>, {"a", "b"}, "+"), One(<<"%", "D">>, Alphabet \ {"1"}, "?"),
             One(<<"[", "^", "b", "]">>, Alphabet \ {"b"}, "*"), One(<<"[", "%", "d", "b", "]">>, {"1", "b"}, ""),
             One(<<"[", "1", "-", "a", "]">>, {"1", "a"}, "-"), One(<<"b">>, {"b"}, "")}
Others   == {Bal, Frontier(<<"[", "b", "]">>, {"b"}), Frontier(<<"[", "^", "%", "w", "]">>, {"\\0"}), Position, Back(1)}
Lasts    == {End, Item("malformed", <<"%">>), Item("malformed", <<"[", "a">>)}

\* Every item alone and behind one that can give back what it took, a capture
\* with something behind it, two captures, and one within another.
Few == {One(<<"a">>, {"a"}, "*"), One(<<"a">>, {"a"}, "?"), One(<<".">>, Alphabet, "-")}

ItemLists ==
  {<<>>} \cup {<<x>> : x \in Repeated \cup Singles \cup Others \cup Lasts}
  \cup {<<x, y>> : x \in Few \cup {Open, CloseCap, Position}, y \in Repeated \cup Singles \cup Others \cup Lasts}
  \cup {<<Open, x, CloseCap, y>> : x \in Few, y \in Few \cup {Bal, Back(1), End, Position}}
  \cup {<<x, Open, y, CloseCap, Open, x, CloseCap, Back(2)>> : x, y \in Few}
  \cup {<<Open, x, Open, y, CloseCap, CloseCap, Back(1), v>> : x, y \in Few, v \in {End, Position}}

MCPatterns == {[items |-> l, anchor |-> FALSE] : l \in ItemLists}
              \cup {[items |-> <<x>>, anchor |-> TRUE] : x \in Few \cup {Position, Bal}}
MCSubjects == {<<>>, <<"a">>, <<"b", "1">>, <<"a", "b", "a">>, <<"1", "a", "a">>, <<"a", "a", "b", "b">>,
               <<"a", "b", "a", "b">>}

================================================================================
