--------------------------- MODULE PatternMeaning ----------------------------
(***************************************************************************)
(* What a pattern means, without the way the matcher goes about it: a      *)
(* pattern is a sequence of items, each with the text it is written as,    *)
(* and matches in a number of ways that have an order of preference.       *)
(***************************************************************************)
EXTENDS LuaPattern

Item(k, text) == [k |-> k, text |-> text, set |-> {}, n |-> 0, rep |-> ""]

\* How a pattern is written.
Written(pattern) ==
  (IF pattern.anchor THEN <<"^">> ELSE <<>>)
  \o FlattenSeq([i \in DOMAIN pattern.items |->
       pattern.items[i].text \o (IF pattern.items[i].rep = "" THEN <<>> ELSE <<pattern.items[i].rep>>)])

\* The pattern that stands for its own text, if its items have one character each.
AsText(pattern) ==
  [pattern EXCEPT !.items = [i \in DOMAIN @ |-> [@[i] EXCEPT !.k = "one", !.set = {pattern.items[i].text[1]}]]]

\* How often an item is repeated, the best number first, if n times is possible.
Preferred(rep, n) ==
  LET wanted == CASE rep = ""  -> <<1>>
                  [] rep = "?" -> <<1, 0>>
                  [] rep = "*" -> [i \in 1 .. n + 1 |-> n + 1 - i]
                  [] rep = "+" -> [i \in 1 .. n |-> n + 1 - i]
                  [] rep = "-" -> [i \in 1 .. n + 1 |-> i - 1]
  IN SelectSeq(wanted, LAMBDA k : k <= n)

Count(src, a, b, c) == Cardinality({i \in a .. b : src[i] = c})

\* The text from s to t is balanced between x and y, and no beginning of it is.
Balanced(src, s, t, x, y) ==
  /\ src[s] = x
  /\ Count(src, s, t, x) = Count(src, s, t, y)
  /\ \A u \in s .. t - 1 : Count(src, s, u, x) > Count(src, s, u, y)

RECURSIVE Ways(_, _, _, _)
\* The ways to match the items from s on, the one that is preferred first. An
\* error is a way as well: nothing behind it is tried.
Ways(items, src, s, caps) ==
  IF items = <<>> THEN <<Ended(s, caps)>>
  ELSE
  LET it   == Head(items)
      Then(t, c) == Ways(Tail(items), src, t, c)
      fit  == Max({n \in 0 .. Len(src) + 1 - s : \A i \in s .. s + n - 1 : src[i] \in it.set})
      last == Max({0} \cup {l \in DOMAIN caps : caps[l].len = CAP_UNFINISHED})
      Open(len) == Append(caps, [init |-> s, len |-> len])
      After(ts) == IF ts = {} THEN <<>> ELSE Then(Min(ts), caps)
  IN CASE it.k = "one" ->
            FlattenSeq([i \in DOMAIN Preferred(it.rep, fit) |-> Then(s + Preferred(it.rep, fit)[i], caps)])
       [] it.k \in {"open", "pos"} ->
            IF Len(caps) = LUA_MAXCAPTURES THEN <<luaL_error>>
            ELSE Then(s, Open(IF it.k = "pos" THEN CAP_POSITION ELSE CAP_UNFINISHED))
       [] it.k = "close" ->
            IF last = 0 THEN <<luaL_error>> ELSE Then(s, [caps EXCEPT ![last].len = s - caps[last].init])
       [] it.k = "back" ->
            IF it.n \notin DOMAIN caps \/ caps[it.n].len = CAP_UNFINISHED THEN <<luaL_error>>
            ELSE After({t \in s .. Len(src) + 1 :
                          /\ caps[it.n].len = t - s
                          /\ \A i \in 1 .. t - s : src[s + i - 1] = src[caps[it.n].init + i - 1]})
       [] it.k = "balance" ->
            After({t + 1 : t \in {u \in s + 1 .. Len(src) : Balanced(src, s, u, it.text[3], it.text[4])}})
       [] it.k = "frontier" ->
            IF Ch(src, s - 1) \notin it.set /\ Ch(src, s) \in it.set THEN Then(s, caps) ELSE <<>>
       [] it.k = "end" -> IF s = Len(src) + 1 THEN Then(s, caps) ELSE <<>>
       [] it.k = "malformed" -> <<luaL_error>>

\* The result of a search from start on: the first place with a way to match,
\* and the way that is preferred there.
Meant(pattern, src, start, find) ==
  LET places == {s \in start .. (IF pattern.anchor THEN start ELSE Len(src) + 1) :
                   Ways(pattern.items, src, s, <<>>) # <<>>}
      way == Head(Ways(pattern.items, src, Min(places), <<>>))
  IN IF places = {} THEN NotFound
     ELSE IF way.err THEN Error
     ELSE push_captures(src, Min(places), way.e, way.caps, ~find)

\* The subject with each match replaced by its value.
Replaced(src, matches, Value(_)) ==
  LET Covered(i) == \E j \in DOMAIN matches : i \in matches[j].from .. matches[j].to
      Put(i) == FlattenSeq([j \in DOMAIN matches |->
                              IF matches[j].from = i THEN Value(matches[j]) ELSE <<>>])
  IN FlattenSeq([i \in 1 .. Len(src) + 1 |->
                   Put(i) \o (IF i > Len(src) \/ Covered(i) THEN <<>> ELSE <<src[i]>>)])

=============================================================================
