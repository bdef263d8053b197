----------------------------- MODULE LuaPattern ------------------------------
(***************************************************************************)
(* The pattern matcher behind string.find, match, gmatch and gsub          *)
(* (lstrlib.c), with which the scripts compare keywords and file names.    *)
(* Subjects and patterns are sequences of characters, positions count from *)
(* 1, and 0 is the NULL pointer. The captures are one array that the       *)
(* matcher fills as it goes and repairs when it has to go back.            *)
(***************************************************************************)
EXTENDS Integers, Sequences, SequencesExt, FiniteSetsExt, TLC

CONSTANTS
  Letters, Digits,   \* the characters isalpha and isdigit accept
  Collate,           \* the characters in the order of their codes
  LUA_MAXCAPTURES    \* bound on the captures of a pattern

CAP_UNFINISHED == -1
CAP_POSITION   == -2
Specials       == {"^", "$", "*", "+", "?", ".", "(", "[", "%", "-"}

\* The character at a position; behind the last one there is a zero.
Ch(str, i) == IF i \in DOMAIN str THEN str[i] ELSE "\\0"
Code(c)    == IF c = "\\0" THEN 0 ELSE CHOOSE i \in DOMAIN Collate : Collate[i] = c

\* What a call of the matcher leaves: the end of the match, the captures, and
\* whether an error was raised.
Ended(e, caps)  == [e |-> e, caps |-> caps, err |-> FALSE]
NoMatch(caps)   == Ended(0, caps)
luaL_error      == [e |-> 0, caps |-> <<>>, err |-> TRUE]
Missed(r)       == ~r.err /\ r.e = 0

--------------------------------------------------------------------------------
(* Single characters.                                                          *)

RECURSIVE BracketEnd(_, _)
\* The loop that looks for the closing bracket, 0 if there is none.
BracketEnd(pat, q) ==
  LET next == IF Ch(pat, q) = "%" /\ Ch(pat, q + 1) # "\\0" THEN q + 2 ELSE q + 1
  IN IF Ch(pat, q) = "\\0" THEN 0
     ELSE IF Ch(pat, next) = "]" THEN next + 1 ELSE BracketEnd(pat, next)

\* The end of the item at p, 0 if it is malformed.
classend(pat, p) ==
  IF pat[p] = "%" THEN IF Ch(pat, p + 1) = "\\0" THEN 0 ELSE p + 2
  ELSE IF pat[p] = "[" THEN BracketEnd(pat, IF Ch(pat, p + 1) = "^" THEN p + 2 ELSE p + 1)
  ELSE p + 1

match_class(c, cl) ==
  CASE cl = "a" -> c \in Letters
    [] cl = "A" -> c \notin Letters
    [] cl = "d" -> c \in Digits
    [] cl = "D" -> c \notin Digits
    [] cl = "w" -> c \in Letters \cup Digits
    [] cl = "W" -> c \notin Letters \cup Digits
    [] OTHER -> cl = c

RECURSIVE InBracket(_, _, _, _)
\* Whether one of the entries from q to the bracket at ec has the character.
InBracket(c, pat, q, ec) ==
  IF q >= ec THEN FALSE
  ELSE IF pat[q] = "%" THEN match_class(c, pat[q + 1]) \/ InBracket(c, pat, q + 2, ec)
  ELSE IF Ch(pat, q + 1) = "-" /\ q + 2 < ec
  THEN Code(c) \in Code(pat[q]) .. Code(pat[q + 2]) \/ InBracket(c, pat, q + 3, ec)
  ELSE pat[q] = c \/ InBracket(c, pat, q + 1, ec)

matchbracketclass(c, pat, p, ec) ==
  IF pat[p + 1] = "^" THEN ~InBracket(c, pat, p + 2, ec) ELSE InBracket(c, pat, p + 1, ec)

singlematch(c, pat, p, ep) ==
  CASE pat[p] = "." -> TRUE
    [] pat[p] = "%" -> match_class(c, pat[p + 1])
    [] pat[p] = "[" -> matchbracketclass(c, pat, p, ep - 1)
    [] OTHER -> pat[p] = c

--------------------------------------------------------------------------------
(* The matcher. src is the subject, s the position in it, p the one in pat.    *)

\* The end of the text that is balanced from s on, 0 if it is not.
matchbalance(src, s, pat, p) ==
  LET Depth(t) == Cardinality({i \in s .. t : src[i] = pat[p] /\ (pat[p] # pat[p + 1] \/ i = s)})
                  - Cardinality({i \in s + 1 .. t : src[i] = pat[p + 1]})
      ends == {t \in s + 1 .. Len(src) : Depth(t) = 0}
  IN IF Ch(src, s) # pat[p] \/ ends = {} THEN 0 ELSE Min(ends) + 1

\* The capture a close bracket closes, and the one a back reference names; 0 is
\* an error.
capture_to_close(caps) == Max({0} \cup {l \in DOMAIN caps : caps[l].len = CAP_UNFINISHED})
check_capture(caps, l) == IF l \in DOMAIN caps /\ caps[l].len # CAP_UNFINISHED THEN l ELSE 0

\* A position capture has a length no rest of a subject can have.
match_capture(src, s, cap) ==
  IF /\ cap.len >= 0 /\ Len(src) + 1 - s >= cap.len
     /\ SubSeq(src, cap.init, cap.init + cap.len - 1) = SubSeq(src, s, s + cap.len - 1)
  THEN s + cap.len ELSE 0

RECURSIVE match(_, _, _, _, _)

RECURSIVE Reduce(_, _, _, _, _, _)
\* Tries with i repetitions, then with fewer.
Reduce(src, s, pat, ep, i, caps) ==
  LET r == match(src, s + i, pat, ep + 1, caps)
  IN IF Missed(r) /\ i > 0 THEN Reduce(src, s, pat, ep, i - 1, r.caps) ELSE r

max_expand(src, s, pat, p, ep, caps) ==
  LET fits == {n \in 0 .. Len(src) + 1 - s : \A k \in s .. s + n - 1 : singlematch(src[k], pat, p, ep)}
  IN Reduce(src, s, pat, ep, Max(fits), caps)

RECURSIVE min_expand(_, _, _, _, _, _)
min_expand(src, s, pat, p, ep, caps) ==
  LET r == match(src, s, pat, ep + 1, caps)
  IN IF Missed(r) /\ s <= Len(src) /\ singlematch(Ch(src, s), pat, p, ep)
     THEN min_expand(src, s + 1, pat, p, ep, r.caps) ELSE r

start_capture(src, s, pat, p, caps, what) ==
  LET r == match(src, s, pat, p, Append(caps, [init |-> s, len |-> what]))
  IN IF Len(caps) >= LUA_MAXCAPTURES THEN luaL_error
     ELSE IF Missed(r) THEN NoMatch(Front(r.caps)) ELSE r

\* Mutant: a capture stays closed when the match behind it fails.
EndCaptureKept(src, s, pat, p, caps) ==
  LET l == capture_to_close(caps)
  IN IF l = 0 THEN luaL_error
     ELSE match(src, s, pat, p, [caps EXCEPT ![l].len = s - caps[l].init])

end_capture(src, s, pat, p, caps) ==
  LET l == capture_to_close(caps)
      r == match(src, s, pat, p, [caps EXCEPT ![l].len = s - caps[l].init])
  IN IF l = 0 THEN luaL_error
     ELSE IF Missed(r) THEN NoMatch([r.caps EXCEPT ![l].len = CAP_UNFINISHED]) ELSE r

\* An item: a single character, with a repetition behind it or not.
MatchItem(src, s, pat, p, ep, caps) ==
  LET m   == s <= Len(src) /\ singlematch(Ch(src, s), pat, p, ep)
      opt == match(src, s + 1, pat, ep + 1, caps)
  IN IF ep = 0 THEN luaL_error
     ELSE CASE Ch(pat, ep) = "?" ->
              IF ~m THEN match(src, s, pat, ep + 1, caps)
              ELSE IF Missed(opt) THEN match(src, s, pat, ep + 1, opt.caps) ELSE opt
            [] Ch(pat, ep) = "*" -> max_expand(src, s, pat, p, ep, caps)
            [] Ch(pat, ep) = "+" -> IF m THEN max_expand(src, s + 1, pat, p, ep, caps) ELSE NoMatch(caps)
            [] Ch(pat, ep) = "-" -> min_expand(src, s, pat, p, ep, caps)
            [] OTHER -> IF m THEN match(src, s + 1, pat, ep, caps) ELSE NoMatch(caps)

MatchFrontier(src, s, pat, p, caps) ==
  LET ep == classend(pat, p)
      Set(c) == matchbracketclass(c, pat, p, ep - 1)
  IN IF Ch(pat, p) # "[" \/ ep = 0 THEN luaL_error
     ELSE IF Set(Ch(src, s - 1)) \/ ~Set(Ch(src, s)) THEN NoMatch(caps)
     ELSE match(src, s, pat, ep, caps)

\* An escape: balanced text, a frontier, a back reference or a class.
MatchEscape(src, s, pat, p, caps) ==
  LET On(t, q) == IF t = 0 THEN NoMatch(caps) ELSE match(src, t, pat, q, caps)
      l == check_capture(caps, Code(Ch(pat, p + 1)) - Code("1") + 1)
  IN CASE Ch(pat, p + 1) = "b" ->
            IF "\\0" \in {Ch(pat, p + 2), Ch(pat, p + 3)} THEN luaL_error
            ELSE On(matchbalance(src, s, pat, p + 2), p + 4)
       [] Ch(pat, p + 1) = "f" -> MatchFrontier(src, s, pat, p + 2, caps)
       [] Ch(pat, p + 1) \in Digits ->
            IF l = 0 THEN luaL_error ELSE On(match_capture(src, s, caps[l]), p + 2)
       [] OTHER -> MatchItem(src, s, pat, p, classend(pat, p), caps)

match(src, s, pat, p, caps) ==
  CASE Ch(pat, p) = "(" ->
         IF Ch(pat, p + 1) = ")" THEN start_capture(src, s, pat, p + 2, caps, CAP_POSITION)
         ELSE start_capture(src, s, pat, p + 1, caps, CAP_UNFINISHED)
    [] Ch(pat, p) = ")" -> end_capture(src, s, pat, p + 1, caps)
    [] Ch(pat, p) = "%" -> MatchEscape(src, s, pat, p, caps)
    [] Ch(pat, p) = "\\0" -> Ended(s, caps)
    [] Ch(pat, p) = "$" /\ p = Len(pat) -> IF s = Len(src) + 1 THEN Ended(s, caps) ELSE NoMatch(caps)
    [] OTHER -> MatchItem(src, s, pat, p, classend(pat, p), caps)

--------------------------------------------------------------------------------
(* The library functions.                                                      *)


\* The capture i of a match from s to e, as text or as a position: without
\* captures the first one is the whole match.
push_onecapture(src, s, e, caps, i) ==
  IF i > Len(caps) THEN [text |-> SubSeq(src, s, e - 1), pos |-> 0]
  ELSE IF caps[i].len = CAP_POSITION THEN [text |-> <<>>, pos |-> caps[i].init]
  ELSE [text |-> SubSeq(src, caps[i].init, caps[i].init + caps[i].len - 1), pos |-> 0]

\* The two errors of push_onecapture.
Refused(caps, i) == (i > Len(caps) /\ i > 1) \/ (i <= Len(caps) /\ caps[i].len = CAP_UNFINISHED)

\* What a call returns: positions and captures, nothing at all, or an error.
Result(from, to, values) == [from |-> from, to |-> to, values |-> values]
NotFound == Result(0, 0, <<>>)
Error    == Result(-1, -1, <<>>)

push_captures(src, s, e, caps, whole) ==
  LET n == IF caps = <<>> /\ whole THEN 1 ELSE Len(caps)
  IN IF \E i \in 1 .. n : Refused(caps, i) THEN Error
     ELSE Result(s, e - 1, [i \in 1 .. n |-> push_onecapture(src, s, e, caps, i)])

posrelat(pos, len) == Max({0, IF pos < 0 THEN pos + len + 1 ELSE pos})

\* The first place from s on that has the pattern as it is.
lmemfind(src, s, pat) ==
  LET places == {i \in s .. Len(src) + 1 - Len(pat) : SubSeq(src, i, i + Len(pat) - 1) = pat}
  IN IF places = {} THEN NotFound ELSE Result(Min(places), Min(places) + Len(pat) - 1, <<>>)

RECURSIVE SearchFrom(_, _, _, _, _, _)
\* The loop of str_find_aux: the pattern, from position p on, is tried at s and
\* at the places behind.
SearchFrom(src, s, pat, p, anchor, find) ==
  LET r == match(src, s, pat, p, <<>>)
  IN IF r.err THEN Error
     ELSE IF ~Missed(r) THEN push_captures(src, s, r.e, r.caps, ~find)
     ELSE IF s > Len(src) \/ anchor THEN NotFound
     ELSE SearchFrom(src, s + 1, pat, p, anchor, find)

Anchored(pat) == Ch(pat, 1) = "^"

str_find_aux(src, pat, init, find) ==
  LET start == Max({1, Min({posrelat(init, Len(src)), Len(src) + 1})})
  IN IF find /\ Range(pat) \cap Specials = {} THEN lmemfind(src, start, pat)
     ELSE SearchFrom(src, start, pat, IF Anchored(pat) THEN 2 ELSE 1, Anchored(pat), find)

\* One call of the iterator of gmatch. An empty match is stepped over.
gmatch_aux(src, pat, start) == SearchFrom(src, start, pat, 1, FALSE, FALSE)
NextStart(r) == IF r.to < r.from THEN r.to + 2 ELSE r.to + 1

RECURSIVE gmatch(_, _, _)
gmatch(src, pat, start) ==
  LET r == gmatch_aux(src, pat, start)
  IN IF start > Len(src) + 1 \/ r = NotFound THEN <<>>
     ELSE IF r = Error THEN <<Error>>
     ELSE <<r>> \o gmatch(src, pat, NextStart(r))

RECURSIVE add_s(_, _, _, _, _, _)
\* The replacement text from i on, with the captures it names.
add_s(src, s, e, caps, news, i) ==
  LET capture == push_onecapture(src, s, e, caps, Code(news[i + 1]) - Code("0"))
  IN IF i > Len(news) THEN <<>>
     ELSE IF news[i] # "%" THEN <<news[i]>> \o add_s(src, s, e, caps, news, i + 1)
     ELSE (IF news[i + 1] \notin Digits THEN <<news[i + 1]>>
           ELSE IF news[i + 1] = "0" THEN SubSeq(src, s, e - 1)
           ELSE IF capture.pos > 0 THEN <<ToString(capture.pos)>> ELSE capture.text)
          \o add_s(src, s, e, caps, news, i + 2)

\* The captures a replacement text names must be there.
NamesRefused(caps, news) ==
  \E i \in 1 .. Len(news) - 1 :
    news[i] = "%" /\ news[i + 1] \in Digits \ {"0"} /\ Refused(caps, Code(news[i + 1]) - Code("0"))

\* A replacement is a text, or a table from the first capture to a text, in which
\* the match stays as it is when nothing is found.
add_value(src, s, e, caps, repl) ==
  LET key == push_onecapture(src, s, e, caps, 1)
  IN IF repl.kind = "text" THEN add_s(src, s, e, caps, repl.text, 1)
     ELSE IF key.text \in DOMAIN repl.map THEN repl.map[key.text] ELSE SubSeq(src, s, e - 1)

ValueRefused(caps, repl) ==
  IF repl.kind = "text" THEN NamesRefused(caps, repl.text) ELSE Refused(caps, 1)

RECURSIVE Substitute(_, _, _, _, _, _, _)
\* The loop of str_gsub: left is how many may follow, n how many there were, out
\* the buffer. After an empty match, or none, one character is copied.
Substitute(src, s, pat, repl, left, n, out) ==
  LET r     == match(src, s, pat, IF Anchored(pat) THEN 2 ELSE 1, <<>>)
      hit   == ~Missed(r)
      moved == hit /\ r.e > s
      count == IF hit THEN n + 1 ELSE n
      text  == IF hit THEN out \o add_value(src, s, r.e, r.caps, repl) ELSE out
      next  == IF moved THEN r.e ELSE s + 1
      more  == IF moved THEN text ELSE Append(text, src[s])
      Done(at, t, k) == [text |-> t \o SubSeq(src, at, Len(src)), n |-> k, err |-> FALSE]
  IN IF left = 0 THEN Done(s, out, n)
     ELSE IF r.err \/ (hit /\ ValueRefused(r.caps, repl)) THEN [text |-> <<>>, n |-> 0, err |-> TRUE]
     ELSE IF ~moved /\ s > Len(src) THEN Done(s, text, count)
     ELSE IF Anchored(pat) THEN Done(next, more, count)
     ELSE Substitute(src, next, pat, repl, IF hit THEN left - 1 ELSE left, count, more)

\* Mutant: the limit is passed by one.
GsubOneMore(src, pat, repl, max_s) == Substitute(src, 1, pat, repl, max_s + 1, 0, <<>>)

str_gsub(src, pat, repl, max_s) == Substitute(src, 1, pat, repl, max_s, 0, <<>>)

=============================================================================
