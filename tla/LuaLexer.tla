------------------------------ MODULE LuaLexer ------------------------------
(***************************************************************************)
(* The scanner of the embedded Lua interpreter (llex.c). A text is a       *)
(* sequence of characters, and a word of letters counts as one. ls.z are   *)
(* the characters not read yet, the first of them is ls->current, and      *)
(* ls.buff is the buffer a token is collected in. Every call of the        *)
(* scanner starts with an empty buffer, so that only the text is left from *)
(* one token to the next. Line numbers are left out.                       *)
(***************************************************************************)
EXTENDS Integers, Sequences, SequencesExt

Digits   == {"0", "1", "2", "3", "4", "5", "6", "7", "8", "9"}
Newlines == {"\n", "\r"}
Spaces   == {" ", "\t"}
Symbols  == {"+", "-", "*", "/", "%", "^", "#", "=", "~", "<", ">", "(", ")", "{", "}",
             "[", "]", ";", ":", ",", ".", "\"", "'", "\\", "!"}
EOZ      == "<eoz>"

isalnum(c) == c \notin Newlines \cup Spaces \cup Symbols \cup {EOZ}   \* or _
isalpha(c) == isalnum(c) /\ c \notin Digits

Reserved == {"and", "break", "do", "else", "elseif", "end", "false", "for", "function",
             "if", "in", "local", "nil", "not", "or", "repeat", "return", "then", "true",
             "until", "while"}

--------------------------------------------------------------------------------
(* Reading and saving characters.                                              *)

Current(ls)  == IF ls.z = <<>> THEN EOZ ELSE Head(ls.z)
next(ls)     == [ls EXCEPT !.z = IF @ = <<>> THEN @ ELSE Tail(@)]
save(ls, c)  == [ls EXCEPT !.buff = Append(@, c)]
save_and_next(ls) == next(save(ls, Current(ls)))
resetbuffer(ls) == [ls EXCEPT !.buff = <<>>]

\* The loops that save or skip characters of a kind.
RunLength(z, P(_)) ==
  LET end == SelectInSeq(z, LAMBDA c : ~P(c)) IN IF end = 0 THEN Len(z) ELSE end - 1
SkipWhile(ls, P(_)) == [ls EXCEPT !.z = SubSeq(@, RunLength(@, P) + 1, Len(@))]
SaveWhile(ls, P(_)) ==
  [SkipWhile(ls, P) EXCEPT !.buff = @ \o SubSeq(ls.z, 1, RunLength(ls.z, P))]

check_next(ls, set) == IF Current(ls) \in set THEN save_and_next(ls) ELSE ls

\* \r\n and \n\r are one newline.
inclinenumber(ls) ==
  LET rest == next(ls)
  IN IF Current(rest) \in Newlines \ {Current(ls)} THEN next(rest) ELSE rest

Text(cs) == FoldLeft(LAMBDA acc, c : acc \o c, "", cs)

\* What llex returns: a token, the text behind it and what the buffer holds.
Lexed(ls, t, v) == [tok |-> [t |-> t, v |-> v], z |-> ls.z, buff |-> ls.buff]
luaX_lexerror(msg) == [tok |-> [t |-> "error", v |-> msg], z |-> <<>>, buff |-> <<>>]

--------------------------------------------------------------------------------
(* Numbers.                                                                    *)

HexDigits == <<"0", "1", "2", "3", "4", "5", "6", "7", "8", "9", "a", "b", "c", "d", "e", "f">>
InBase(cs, base) == FoldLeft(LAMBDA n, c : base * n + SelectInSeq(HexDigits, LAMBDA d : d = c) - 1, 0, cs)
AllDigits(cs) == \A i \in DOMAIN cs : cs[i] \in Digits

\* luaO_str2d: a hexadecimal integer, or digits with a point and an exponent. A
\* number is an integer here: no program has a fraction that is not 0, or one of the
\* hexadecimal numbers with a point or an exponent that strtod also reads.
IsHex(cs) == /\ Len(cs) > 2 /\ cs[1] = "0" /\ cs[2] \in {"x", "X"}
             /\ \A i \in 3 .. Len(cs) : Contains(HexDigits, cs[i])
Exponent(cs) == SelectInSeq(cs, LAMBDA c : c \in {"e", "E"})
Mantissa(cs) == IF Exponent(cs) = 0 THEN cs ELSE SubSeq(cs, 1, Exponent(cs) - 1)
Power(cs)    == IF Exponent(cs) = 0 THEN <<"0">> ELSE SubSeq(cs, Exponent(cs) + 1, Len(cs))
Unsigned(cs) == IF cs # <<>> /\ cs[1] \in {"+", "-"} THEN Tail(cs) ELSE cs
Point(cs)    == SelectInSeq(Mantissa(cs), LAMBDA c : c = ".")

IsDecimal(cs) ==
  /\ AllDigits(Unsigned(Power(cs))) /\ Unsigned(Power(cs)) # <<>>
  /\ AllDigits(RemoveAt(<<"0">> \o Mantissa(cs), 1 + Point(cs)))
  /\ \E i \in DOMAIN Mantissa(cs) : Mantissa(cs)[i] \in Digits

DecimalValue(cs) ==
  LET m      == Mantissa(cs)
      whole  == InBase(IF Point(cs) = 0 THEN m ELSE SubSeq(m, 1, Point(cs) - 1), 10)
      power  == InBase(Unsigned(Power(cs)), 10)
  IN IF Power(cs)[1] = "-" THEN whole \div 10 ^ power ELSE whole * 10 ^ power

read_numeral(ls) ==
  LET digits   == SaveWhile(save_and_next(ls), LAMBDA c : c \in Digits \cup {"."})
      exponent == check_next(digits, {"E", "e"})
      signed   == IF exponent = digits THEN digits ELSE check_next(exponent, {"+", "-"})
      all      == SaveWhile(signed, isalnum)
  IN IF IsHex(all.buff) THEN Lexed(all, "number", InBase(SubSeq(all.buff, 3, Len(all.buff)), 16))
     ELSE IF IsDecimal(all.buff) THEN Lexed(all, "number", DecimalValue(all.buff))
     ELSE luaX_lexerror("malformed number")

--------------------------------------------------------------------------------
(* Strings.                                                                    *)

Plain(c)   == c \notin Newlines \cup {"\\", EOZ}
EscapeCode == [a |-> "BEL", b |-> "BS", f |-> "\f", n |-> "\n", r |-> "\r", t |-> "\t", v |-> "VT"]

\* The characters that decimal escapes name in a program.
CodeOf   == << <<10, "\n">>, <<49, "1">>, <<61, "=">>, <<91, "[">>, <<92, "\\">>, <<93, "]">>, <<97, "a">> >>
CharOf(n) == IF \E i \in DOMAIN CodeOf : CodeOf[i][1] = n
             THEN CodeOf[SelectInSeq(CodeOf, LAMBDA p : p[1] = n)][2] ELSE "char"

\* A backslash with up to three digits; ls is behind the backslash.
DigitCount(ls) ==
  CHOOSE n \in 1 .. 3 : /\ n <= Len(ls.z) /\ AllDigits(SubSeq(ls.z, 1, n))
                        /\ n = 3 \/ n = Len(ls.z) \/ ls.z[n + 1] \notin Digits
DecimalEscape(ls) == InBase(SubSeq(ls.z, 1, DigitCount(ls)), 10)
AfterDigits(ls)   == [ls EXCEPT !.z = SubSeq(@, DigitCount(ls) + 1, Len(@))]

\* After a backslash; at the end of the text the loop finds the error.
EscapeSequence(ls) ==
  CASE Current(ls) = EOZ -> ls
    [] Current(ls) \in Newlines -> inclinenumber(save(ls, "\n"))
    [] Current(ls) \in Digits -> save(AfterDigits(ls), CharOf(DecimalEscape(ls)))
    [] Current(ls) \in DOMAIN EscapeCode -> next(save(ls, EscapeCode[Current(ls)]))
    [] OTHER -> save_and_next(ls)

RECURSIVE StringBody(_, _)
StringBody(ls, del) ==
  IF Current(ls) = del THEN
    LET all == save_and_next(ls)
    IN Lexed(all, "string", Text(SubSeq(all.buff, 2, Len(all.buff) - 1)))
  ELSE IF Plain(Current(ls)) THEN StringBody(save_and_next(ls), del)
  ELSE IF Current(ls) # "\\" THEN luaX_lexerror("unfinished string")
  ELSE IF Current(next(ls)) \in Digits /\ DecimalEscape(next(ls)) > 255
    THEN luaX_lexerror("escape sequence too large")
  ELSE StringBody(EscapeSequence(next(ls)), del)

read_string(ls) == StringBody(save_and_next(ls), Current(ls))

\* [=[ or ]=]: how many = there are, or a negative number if the second bracket
\* is missing; what was read stays in the buffer.
skip_sep(ls) ==
  LET read  == SaveWhile(save_and_next(ls), LAMBDA c : c = "=")
      count == Len(read.buff) - Len(ls.buff) - 1
  IN [ls |-> read, sep |-> IF Current(read) = Current(ls) THEN count ELSE -count - 1]

\* The body of a long string, or of a long comment if keep is FALSE.
RECURSIVE LongBody(_, _, _)
LongBody(ls, keep, sep) ==
  LET c == Current(ls)
      r == skip_sep(ls)
  IN CASE c = EOZ -> luaX_lexerror(IF keep THEN "unfinished long string" ELSE "unfinished long comment")
       [] c = "[" -> IF r.sep # sep THEN LongBody(r.ls, keep, sep)
                     ELSE IF sep = 0 THEN luaX_lexerror("nesting of [[...]] is deprecated")
                     ELSE LongBody(save_and_next(r.ls), keep, sep)
       [] c = "]" -> IF r.sep # sep THEN LongBody(r.ls, keep, sep)
                     ELSE LET all == save_and_next(r.ls)
                          IN Lexed(all, "string", Text(SubSeq(all.buff, 3 + sep, Len(all.buff) - 2 - sep)))
       [] c \in Newlines -> LongBody(LET l == inclinenumber(save(ls, "\n")) IN IF keep THEN l ELSE resetbuffer(l),
                                     keep, sep)
       [] OTHER -> LongBody(IF keep THEN save_and_next(ls) ELSE next(ls), keep, sep)

\* The second bracket, and a newline right behind it, do not belong to the body.
read_long_string(ls, keep, sep) ==
  LET begin == save_and_next(ls)
  IN LongBody(IF Current(begin) \in Newlines THEN inclinenumber(begin) ELSE begin, keep, sep)

--------------------------------------------------------------------------------
(* Tokens.                                                                     *)

LongestOf(ls) ==
  LET read == next(ls)
  IN IF Current(read) = "=" THEN Lexed(next(read), Current(ls) \o "=", 0) ELSE Lexed(read, Current(ls), 0)

Dots(ls) ==
  LET one   == save_and_next(ls)
      two   == check_next(one, {"."})
      three == check_next(two, {"."})
  IN IF two # one THEN Lexed(three, IF three # two THEN "..." ELSE "..", 0)
     ELSE IF Current(one) \in Digits THEN read_numeral(one)
     ELSE Lexed(one, ".", 0)

Word(ls) ==
  LET all == SaveWhile(ls, isalnum)
      w   == Text(all.buff)
  IN IF w \in Reserved THEN Lexed(all, w, 0) ELSE Lexed(all, "name", w)

Bracket(ls) ==
  LET r == skip_sep(ls)
  IN IF r.sep >= 0 THEN read_long_string(r.ls, TRUE, r.sep)
     ELSE IF r.sep = -1 THEN Lexed(r.ls, "[", 0)
     ELSE luaX_lexerror("invalid long string delimiter")

\* A comment whose two dashes were read. skip_sep may leave something in the
\* buffer, and so does a long comment.
Comment(ls) ==
  LET r     == skip_sep(ls)
      clean == IF Current(ls) = "[" THEN resetbuffer(r.ls) ELSE ls
  IN IF Current(ls) = "[" /\ r.sep >= 0 THEN [read_long_string(clean, FALSE, r.sep) EXCEPT !.buff = <<>>]
     ELSE Lexed(SkipWhile(clean, LAMBDA c : c \notin Newlines), "comment", 0)

RECURSIVE Scan(_)
Scan(ls) ==
  LET c == Current(ls)
      Behind(r) == IF r.tok.t = "error" THEN r ELSE Scan([z |-> r.z, buff |-> r.buff])
  IN CASE c \in Newlines -> Scan(inclinenumber(ls))
       [] c \in Spaces -> Scan(next(ls))
       [] c = "-" -> IF Current(next(ls)) = "-" THEN Behind(Comment(next(next(ls)))) ELSE Lexed(next(ls), "-", 0)
       [] c = "[" -> Bracket(ls)
       [] c \in {"=", "<", ">", "~"} -> LongestOf(ls)
       [] c \in {"\"", "'"} -> read_string(ls)
       [] c = "." -> Dots(ls)
       [] c = EOZ -> Lexed(ls, "eos", 0)
       [] c \in Digits -> read_numeral(ls)
       [] isalpha(c) -> Word(ls)
       [] OTHER -> Lexed(next(ls), c, 0)

llex(z) == Scan([z |-> z, buff |-> <<>>])

\* What the calls of llex return one after the other, up to the end or an error.
RECURSIVE TokensOf(_)
TokensOf(z) ==
  LET r == llex(z)
  IN <<r.tok>> \o (IF r.tok.t \in {"eos", "error"} THEN <<>> ELSE TokensOf(r.z))

=============================================================================
