------------------------------- MODULE LuaText -------------------------------
(***************************************************************************)
(* The ways to write a program as a text, which the scanner of LuaLexer is *)
(* checked against: what may stand between two tokens, and how strings,    *)
(* numbers and comments can be spelled. As in LuaLexer, a word of letters  *)
(* is one character.                                                       *)
(***************************************************************************)
EXTENDS LuaLang

Joined(cs) == FoldLeft(LAMBDA acc, c : acc \o c, "", cs)
Repeat_(c, n) == [i \in 1 .. n |-> c]
Decimal[n \in Nat] == IF n < 10 THEN <<ToString(n)>> ELSE Append(Decimal[n \div 10], ToString(n % 10))

--------------------------------------------------------------------------------
(* Strings and comments.                                                       *)

Brackets(body, level) ==
  LET eqs == Repeat_("=", level)
  IN <<"[">> \o eqs \o <<"[">> \o body \o <<"]">> \o eqs \o <<"]">>

Occurs(part, cs, i) == i + Len(part) - 1 <= Len(cs) /\ SubSeq(cs, i, i + Len(part) - 1) = part

\* A body fits between long brackets if they close behind it and not before, and
\* if it holds no [[, which the scanner refuses within [[ and ]].
Fits(body, level) ==
  LET close == <<"]">> \o Repeat_("=", level) \o <<"]">>
  IN /\ \A i \in 1 .. Len(body) : ~Occurs(close, body \o close, i)
     /\ level = 0 => \A i \in DOMAIN body : ~Occurs(<<"[", "[">>, body, i)

\* A newline can be written in three ways. One right behind the opening brackets
\* does not count, so one more is put in front of a body that begins with one.
NewlineText == << <<"\n">>, <<"\r", "\n">>, <<"\r">> >>
LongText(body, level) ==
  LET Piece(c) == IF c = "\n" THEN NewlineText[level + 1] ELSE <<c>>
      more     == IF body # <<>> /\ body[1] = "\n" THEN NewlineText[level + 1] ELSE <<>>
  IN Brackets(more \o FlattenSeq([i \in DOMAIN body |-> Piece(body[i])]), level)

ASCII == [c \in {"\n", "1", "=", "[", "\\", "]", "a"} |->
            CASE c = "\n" -> 10 [] c = "1" -> 49 [] c = "=" -> 61 [] c = "[" -> 91
              [] c = "\\" -> 92 [] c = "]" -> 93 [] OTHER -> 97]

\* Between quotes: with escapes where they are needed, and with decimal escapes,
\* which have three digits in front of a digit.
EscapedText(body, quote) ==
  LET Piece(c) == CASE c = "\n" -> <<"\\", IF quote = "'" THEN "n" ELSE "\n">>
                    [] c \in {"\\", quote} -> <<"\\", c>>
                    [] OTHER -> <<c>>
  IN <<quote>> \o FlattenSeq([i \in DOMAIN body |-> Piece(body[i])]) \o <<quote>>

DecimalText(body) ==
  LET Pad(i)   == IF i < Len(body) /\ body[i + 1] = "1" THEN <<"0">> ELSE <<>>
      Piece(i) == IF body[i] = "1" THEN <<"1">> ELSE <<"\\">> \o Pad(i) \o Decimal[ASCII[body[i]]]
  IN <<"'">> \o FlattenSeq([i \in DOMAIN body |-> Piece(i)]) \o <<"'">>

--------------------------------------------------------------------------------
(* Whole programs.                                                             *)

Signs == ("..." :> <<".", ".", ".">>) @@ (".." :> <<".", ".">>) @@ ("==" :> <<"=", "=">>)
           @@ ("<=" :> <<"<", "=">>) @@ (">=" :> <<">", "=">>) @@ ("~=" :> <<"~", "=">>)

\* The i-th token of a text. Strings take turns with their delimiters.
TokenText(tok, i) ==
  LET body == IF tok.v = "" THEN <<>> ELSE <<tok.v>>
  IN CASE tok.t = "name" -> <<tok.v>>
       [] tok.t = "number" -> IF tok.v < 0 THEN <<"-">> \o Decimal[-tok.v] ELSE Decimal[tok.v]
       [] tok.t = "string" -> IF i % 2 = 0 THEN EscapedText(body, IF i % 4 = 0 THEN "'" ELSE "\"")
                              ELSE Brackets(body, IF i % 4 = 1 THEN 0 ELSE 2)
       [] tok.t \in DOMAIN Signs -> Signs[tok.t]
       [] OTHER -> <<tok.t>>

Numerals == {ToString(n) : n \in 0 .. 9}
Marks == {"+", "-", "*", "/", "%", "^", "#", "=", "~", "<", ">", "(", ")", "{", "}", "[", "]", ";",
          ":", ",", ".", "\"", "'"}

\* Two tokens that would be read as others if nothing stood between them.
Glued(x, y) ==
  \/ x \notin Marks /\ y \notin Marks
  \/ x \in Numerals \cup {"."} /\ y = "."
  \/ x = "." /\ y \in Numerals
  \/ x = "-" /\ y = "-"
  \/ x = "[" /\ y \in {"[", "="}
  \/ x \in {"=", "<", ">", "~"} /\ y = "="

Gaps == << <<>>, <<" ">>, <<>>, <<"\r", "\n">>, <<" ", "-", "-", "[", "=", "x", "\n">>, <<>>,
           <<" ", "-", "-", "[", "[", "]", "x", "]", "]">>, <<"\t">> >>
Gap(x, y, i) ==
  LET gap == Gaps[1 + (i % Len(Gaps))] IN IF gap = <<>> /\ Glued(x, y) THEN <<" ">> ELSE gap

\* The text of a sequence of tokens.
Spelled(toks) ==
  LET texts == [i \in DOMAIN toks |-> TokenText(toks[i], i)]
      Piece(i) == (IF i = 1 THEN <<>> ELSE Gap(Last(texts[i - 1]), Head(texts[i]), i)) \o texts[i]
  IN FlattenSeq([i \in DOMAIN toks |-> Piece(i)])

=============================================================================
