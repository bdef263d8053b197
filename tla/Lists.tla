------------------------------- MODULE Lists -------------------------------
(***************************************************************************)
(* The two things that the modules about lists of settings keep saying:    *)
(* what a list contains, and the list that a loop leaves which keeps some  *)
(* items and drops the others. Filter is a recursive function over the     *)
(* length, so that it can be reasoned about.                               *)
(***************************************************************************)
EXTENDS Naturals, Sequences

RangeOf(s) == {s[n] : n \in 1 .. Len(s)}

\* The items of s that are in P, in their order.
Filter(s, P) ==
  LET kept[n \in 0 .. Len(s)] ==
        IF n = 0 THEN << >>
        ELSE IF s[n] \in P THEN Append(kept[n - 1], s[n])
        ELSE kept[n - 1]
  IN kept[Len(s)]
=============================================================================
