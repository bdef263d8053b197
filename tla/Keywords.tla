------------------------------ MODULE Keywords ------------------------------
(***************************************************************************)
(* Matching of a configuration block's keywords against the filter terms:  *)
(* premake.iskeywordmatch and premake.iskeywordsmatch of src/base/bake.lua.*)
(*                                                                         *)
(* A terms table is a function on TermKeys with Nil for a missing entry.   *)
(* The entries for the action, the operating system and the options never  *)
(* change after the command line is read; the key "env" stands for them.   *)
(* "word" stands for the array part, which holds the words of the block the*)
(* table belongs to. A keyword is                                          *)
(*   [neg |-> starts with "not ", alts |-> its " or " alternatives]        *)
(* and an alternative is the set of values its Lua pattern matches in full.*)
(***************************************************************************)
EXTENDS Naturals, Sequences

CONSTANTS Values, Nil

ASSUME NilNotValue == Nil \notin Values

TermKeys == {"word", "env", "config", "platform", "kind", "required"}

TermTable == [TermKeys -> Values \cup {Nil}]

Keyword == [neg : BOOLEAN, alts : Seq(SUBSET Values)]

\* The keys whose term an alternative matches.
Hits(alt, terms) == {k \in TermKeys : terms[k] # Nil /\ terms[k] \in alt}

\* iskeywordmatch without the negation: the keys it may return, given that
\* pairs() visits the terms in an arbitrary order; empty when there is no match.
MatchKeys(kw, terms) ==
  UNION {Hits(kw.alts[i], terms) : i \in
           {j \in 1 .. Len(kw.alts) :
              \A h \in 1 .. j - 1 : Hits(kw.alts[h], terms) = {}}}

iskeywordmatch(kw, terms) == kw.neg # (MatchKeys(kw, terms) # {})

\* Every keyword matches (the test of a block at the configuration level).
AllKeywords(kws, terms) == \A i \in 1 .. Len(kws) : iskeywordmatch(kws[i], terms)

\* iskeywordsmatch for a table with a required term can depend on the order of
\* pairs(): a negated keyword never reports the key it matched, and a pattern
\* that matches the file and another term may report either.
MustMatch(kws, terms) ==
  /\ AllKeywords(kws, terms)
  /\ terms["required"] # Nil =>
       \E i \in 1 .. Len(kws) : ~kws[i].neg /\ MatchKeys(kws[i], terms) = {"required"}

\* Mutant: the required flag is ignored.
MayMatchAny(kws, terms) == AllKeywords(kws, terms)

MayMatch(kws, terms) ==
  /\ AllKeywords(kws, terms)
  /\ terms["required"] # Nil =>
       \E i \in 1 .. Len(kws) : ~kws[i].neg /\ "required" \in MatchKeys(kws[i], terms)
=============================================================================
