-------------------------------- MODULE Paths --------------------------------
(***************************************************************************)
(* The path functions of the program: lua/puremake/path.lua, over          *)
(* lua/wetgenes/path.lua. A path is a sequence of tokens: separators, "."  *)
(* and "..", and names. A name is a token of its own, and no two names     *)
(* follow each other. The empty sequence is the empty string.              *)
(***************************************************************************)
EXTENDS Naturals, Sequences, SequencesExt, FiniteSetsExt

CONSTANTS
  Macros,   \* names that begin with a dollar sign
  Drives    \* names of two characters that end with a colon

Separators == {"/", "\\"}

isabsolute(p) == p # <<>> /\ p[1] \in Separators \cup Macros \cup Drives

\* path.translate for one value.
translate(p, sep) == [i \in DOMAIN p |-> IF p[i] \in Separators THEN sep ELSE p[i]]

--------------------------------------------------------------------------------
(* wetgenes/path.lua. The components of a path are names and empty strings;    *)
(* an empty first one stands for the root, an empty last one for a separator   *)
(* at the end.                                                                 *)

\* Ends a component: an empty one behind an empty one is left out.
Component(ps, s) ==
  IF s = "" /\ ps # <<>> /\ Last(ps) = "" THEN ps ELSE Append(ps, s)

split(p) ==
  LET Read(acc, c) == IF c \in Separators THEN [ps |-> Component(acc.ps, acc.s), s |-> ""]
                      ELSE [acc EXCEPT !.s = c]
      end == FoldLeft(Read, [ps |-> <<>>, s |-> ""], p)
  IN Append(end.ps, end.s)

concat(ps) ==
  FlattenSeq([i \in DOMAIN ps |-> (IF i = 1 THEN <<>> ELSE <<"/">>)
                                  \o (IF ps[i] = "" THEN <<>> ELSE <<ps[i]>>)])

\* parse(p).root: an empty component with something behind it, or a drive.
rooted(p) == (split(p)[1] = "" /\ Len(split(p)) > 1) \/ split(p)[1] \in Drives

\* Mutant: .. also removes the root.
UpFromRoot(least, ps, c) ==
  IF c = "." THEN ps
  ELSE IF c = ".." /\ Len(ps) > 0 THEN Front(ps)
  ELSE Append(ps, c)

\* One turn of the second loop, over the components that were kept: .. removes
\* the one before it, even if that is a .. as well, or stays when fewer than
\* least are left.
Resolved(least, ps, c) ==
  IF c = "." THEN ps
  ELSE IF c = ".." /\ Len(ps) >= least THEN Front(ps)
  ELSE Append(ps, c)

wnormalize(p) ==
  LET ps    == split(p)
      inner == SelectSeq(SubSeq(ps, 2, Len(ps) - 1), LAMBDA c : c # "")
      tidy  == IF Len(ps) < 3 THEN ps ELSE <<Head(ps)>> \o inner \o <<Last(ps)>>
      least == IF rooted(p) THEN 2 ELSE 1
  IN concat(FoldLeft(LAMBDA acc, c : Resolved(least, acc, c), <<>>, tidy))

\* The working directory, with a separator at the end.
currentdir(cwd) == IF Last(cwd) = "/" THEN cwd ELSE Append(cwd, "/")

resolve(p, cwd) == wnormalize(IF rooted(p) THEN p ELSE currentdir(cwd) \o p)

\* With nothing in common but the root, the second path is returned as it was
\* given.
relative(pa, pb, cwd) ==
  LET DropEmpty(ps) == IF Last(ps) = "" THEN Front(ps) ELSE ps
      a == DropEmpty(split(resolve(pa, cwd)))
      b == split(resolve(pb, cwd))
      match == Min({Len(a) + 1} \cup {i \in DOMAIN a : i > Len(b) \/ a[i] # b[i]})
      back  == [i \in 1 .. Len(a) + 1 - match |-> ".."]
  IN IF match = 1 \/ (match = 2 /\ a[1] = "") THEN pb
     ELSE concat((IF back = <<>> THEN <<".">> ELSE back) \o SubSeq(b, match, Len(b)))

--------------------------------------------------------------------------------
(* puremake/path.lua                                                           *)

\* What all three do with the result: without ./ in front and / at the end.
Trimmed(r) ==
  LET s == IF Len(r) > 1 /\ r[1] = "." /\ r[2] = "/" THEN SubSeq(r, 3, Len(r)) ELSE r
  IN IF s # <<>> /\ Last(s) = "/" THEN Front(s) ELSE s

getrelative(a, b, cwd) == Trimmed(relative(a, b, cwd))

getabsolute(p, cwd) ==
  Trimmed(IF p # <<>> /\ p[1] \in Macros THEN wnormalize(p) ELSE resolve(p, cwd))

normalize(p) == Trimmed(wnormalize(p))

JoinPart(n, v) ==
  IF isabsolute(v) THEN v ELSE IF n = <<>> THEN v ELSE n \o <<"/">> \o v

join(parts) ==
  normalize(FoldLeft(JoinPart, <<>>,
                     IF parts = <<>> \/ parts[1] = <<>> THEN << <<".">> >> \o Tail(parts) ELSE parts))

\* Everything before the last slash, but the root keeps it.
getdirectory(p) ==
  LET slashes == {i \in DOMAIN p : p[i] = "/"}
  IN IF slashes = {} THEN <<".">>
     ELSE SubSeq(p, 1, IF Max(slashes) > 1 THEN Max(slashes) - 1 ELSE 1)

rebase(p, oldbase, newbase, cwd) ==
  getrelative(newbase, getabsolute(join(<<oldbase, p>>), cwd), cwd)

--------------------------------------------------------------------------------
(* What a path means to the operating system: where it starts and the names on *)
(* the way, with . and .. followed name by name.                               *)

\* The parts between separators, without the empty ones.
Parts(p) == SelectSeq(p, LAMBDA c : c \notin Separators)

\* A root is not climbed out of, and neither is a macro: what it stands for is
\* not known.
Step(names, part) ==
  IF part = "." THEN names
  ELSE IF part = ".." /\ names # <<>> /\ Last(names) \in Drives \cup {"/"} THEN names
  ELSE IF part = ".." /\ names # <<>> /\ Last(names) \notin Macros \cup {".."} THEN Front(names)
  ELSE Append(names, part)

Meaning(p) ==
  FoldLeft(Step, IF p # <<>> /\ p[1] \in Separators THEN <<"/">> ELSE <<>>, Parts(p))

\* Where a path leads from a directory.
From(base, p) == Meaning(IF isabsolute(p) THEN p ELSE base \o <<"/">> \o p)

\* No .. in the path leads back to a macro.
Tame(p) ==
  LET q == Parts(p)
      Count(i, j, up) == Cardinality({k \in i .. j : q[k] # "." /\ (q[k] = "..") = up})
  IN \A i, j \in DOMAIN q :
       i < j /\ q[i] \in Macros => Count(i + 1, j, FALSE) >= Count(i + 1, j, TRUE)

\* How often a path leaves the directory it is relative to.
Leaves(p) == Cardinality({i \in DOMAIN Meaning(p) : Meaning(p)[i] = ".."})

================================================================================
