----------------------------- MODULE MCCollapse -----------------------------
(***************************************************************************)
(* Collapse on a small instance: a solution with two projects, two         *)
(* configurations and two platforms. The solution has up to two blocks, the*)
(* second project up to three, drawn from forms that interact: they set a   *)
(* kind, are filtered by a kind, a configuration, a platform or a file, and*)
(* add to the same lists.                                                  *)
(***************************************************************************)
EXTENDS Collapse

Debug == <<"debug">>
Release == <<"release">>
PS3 == <<"ps3">>
DebugDLL == <<"debugdll">>
ReleaseDLL == <<"releasedll">>
AnyValue == {Debug, Release, DebugDLL, ReleaseDLL, PS3, <<"native">>, <<"linux">>, <<"static">>,
             <<"shared">>, <<"a">>, <<"b">>, << >>}

Is(v) == <<[neg |-> FALSE, alts |-> <<{v}>>]>>
Not(v) == <<[neg |-> TRUE, alts |-> <<{v}>>]>>
Either(v, w) == <<[neg |-> FALSE, alts |-> <<{v}, {w}>>]>>
Everything == <<[neg |-> FALSE, alts |-> <<AnyValue>>]>>

Plain == [word |-> Nil, keywords |-> << >>, kind |-> Nil, targetname |-> Nil,
          links |-> << >>, files |-> << >>, excludes |-> << >>]

Word(w, b) == [b EXCEPT !.word = w]

When(kws, b) == [b EXCEPT !.keywords = kws]

P(x, abs) == [item |-> x, abs |-> abs]

Kind(k) == [Plain EXCEPT !.kind = k]
Links(s) == [Plain EXCEPT !.links = s]

\* Blocks of the solution: paths are still absolute.
SlnFirst == [Plain EXCEPT !.files = <<P("a", TRUE)>>, !.links = <<"m">>]
SlnMore == {<< >>, <<When(Is(Debug), Kind(<<"static">>))>>,
            <<When(Not(PS3), Links(<<"n", "m">>))>>}

\* Blocks of a project: paths are already relative to its location.
SharedFirst == [Kind(<<"shared">>) EXCEPT !.files = <<P("b", FALSE)>>, !.links = <<"n">>]
PrjFirst == {SharedFirst, [Plain EXCEPT !.files = <<P("a", FALSE), P("b", FALSE)>>]}
PrjForms ==
  {When(Either(Debug, Release), Kind(<<"static">>)),
   When(Is(Debug), [Kind(<<"shared">>) EXCEPT !.links = <<"m", "n">>]),
   When(Is(<<"shared">>), Links(<<"n">>)),
   When(Not(<<"static">>), [Plain EXCEPT !.targetname = <<"linux">>]),
   Word(PS3, When(Is(PS3) \o Not(Debug),
                  [Plain EXCEPT !.excludes = <<P("b", FALSE), P("a", FALSE)>>])),
   Word(<<"a">>, When(Is(<<"a">>) \o Is(Release), Links(<<"m">>)))}
Single == {<< >>, <<When(Everything, Links(<<"m">>))>>} \cup {<<f>> : f \in PrjForms}
Pairs == {<<f, g>> : f, g \in PrjForms}

Script(s, p) ==
  [x \in Objs |-> IF x = 0 THEN <<SlnFirst>> \o s ELSE IF x = 1 THEN <<Plain>> ELSE p]

MCScripts ==
  {Script(s, <<f>> \o p) : s \in SlnMore, f \in PrjFirst, p \in Single} \cup
  {Script(s, <<f>> \o p) : s \in SlnMore, f \in {SharedFirst}, p \in Pairs}

\* The script of tests/base/test_config_bug.lua (config_bug_updated), project B.
BugConfigs == <<Debug, Release, DebugDLL, ReleaseDLL>>
NoPlatforms == << >>
BugScripts ==
  {[x \in Objs |->
      IF x = 0 THEN <<Plain>>
      ELSE <<[Plain EXCEPT !.files = <<P("b", FALSE)>>],
             When(Either(Debug, Release), Kind(<<"static">>)),
             When(Either(DebugDLL, ReleaseDLL), Kind(<<"shared">>)),
             When(Is(<<"shared">>), Links(<<"m">>))>>]}

MCConfigs == <<Debug, Release>>
MCPlatforms == <<<<"native">>, PS3>>
MCNative == <<"native">>
MCNoShared == {PS3}
MCStatic == <<"static">>
MCShared == <<"shared">>
MCEnv == <<"linux">>
MCItems == {"a", "b", "m", "n"}
=============================================================================
