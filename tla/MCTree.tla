------------------------------- MODULE MCTree -------------------------------
(***************************************************************************)
(* Projects of up to three files. C is a directory that can be reached     *)
(* from two levels above, en and fr are .lproj directories, a file may lie *)
(* beside one, on its own, or outside every directory of the project.      *)
(***************************************************************************)
EXTENDS Tree, TLC

CONSTANTS a, b, C, en, fr, english, french, up, slash

MCNames == {a, b, C, en, fr, english, french}
MCLproj == {en, fr}
MCLang == en :> english @@ fr :> french
MCRank == a :> 1 @@ b :> 2 @@ C :> 3 @@ en :> 4 @@ english :> 5 @@ french :> 6 @@ fr :> 7

Paths == {<<a>>, <<C, a>>, <<up, C, a>>, <<up, C, b>>, <<up, up, C, b>>,
          <<en, a>>, <<fr, a>>, <<en, b>>, <<fr, C, a>>, <<C, en, a>>, <<slash, C, a>>}
MCProjects == {<<p>> : p \in Paths} \cup {<<p, q>> : p, q \in Paths}
                \cup {<<p, q, r>> : p, q, r \in Paths}
=============================================================================
