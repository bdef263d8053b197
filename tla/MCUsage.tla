------------------------------ MODULE MCUsage ------------------------------
(***************************************************************************)
(* Usage on graphs over four usage projects with chains, cycles, edges back*)
(* to the project itself, names without usage project, pure usages and     *)
(* libraries.                                                              *)
(***************************************************************************)
EXTENDS Usage

CONSTANTS a, b, c, d, lib

MCNames == {Self, a, b, c, d}
MCLibraries == {lib}

\* A function over the names that is empty but for the given projects.
Over(fa, fb, fc, fd, empty) ==
  [n \in MCNames |-> IF n = a THEN fa ELSE IF n = b THEN fb
                     ELSE IF n = c THEN fc ELSE IF n = d THEN fd ELSE empty]

MCGraphs ==
  {[usage |-> us, proj |-> pr, selfuses |-> {a, d}, selflinks |-> sl, static |-> st,
    uses |-> Over(ua, ub, {Self}, {}, {}),
    links |-> Over(la, lb, lc, <<d, lib>>, << >>)]
     : us \in {MCNames \ {d}, MCNames \ {Self}},
       sl \in {<< >>, <<lib, a>>},
       pr \in {{Self}, {Self, a}, {Self, b, c}},
       st \in {{}, {c}, {Self, b, c}},
       ua \in {{}, {b}, {b, c}},
       ub \in {{}, {a}, {Self}},
       la \in {<< >>, <<c>>, <<b, lib>>},
       lb \in {<< >>, <<c, lib>>, <<Self, a>>},
       lc \in {<< >>, <<b, a>>, <<lib, d>>}}
=============================================================================
