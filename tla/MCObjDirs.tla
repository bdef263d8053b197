----------------------------- MODULE MCObjDirs -----------------------------
(***************************************************************************)
(* ObjDirs for three projects, two of them of the same name in different   *)
(* solutions, each with its root configuration, a Native and an x32 one.   *)
(* Locations may coincide, and a user's objdir may run into the directory  *)
(* that is derived for another configuration.                              *)
(***************************************************************************)
EXTENDS ObjDirs

Projects == {<<1, "A">>, <<1, "B">>, <<2, "A">>}
Kinds == {"root", "native", "x32"}

MCEntries == Projects \X Kinds

MCRank == [e \in MCEntries |-> IF e[1] = <<1, "A">> THEN 1
                               ELSE IF e[1] = <<1, "B">> THEN 2 ELSE 3]

\* One project's settings: location, and the objdir of its Native
\* configuration, in project B also of the root; the others have the default.
Entry(prj, k, loc, od) ==
  [root |-> k = "root",
   base |-> <<loc>> \o (IF k = "native" \/ (k = "root" /\ prj[2] = "B") THEN od
                       ELSE <<"obj">>),
   plt  |-> IF k = "x32" THEN <<"x32">> ELSE << >>,
   name |-> IF k = "root" THEN << >> ELSE <<"Debug">>,
   prj  |-> <<prj[2]>>]

Locations == [Projects -> {"L", "M"}]
ObjDirOf == [Projects -> {<<"obj">>, <<"obj", "x32">>, <<"obj", "x32", "Debug">>}]

MCInputs ==
  {[e \in MCEntries |-> Entry(e[1], e[2], loc[e[1]], od[e[1]])]
     : loc \in Locations, od \in ObjDirOf}
=============================================================================
