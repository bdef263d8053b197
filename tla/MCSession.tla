----------------------------- MODULE MCSession -----------------------------
(***************************************************************************)
(* Session on a small instance: a representative field of each kind and    *)
(* scope, a word that is accepted but stored in another spelling and one   *)
(* that no enumerated field accepts.                                       *)
(***************************************************************************)
EXTENDS Session, TLC

CONSTANTS kind, flags, language, configurations, files, vpaths,
          spelled, canonical, refused

MCFields == {kind, flags, language, configurations, files, vpaths}

MCFieldKind ==
  kind :> "string" @@ flags :> "list" @@ language :> "string"
    @@ configurations :> "list" @@ files :> "filelist" @@ vpaths :> "keyvalue"

MCFieldScope ==
  kind :> "config" @@ flags :> "config" @@ language :> "container"
    @@ configurations :> "solution" @@ files :> "config" @@ vpaths :> "container"

MCWords == {spelled, canonical, refused}

Enumerated == spelled :> canonical @@ canonical :> canonical

Unchecked == [w \in MCWords |-> w]

MCCanonical ==
  kind :> Enumerated @@ flags :> Enumerated @@ language :> Enumerated
    @@ configurations :> Unchecked @@ files :> Unchecked @@ vpaths :> Unchecked

MCListArgs == {<<spelled>>, <<spelled, refused>>}

\* One wildcard that matches two files; the other list has a value that is
\* not a string.
MCExpand == <<spelled>> :> <<canonical, canonical>>

Symmetry == Permutations(Solutions) \cup Permutations(Names)
=============================================================================
