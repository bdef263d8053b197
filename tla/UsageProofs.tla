---------------------------- MODULE UsageProofs ----------------------------
(***************************************************************************)
(* The search of getprojectsconnections implements Connections for every   *)
(* set of usage projects: what it returns is the least set closed under    *)
(* uses, and the least set closed under links through static libraries.    *)
(* The search marks a name as found before it expands it, so the invariant *)
(* has two halves: everything found is forced (it lies in every closed     *)
(* set), and everything found and no longer pending has been expanded.     *)
(*                                                                         *)
(* The copy then takes over linkage data entry by entry, in any order:     *)
(* CopyInv says what the entries visited so far have appended to the links *)
(* of the configuration.                                                   *)
(***************************************************************************)
EXTENDS Usage, ListProofs, SequenceTheorems, TLAPS

Eligible(S) == (S \cap g.usage) \ {Self}

\* The sets that the search has to stay within.
UsesForced == \A T \in SUBSET g.usage : C!UsesClosed(T) => dst \subseteq T

LinksForced == \A T \in SUBSET g.usage : C!LinksClosed(dst, T) => lnk \subseteq T

SearchInv ==
  /\ dst \subseteq g.usage /\ lnk \subseteq g.usage
  /\ Self \notin dst /\ Self \notin lnk
  /\ UsesForced
  /\ Eligible(g.selfuses) \subseteq dst
  /\ phase \in {"uses", "links", "copy", "done"}
  /\ phase = "uses" =>
       /\ found = {Self} \cup dst
       /\ lnk = {} /\ pending \subseteq dst
       /\ \A n \in dst \ pending : Eligible(g.uses[n]) \subseteq dst
  /\ phase # "uses" =>
       /\ \A n \in dst : Eligible(g.uses[n]) \subseteq dst
       /\ LinksForced
  /\ phase = "links" =>
       /\ found = {Self} \cup dst \cup lnk
       /\ pending \subseteq lnk /\ todo \subseteq dst
       /\ \A n \in dst \ todo : Eligible(Linked(n)) \ dst \subseteq lnk
       /\ \A n \in (lnk \cap g.static) \ pending : Eligible(Linked(n)) \ dst \subseteq lnk
  /\ phase \in {"copy", "done"} =>
       /\ \A n \in dst : Eligible(Linked(n)) \ dst \subseteq lnk
       /\ \A n \in lnk \cap g.static : Eligible(Linked(n)) \ dst \subseteq lnk

\* The abstract specification's vocabulary, in terms of the detailed one.
LEMMA SameNames ==
  /\ \A S : C!Eligible(S) = Eligible(S)
  /\ \A n : C!LinkedNames(n) = Linked(n)
BY DEF C!Eligible, Eligible, C!LinkedNames, Linked, RangeOf

\* Closed sets in terms of the detailed specification's operators.
LEMMA ClosedSets ==
  /\ \A S : C!UsesClosed(S) <=>
        /\ Eligible(g.selfuses) \subseteq S
        /\ \A n \in S : Eligible(g.uses[n]) \subseteq S
  /\ \A D, S : C!LinksClosed(D, S) <=>
        /\ \A n \in D : Eligible(Linked(n)) \ D \subseteq S
        /\ \A n \in S \cap g.static : Eligible(Linked(n)) \ D \subseteq S
BY SameNames DEF C!UsesClosed, C!LinksClosed

\* A new name of a field is one that the closure rules ask for.
LEMMA NewNamesEligible ==
  ASSUME NEW F, Self \in found
  PROVE  /\ NewNames(F) \subseteq Eligible(F)
         /\ Eligible(F) \subseteq NewNames(F) \cup found
BY DEF NewNames, Eligible

\* The initial call of getprojrec on the configuration's own uses.
LEMMA InitSearch == Init => SearchInv
<1> SUFFICES ASSUME Init PROVE SearchInv OBVIOUS
<1>1. dst = Eligible(g.selfuses) /\ found = {Self} \cup dst /\ pending = dst
  BY DEF Init, StartFound, Eligible
<1>2. phase = "uses" /\ lnk = {} BY DEF Init
<1>3. UsesForced BY <1>1, ClosedSets DEF UsesForced
<1>4. dst \subseteq g.usage /\ Self \notin dst BY <1>1 DEF Eligible
<1> QED BY <1>1, <1>2, <1>3, <1>4 DEF SearchInv

\* Expanding a project that uses found keeps what was found forced and
\* everything but the pending projects expanded.
LEMMA ExpandUsesKeeps ==
  ASSUME SearchInv, ExpandUses
  PROVE  SearchInv'
<1>1. /\ phase = "uses" /\ phase' = phase /\ g' = g /\ lnk' = lnk
  BY DEF ExpandUses
<1>2. PICK n \in pending :
        /\ found' = found \cup NewNames(g.uses[n])
        /\ dst' = dst \cup NewNames(g.uses[n])
        /\ pending' = (pending \ {n}) \cup NewNames(g.uses[n])
  BY DEF ExpandUses
<1> DEFINE new == NewNames(g.uses[n])
<1>3. found = {Self} \cup dst /\ lnk = {} /\ pending \subseteq dst BY <1>1 DEF SearchInv
<1>4. new \subseteq Eligible(g.uses[n]) /\ Eligible(g.uses[n]) \subseteq new \cup found
  BY <1>3, NewNamesEligible
<1>5. Self \notin new /\ new \subseteq g.usage BY <1>4 DEF Eligible
<1>6. Eligible(g.uses[n]) \subseteq dst'
  BY <1>2, <1>3, <1>4 DEF Eligible
<1>7. ASSUME NEW T \in SUBSET g.usage, C!UsesClosed(T) PROVE dst' \subseteq T
  <2>1. dst \subseteq T BY <1>7 DEF SearchInv, UsesForced
  <2>2. Eligible(g.uses[n]) \subseteq T BY <1>2, <1>3, <1>7, <2>1, ClosedSets
  <2> QED BY <1>2, <1>4, <2>1, <2>2
<1>8. UsesForced'
  <2>1. \A T : C!UsesClosed(T)' <=> C!UsesClosed(T)
    BY <1>1 DEF C!UsesClosed, C!Eligible
  <2> QED BY <1>1, <1>7, <2>1 DEF UsesForced
<1>9. \A m \in dst' \ pending' : Eligible(g.uses[m]) \subseteq dst'
  <2> SUFFICES ASSUME NEW m \in dst' \ pending'
               PROVE  Eligible(g.uses[m]) \subseteq dst'
    OBVIOUS
  <2>1. CASE m = n BY <1>6, <2>1
  <2>2. CASE m # n
    <3>1. m \in dst \ pending BY <1>2, <2>2
    <3> QED BY <1>1, <1>2, <3>1 DEF SearchInv
  <2> QED BY <2>1, <2>2
<1>10. \A S : Eligible(S)' = Eligible(S) BY <1>1 DEF Eligible
<1>11. /\ dst' \subseteq g'.usage /\ lnk' \subseteq g'.usage
       /\ Self \notin dst' /\ Self \notin lnk'
       /\ Eligible(g.selfuses)' \subseteq dst'
  BY <1>1, <1>2, <1>5, <1>10 DEF SearchInv, Eligible
<1>12. found' = {Self} \cup dst' /\ pending' \subseteq dst' BY <1>2, <1>3
<1>13. \A m \in dst' \ pending' : Eligible(g.uses[m])' \subseteq dst'
  BY <1>1, <1>9 DEF Eligible
<1> QED BY <1>1, <1>3, <1>8, <1>11, <1>12, <1>13 DEF SearchInv

\* Finding names through the links of one project: a root or a static library.
LEMMA LinkStepKeeps ==
  ASSUME SearchInv, phase = "links", phase' = phase, g' = g, dst' = dst,
         NEW n \in dst \cup (lnk \cap g.static),
         found' = found \cup NewNames(Linked(n)),
         lnk' = lnk \cup NewNames(Linked(n))
  PROVE  /\ lnk' \subseteq g'.usage /\ Self \notin lnk'
         /\ found' = {Self} \cup dst' \cup lnk'
         /\ Eligible(Linked(n)) \ dst \subseteq lnk'
         /\ LinksForced'
<1> DEFINE new == NewNames(Linked(n))
<1>1. found = {Self} \cup dst \cup lnk BY DEF SearchInv
<1>2. new \subseteq Eligible(Linked(n)) /\ Eligible(Linked(n)) \subseteq new \cup found
  BY <1>1, NewNamesEligible
<1>3. new \cap dst = {} BY <1>1 DEF NewNames
<1>4. Self \notin new /\ new \subseteq g.usage BY <1>2 DEF Eligible
<1>5. Eligible(Linked(n)) \ dst \subseteq lnk' BY <1>1, <1>2 DEF Eligible
<1>6. ASSUME NEW T \in SUBSET g.usage, C!LinksClosed(dst, T) PROVE lnk' \subseteq T
  <2>1. lnk \subseteq T BY <1>6 DEF SearchInv, LinksForced
  <2>2. Eligible(Linked(n)) \ dst \subseteq T BY <1>6, <2>1, ClosedSets
  <2> QED BY <1>2, <1>3, <2>1, <2>2
<1>7. LinksForced'
  <2>1. \A T : C!LinksClosed(dst, T)' <=> C!LinksClosed(dst, T)
    BY DEF C!LinksClosed, C!Eligible, C!LinkedNames
  <2> QED BY <1>6, <2>1 DEF LinksForced
<1> QED BY <1>1, <1>4, <1>5, <1>7 DEF SearchInv

\* The parts of the invariant that only mention the projects and dst.
LEMMA UsesFrame ==
  ASSUME SearchInv, phase # "uses", g' = g, dst' = dst
  PROVE  /\ dst' \subseteq g'.usage /\ Self \notin dst'
         /\ UsesForced'
         /\ Eligible(g.selfuses)' \subseteq dst'
         /\ \A m \in dst' : Eligible(g.uses[m])' \subseteq dst'
         /\ \A S : Eligible(S)' = Eligible(S)
         /\ \A m : Linked(m)' = Linked(m)
<1>1. \A T : C!UsesClosed(T)' <=> C!UsesClosed(T)
  BY DEF C!UsesClosed, C!Eligible
<1>2. UsesForced' BY <1>1 DEF SearchInv, UsesForced
<1>3. (\A S : Eligible(S)' = Eligible(S)) /\ (\A m : Linked(m)' = Linked(m))
  BY DEF Eligible, Linked, RangeOf
<1>4. Eligible(g.selfuses)' \subseteq dst' /\ \A m \in dst' : Eligible(g.uses[m])' \subseteq dst'
  BY <1>3 DEF SearchInv, Eligible
<1> QED BY <1>2, <1>3, <1>4 DEF SearchInv

\* Every step of the search and of the copy keeps the invariant.
LEMMA StepKeeps == SearchInv /\ [Next]_vars => SearchInv'
<1> SUFFICES ASSUME SearchInv, [Next]_vars PROVE SearchInv' OBVIOUS
<1>a. ASSUME UNCHANGED <<g, dst, lnk>> PROVE (LinksForced <=> LinksForced') /\ (UsesForced <=> UsesForced')
  BY <1>a DEF LinksForced, UsesForced, C!LinksClosed, C!UsesClosed, C!Eligible, C!LinkedNames
<1>1. CASE ExpandUses BY <1>1, ExpandUsesKeeps
<1>2. CASE UsesDone
  <2>1. /\ phase = "uses" /\ phase' = "links" /\ pending = {} /\ todo' = dst
        /\ g' = g /\ dst' = dst /\ lnk' = lnk /\ found' = found /\ pending' = pending
    BY <1>2 DEF UsesDone
  <2>2. lnk = {} /\ found = {Self} \cup dst BY <2>1 DEF SearchInv
  <2>3. \A m \in dst : Eligible(g.uses[m]) \subseteq dst BY <2>1 DEF SearchInv
  <2>4. LinksForced' BY <2>1, <2>2 DEF LinksForced
  <2>5. UsesForced' BY <1>a, <2>1 DEF SearchInv
  <2>6. \A S : Eligible(S)' = Eligible(S) BY <2>1 DEF Eligible
  <2>7. \A m \in dst' : Eligible(g.uses[m])' \subseteq dst' BY <2>1, <2>3 DEF Eligible
  <2>8. Eligible(g.selfuses)' \subseteq dst' BY <2>1 DEF SearchInv, Eligible
  <2> QED BY <2>1, <2>2, <2>4, <2>5, <2>7, <2>8 DEF SearchInv
<1>3. CASE LinkRoot
  <2>1. /\ phase = "links" /\ phase' = phase /\ pending = {} /\ g' = g /\ dst' = dst
    BY <1>3 DEF LinkRoot
  <2>2. PICK n \in todo :
          /\ found' = found \cup NewNames(Linked(n)) /\ lnk' = lnk \cup NewNames(Linked(n))
          /\ pending' = NewNames(Linked(n)) /\ todo' = todo \ {n}
    BY <1>3 DEF LinkRoot
  <2>3. n \in dst /\ todo \subseteq dst BY <2>1, <2>2 DEF SearchInv
  <2>4. /\ lnk' \subseteq g'.usage /\ Self \notin lnk' /\ found' = {Self} \cup dst' \cup lnk'
        /\ Eligible(Linked(n)) \ dst \subseteq lnk' /\ LinksForced'
    BY <2>1, <2>2, <2>3, LinkStepKeeps
  <2>5. /\ dst' \subseteq g'.usage /\ Self \notin dst' /\ UsesForced'
        /\ Eligible(g.selfuses)' \subseteq dst'
        /\ \A m \in dst' : Eligible(g.uses[m])' \subseteq dst'
        /\ \A S : Eligible(S)' = Eligible(S)
        /\ \A m : Linked(m)' = Linked(m)
    BY <2>1, UsesFrame
  <2>6. \A m \in dst' \ todo' : Eligible(Linked(m)) \ dst \subseteq lnk'
    BY <2>1, <2>2, <2>4 DEF SearchInv
  <2>7. \A m \in (lnk' \cap g.static) \ pending' : Eligible(Linked(m)) \ dst \subseteq lnk'
    BY <2>1, <2>2 DEF SearchInv
  <2>8. \A m : Eligible(Linked(m))' = Eligible(Linked(m))
    BY <2>1 DEF Eligible, Linked, RangeOf
  <2>9. pending' \subseteq lnk' /\ todo' \subseteq dst' BY <2>1, <2>2, <2>3
  <2> QED BY <2>1, <2>4, <2>5, <2>6, <2>7, <2>8, <2>9 DEF SearchInv
<1>4. CASE ExpandLinks
  <2>1. /\ phase = "links" /\ phase' = phase /\ g' = g /\ dst' = dst /\ todo' = todo
    BY <1>4 DEF ExpandLinks
  <2> DEFINE New(n) == IF Recurses(n) THEN NewNames(Linked(n)) ELSE {}
  <2>2. PICK n \in pending :
          /\ found' = found \cup New(n) /\ lnk' = lnk \cup New(n)
          /\ pending' = (pending \ {n}) \cup New(n)
    BY <1>4 DEF ExpandLinks
  <2>3. n \in lnk /\ pending \subseteq lnk /\ todo \subseteq dst BY <2>1, <2>2 DEF SearchInv
  <2>4. /\ lnk' \subseteq g'.usage /\ Self \notin lnk' /\ found' = {Self} \cup dst' \cup lnk'
        /\ n \in g.static => Eligible(Linked(n)) \ dst \subseteq lnk'
        /\ LinksForced'
    <3>1. CASE n \in g.static
      <4>1. found' = found \cup NewNames(Linked(n)) /\ lnk' = lnk \cup NewNames(Linked(n))
        BY <2>2, <3>1 DEF Recurses
      <4>2. n \in dst \cup (lnk \cap g.static) BY <2>3, <3>1
      <4> QED BY <2>1, <4>1, <4>2, LinkStepKeeps
    <3>2. CASE n \notin g.static
      <4>1. found' = found /\ lnk' = lnk BY <2>2, <3>2 DEF Recurses
      <4>2. LinksForced' BY <2>1, <4>1, <1>a DEF SearchInv
      <4> QED BY <2>1, <3>2, <4>1, <4>2 DEF SearchInv
    <3> QED BY <3>1, <3>2
  <2>5. /\ dst' \subseteq g'.usage /\ Self \notin dst' /\ UsesForced'
        /\ Eligible(g.selfuses)' \subseteq dst'
        /\ \A m \in dst' : Eligible(g.uses[m])' \subseteq dst'
    BY <2>1, UsesFrame
  <2>6. \A m \in dst' \ todo' : Eligible(Linked(m)) \ dst \subseteq lnk'
    BY <2>1, <2>2 DEF SearchInv
  <2>7. \A m \in (lnk' \cap g.static) \ pending' : Eligible(Linked(m)) \ dst \subseteq lnk'
    <3> SUFFICES ASSUME NEW m \in (lnk' \cap g.static) \ pending'
                 PROVE  Eligible(Linked(m)) \ dst \subseteq lnk'
      OBVIOUS
    <3>1. CASE m = n BY <2>4, <3>1
    <3>2. CASE m # n BY <2>1, <2>2, <3>2 DEF SearchInv
    <3> QED BY <3>1, <3>2
  <2>8. \A m : Eligible(Linked(m))' = Eligible(Linked(m))
    BY <2>1 DEF Eligible, Linked, RangeOf
  <2>9. pending' \subseteq lnk' /\ todo' \subseteq dst' BY <2>1, <2>2, <2>3
  <2> QED BY <2>1, <2>4, <2>5, <2>6, <2>7, <2>8, <2>9 DEF SearchInv
<1>5. CASE LinksDone
  <2>1. /\ phase = "links" /\ phase' = "copy" /\ pending = {} /\ todo = {}
        /\ g' = g /\ dst' = dst /\ lnk' = lnk
    BY <1>5 DEF LinksDone
  <2>2. /\ \A n \in dst : Eligible(Linked(n)) \ dst \subseteq lnk
        /\ \A n \in lnk \cap g.static : Eligible(Linked(n)) \ dst \subseteq lnk
    BY <2>1 DEF SearchInv
  <2>3. LinksForced' BY <1>a, <2>1 DEF SearchInv
  <2>4. /\ dst' \subseteq g'.usage /\ Self \notin dst' /\ UsesForced'
        /\ Eligible(g.selfuses)' \subseteq dst'
        /\ \A m \in dst' : Eligible(g.uses[m])' \subseteq dst'
    BY <2>1, UsesFrame
  <2>5. \A m : Eligible(Linked(m))' = Eligible(Linked(m))
    BY <2>1 DEF Eligible, Linked, RangeOf
  <2> QED BY <2>1, <2>2, <2>3, <2>4, <2>5 DEF SearchInv
<1>6. CASE CopyEntry \/ CopyDone
  <2>1. /\ phase = "copy" /\ phase' \in {"copy", "done"}
        /\ g' = g /\ dst' = dst /\ lnk' = lnk
    BY <1>6 DEF CopyEntry, CopyDone
  <2>2. LinksForced' BY <1>a, <2>1 DEF SearchInv
  <2>4. /\ dst' \subseteq g'.usage /\ Self \notin dst' /\ UsesForced'
        /\ Eligible(g.selfuses)' \subseteq dst'
        /\ \A m \in dst' : Eligible(g.uses[m])' \subseteq dst'
    BY <2>1, UsesFrame
  <2>5. \A m : Eligible(Linked(m))' = Eligible(Linked(m))
    BY <2>1 DEF Eligible, Linked, RangeOf
  <2> QED BY <2>1, <2>2, <2>4, <2>5 DEF SearchInv
<1>7. CASE UNCHANGED vars
  <2>1. /\ g' = g /\ dst' = dst /\ lnk' = lnk /\ phase' = phase /\ found' = found
        /\ pending' = pending /\ todo' = todo
    BY <1>7 DEF vars
  <2>2. (LinksForced <=> LinksForced') /\ (UsesForced <=> UsesForced') BY <1>a, <2>1
  <2>3. \A m : Eligible(Linked(m))' = Eligible(Linked(m))
    BY <2>1 DEF Eligible, Linked, RangeOf
  <2>4. \A m : Eligible(g.uses[m])' = Eligible(g.uses[m])
    BY <2>1 DEF Eligible
  <2>5. Eligible(g.selfuses)' = Eligible(g.selfuses) BY <2>1 DEF Eligible
  <2> QED BY <2>1, <2>2, <2>3, <2>4, <2>5 DEF SearchInv
<1> QED BY <1>1, <1>2, <1>3, <1>4, <1>5, <1>6, <1>7 DEF Next

\* When the search is over it has found the connections, neither more nor less.
LEMMA SearchExact ==
  ASSUME SearchInv, phase = "links", pending = {}, todo = {}
  PROVE  C!LeastUses(dst) /\ C!LeastLinks(dst, lnk)
<1>1. C!UsesClosed(dst) BY ClosedSets DEF SearchInv
<1>2. C!LinksClosed(dst, lnk) BY ClosedSets DEF SearchInv
<1>3. UsesForced /\ LinksForced BY DEF SearchInv
<1> QED BY <1>1, <1>2, <1>3 DEF C!LeastUses, C!LeastLinks, UsesForced, LinksForced

\* The invariant of the search holds in every reachable state: a configuration
\* is never connected to itself, and is connected to usage projects only.
THEOREM SearchInvariant == Spec => []SearchInv
BY InitSearch, StepKeeps, PTL DEF Spec

\* getprojectsconnections implements Connections: every step of the search is
\* a stutter of the abstract specification but the one that completes it,
\* which delivers the least closed sets.
THEOREM SearchImplementsConnections == Spec => C!Safety
<1>1. Init => conn = None BY DEF Init, conn
<1>2. SearchInv /\ [Next]_vars => [C!Connect]_<<g, conn>>
  <2> SUFFICES ASSUME SearchInv, [Next]_vars
               PROVE  [C!Connect]_<<g, conn>>
    OBVIOUS
  <2>1. CASE LinksDone
    <3>1. /\ phase = "links" /\ phase' = "copy" /\ g' = g /\ dst' = dst /\ lnk' = lnk
      BY <2>1 DEF LinksDone
    <3>2. conn = None /\ conn' = [compile |-> dst, link |-> lnk] BY <3>1 DEF conn
    <3>3. pending = {} /\ todo = {} BY <2>1 DEF LinksDone
    <3>4. C!LeastUses(dst) /\ C!LeastLinks(dst, lnk) BY <3>1, <3>3, SearchExact
    <3>5. dst \in SUBSET g.usage /\ lnk \in SUBSET g.usage BY DEF SearchInv
    <3> QED BY <3>1, <3>2, <3>4, <3>5 DEF C!Connect
  <2>2. CASE ExpandUses \/ UsesDone \/ LinkRoot \/ ExpandLinks
    BY <2>2 DEF ExpandUses, UsesDone, LinkRoot, ExpandLinks, conn
  <2>3. CASE CopyEntry \/ CopyDone
    BY <2>3 DEF CopyEntry, CopyDone, conn
  <2>4. CASE UNCHANGED vars BY <2>4 DEF vars, conn
  <2> QED BY <2>1, <2>2, <2>3, <2>4 DEF Next
<1> QED BY <1>1, <1>2, SearchInvariant, PTL DEF Spec, C!Safety

-----------------------------------------------------------------------------
(* The copy *)

Linkable == Names \cup Libraries

\* The entries that copyusagedata has copied.
Visited == IF phase \in {"copy", "done"} THEN (dst \cup lnk) \ todo ELSE {}

Once(s, x) == \E n \in 1 .. Len(s) : Places(s, x) = {n}

\* What the entries visited so far appended: a project once if it was visited,
\* a library if a visited pure usage project links it.
Copied(s) ==
  IF bIsStaticLib THEN s = << >>
  ELSE \A x \in Linkable :
         IF isnameofproj(x)
           THEN IF x \in Visited \cap g.proj THEN Once(s, x) ELSE Places(s, x) = {}
           ELSE (x \in RangeOf(s)) <=> \E n \in Visited \ g.proj : x \in Linked(n)

\* The links of the configuration after the entries visited so far.
LinksSoFar == \E s \in Seq(Linkable) : cfg.links = g.selflinks \o s /\ Copied(s)

\* The flags of the configuration after the entries visited so far.
FlagsSoFar == RangeOf(cfg.flags) = {OwnFlag} \cup {n \in Visited : CopiesUsage(n)}

CopyInv ==
  /\ g \in Graphs
  /\ cfg \in [flags : Seq(Names \cup {OwnFlag}), links : Seq(Linkable)]
  /\ phase \in {"uses", "links"} => cfg.links = g.selflinks
  /\ phase = "copy" => todo \subseteq dst \cup lnk
  /\ phase = "done" => todo = {}
  /\ LinksSoFar
  /\ FlagsSoFar

\* The parts of a graph.
LEMMA GraphFacts ==
  ASSUME g \in Graphs
  PROVE  /\ g.usage \subseteq Names
         /\ \A n \in Names : g.links[n] \in Seq(Linkable)
         /\ \A n \in Names : Linked(n) \subseteq Linkable
         /\ g.selflinks \in Seq(Linkable)
<1>1. g \in Graph BY GraphAssumption
<1>2. g.usage \subseteq Names /\ g.links \in [Names -> Seq(Linkable)] BY <1>1 DEF Graph, Linkable
<1>3. \A n \in Names : g.links[n] \in Seq(Linkable) BY <1>2
<1>4. \A n \in Names : Linked(n) \subseteq Linkable BY <1>3 DEF Linked, RangeOf
<1>5. g.selflinks \in Seq(Linkable) BY <1>1 DEF Graph, Linkable
<1> QED BY <1>2, <1>3, <1>4, <1>5

\* A list has no place for what it does not contain.
LEMMA NoPlaces == \A s, x : Places(s, x) = {} <=> x \notin RangeOf(s)
BY DEF Places, RangeOf

\* Before the copy the configuration has its own links and no other.
LEMMA NothingLinked ==
  ASSUME g \in Graphs, cfg.links = g.selflinks, Visited = {}
  PROVE  LinksSoFar
<1>1. \A x : Places(<< >>, x) = {} /\ x \notin RangeOf(<< >>) BY DEF Places, RangeOf
<1>2. Copied(<< >>) BY <1>1 DEF Copied
<1>3. g.selflinks \in Seq(Linkable) BY GraphFacts
<1>4. cfg.links = g.selflinks \o << >> BY <1>3, ConcatEmptySeq
<1>5. << >> \in Seq(Linkable) OBVIOUS
<1> QED BY <1>2, <1>4, <1>5 DEF LinksSoFar

\* The initial state of the configuration.
LEMMA InitCopy == Init => CopyInv
<1> SUFFICES ASSUME Init PROVE CopyInv OBVIOUS
<1>1. /\ g \in Graphs /\ phase = "uses"
      /\ cfg = [flags |-> <<OwnFlag>>, links |-> g.selflinks]
  BY DEF Init
<1>2. Visited = {} BY <1>1 DEF Visited
<1>3. LinksSoFar BY <1>1, <1>2, NothingLinked
<1>4. cfg \in [flags : Seq(Names \cup {OwnFlag}), links : Seq(Linkable)]
  BY <1>1, GraphFacts
<1>5. FlagsSoFar BY <1>1, <1>2 DEF FlagsSoFar, RangeOf
<1> QED BY <1>1, <1>3, <1>4, <1>5 DEF CopyInv

\* What the flags say depends on the flags and the visited entries.
LEMMA FlagsFrame ==
  ASSUME FlagsSoFar, cfg'.flags = cfg.flags, Visited' = Visited, Visited = {} \/ lnk' = lnk
  PROVE  FlagsSoFar'
<1>1. {n \in Visited' : CopiesUsage(n)'} = {n \in Visited : CopiesUsage(n)} BY DEF CopiesUsage
<1> QED BY <1>1 DEF FlagsSoFar, RangeOf

\* What the links say depends on the graph, the links and the visited entries.
LEMMA LinksFrame ==
  ASSUME LinksSoFar, g' = g, cfg'.links = cfg.links, Visited' = Visited
  PROVE  LinksSoFar'
<1>1. \A s : Copied(s)' <=> Copied(s)
  BY DEF Copied, Linked, bIsStaticLib, isnameofproj
<1> QED BY <1>1 DEF LinksSoFar

\* Appending the name of a project that was not linked yet links it once, and
\* every other name as before.
LEMMA AppendPlaces ==
  ASSUME NEW S, NEW s \in Seq(S), NEW n \in S
  PROVE  /\ Places(s, n) = {} =>
              Len(s) + 1 \in 1 .. Len(s \o <<n>>) /\ Places(s \o <<n>>, n) = {Len(s) + 1}
         /\ \A x : x # n => Places(s \o <<n>>, x) = Places(s, x)
<1>1. /\ Len(s \o <<n>>) = Len(s) + 1 /\ Len(s) \in Nat
      /\ (s \o <<n>>)[Len(s) + 1] = n
      /\ \A k \in 1 .. Len(s) : (s \o <<n>>)[k] = s[k]
  OBVIOUS
<1> QED BY <1>1 DEF Places

\* Appending a list without project names links every project as before.
LEMMA ConcatPlaces ==
  ASSUME NEW S, NEW s \in Seq(S), NEW t \in Seq(S), NEW x, x \notin RangeOf(t)
  PROVE  Places(s \o t, x) = Places(s, x)
<1>1. /\ Len(s \o t) = Len(s) + Len(t) /\ Len(s) \in Nat /\ Len(t) \in Nat
      /\ \A k \in 1 .. Len(s) : (s \o t)[k] = s[k]
  OBVIOUS
<1>2. ASSUME NEW k \in 1 .. Len(s \o t), k > Len(s) PROVE (s \o t)[k] # x
  <2>1. k - Len(s) \in 1 .. Len(t) /\ (s \o t)[k] = t[k - Len(s)] BY <1>1, <1>2
  <2> QED BY <2>1 DEF RangeOf
<1> QED BY <1>1, <1>2 DEF Places

\* The two parts of a concatenation.
LEMMA SubSeqConcat ==
  ASSUME NEW S, NEW s \in Seq(S), NEW t \in Seq(S)
  PROVE  /\ SubSeq(s \o t, 1, Len(s)) = s
         /\ SubSeq(s \o t, Len(s) + 1, Len(s \o t)) = t
<1>1. s \o t \in Seq(S) /\ Len(s \o t) = Len(s) + Len(t) BY ConcatProperties
<1>2. \A k \in 1 .. Len(s) : (s \o t)[k] = s[k] BY ConcatProperties
<1>3. \A k \in 1 .. Len(t) : (s \o t)[Len(s) + k] = t[k] BY ConcatProperties
<1>4. Len(s) \in Nat /\ Len(t) \in Nat OBVIOUS
<1>5. SubSeq(s \o t, 1, Len(s)) = s
  <2>1. SubSeq(s \o t, 1, Len(s)) = [k \in 1 .. Len(s) |-> (s \o t)[k]]
    BY <1>1, <1>4
  <2> QED BY <1>2, <2>1
<1>6. SubSeq(s \o t, Len(s) + 1, Len(s \o t)) = t
  <2>1. SubSeq(s \o t, Len(s) + 1, Len(s \o t)) = [k \in 1 .. Len(t) |-> (s \o t)[Len(s) + k]]
    BY <1>1, <1>4
  <2> QED BY <1>3, <2>1
<1> QED BY <1>5, <1>6

\* What one entry appends, told from what was appended before it.
LEMMA CopiedStep ==
  ASSUME g \in Graphs, g' = g,
         NEW n \in Names, Visited' = Visited \cup {n}, n \notin Visited,
         NEW s \in Seq(Linkable), Copied(s),
         NEW t \in Seq(Linkable),
         LinksProject(n) => t = s \o <<n>>,
         ~LinksProject(n) /\ CopiesLinkage(n) => t = s \o CopiedLinks(n),
         ~LinksProject(n) /\ ~CopiesLinkage(n) => t = s
  PROVE  Copied(t)'
<1> DEFINE Copyable == {x \in Linkable : ~isnameofproj(x)}
<1>1. n \in Linkable /\ g.links[n] \in Seq(Linkable) BY GraphFacts DEF Linkable
<1>2. /\ CopiedLinks(n) \in Seq(Linkable)
      /\ RangeOf(CopiedLinks(n)) = Linked(n) \cap Copyable
  <2>1. CopiedLinks(n) = Filter(g.links[n], Copyable) BY DEF CopiedLinks, Linkable
  <2> HIDE DEF Copyable
  <2> QED BY <1>1, <2>1, FilterRange DEF Linked
<1>3. /\ \A x : isnameofproj(x)' = isnameofproj(x)
      /\ bIsStaticLib' = bIsStaticLib
      /\ \A x : Linked(x)' = Linked(x)
  BY DEF isnameofproj, bIsStaticLib, Linked, RangeOf
<1>4. CASE bIsStaticLib
  <2>1. t = s BY <1>4 DEF CopiesLinkage, LinksProject
  <2> QED BY <1>3, <1>4, <2>1 DEF Copied
<1>5. CASE ~bIsStaticLib /\ n \in g.proj
  <2>1. t = s \o <<n>> BY <1>5 DEF LinksProject
  <2>2. isnameofproj(n) BY <1>5 DEF isnameofproj
  <2>3. Places(s, n) = {} BY <1>1, <1>5, <2>2 DEF Copied
  <2>4. /\ Len(s) + 1 \in 1 .. Len(t) /\ Places(t, n) = {Len(s) + 1}
        /\ \A x : x # n => Places(t, x) = Places(s, x)
    <3>1. /\ Len(s) + 1 \in 1 .. Len(s \o <<n>>) /\ Places(s \o <<n>>, n) = {Len(s) + 1}
          /\ \A x : x # n => Places(s \o <<n>>, x) = Places(s, x)
      BY <1>1, <2>3, AppendPlaces
    <3> QED BY <2>1, <3>1
  <2>5. ASSUME NEW x \in Linkable, isnameofproj(x)
        PROVE  IF x \in Visited' \cap g'.proj THEN Once(t, x) ELSE Places(t, x) = {}
    <3>1. CASE x = n BY <1>5, <2>4, <3>1 DEF Once
    <3>2. CASE x # n
      <4>1. Places(t, x) = Places(s, x) BY <2>4, <3>2
      <4>2. CASE x \in Visited \cap g.proj
        <5>1. PICK k \in 1 .. Len(s) : Places(s, x) = {k} BY <1>5, <2>5, <4>2 DEF Copied, Once
        <5>2. k \in 1 .. Len(t) BY <4>1, <5>1 DEF Places
        <5> QED BY <4>1, <4>2, <5>1, <5>2 DEF Once
      <4>3. CASE x \notin Visited \cap g.proj
        <5>1. Places(s, x) = {} BY <1>5, <2>5, <4>3 DEF Copied
        <5> QED BY <3>2, <4>1, <4>3, <5>1
      <4> QED BY <4>2, <4>3
    <3> QED BY <3>1, <3>2
  <2>6. ASSUME NEW x \in Linkable, ~isnameofproj(x)
        PROVE  (x \in RangeOf(t)) <=> \E m \in Visited' \ g'.proj : x \in Linked(m)
    <3>1. x # n BY <2>2, <2>6
    <3>2. x \in RangeOf(t) <=> x \in RangeOf(s) BY <2>4, <3>1, NoPlaces
    <3>3. Visited' \ g'.proj = Visited \ g.proj BY <1>5
    <3> QED BY <1>5, <2>6, <3>2, <3>3 DEF Copied
  <2> QED BY <1>3, <1>5, <2>5, <2>6 DEF Copied, Once
<1>6. CASE ~bIsStaticLib /\ n \notin g.proj
  <2>1. t = s \o CopiedLinks(n) BY <1>6 DEF CopiesLinkage, LinksProject
  <2>2. ASSUME NEW x \in Linkable, isnameofproj(x)
        PROVE  IF x \in Visited' \cap g'.proj THEN Once(t, x) ELSE Places(t, x) = {}
    <3>1. x \notin RangeOf(CopiedLinks(n)) BY <1>2, <2>2
    <3>2. Places(t, x) = Places(s, x) BY <1>2, <2>1, <3>1, ConcatPlaces
    <3>3. Visited' \cap g'.proj = Visited \cap g.proj BY <1>6
    <3>4. CASE x \in Visited \cap g.proj
      <4>1. PICK k \in 1 .. Len(s) : Places(s, x) = {k} BY <1>6, <2>2, <3>4 DEF Copied, Once
      <4>2. k \in 1 .. Len(t) BY <3>2, <4>1 DEF Places
      <4> QED BY <3>2, <3>3, <3>4, <4>1, <4>2 DEF Once
    <3>5. CASE x \notin Visited \cap g.proj
      <4>1. Places(s, x) = {} BY <1>6, <2>2, <3>5 DEF Copied
      <4> QED BY <3>2, <3>3, <3>5, <4>1
    <3> QED BY <3>4, <3>5
  <2>3. ASSUME NEW x \in Linkable, ~isnameofproj(x)
        PROVE  (x \in RangeOf(t)) <=> \E m \in Visited' \ g'.proj : x \in Linked(m)
    <3>a. RangeOf(s \o CopiedLinks(n)) = RangeOf(s) \cup RangeOf(CopiedLinks(n))
      BY <1>2, ConcatRange
    <3>1. RangeOf(t) = RangeOf(s) \cup RangeOf(CopiedLinks(n)) BY <2>1, <3>a
    <3>2. x \in RangeOf(CopiedLinks(n)) <=> x \in Linked(n) BY <1>2, <2>3
    <3>3. Visited' \ g'.proj = (Visited \ g.proj) \cup {n} BY <1>6
    <3>4. x \in RangeOf(s) <=> \E m \in Visited \ g.proj : x \in Linked(m)
      BY <1>6, <2>3 DEF Copied
    <3> QED BY <3>1, <3>2, <3>3, <3>4
  <2> QED BY <1>3, <1>6, <2>2, <2>3 DEF Copied, Once
<1> QED BY <1>4, <1>5, <1>6

\* Lists of links may be appended in any grouping.
LEMMA LinksAssociative ==
  \A s, t, u \in Seq(Linkable) : (s \o t) \o u = s \o (t \o u)
<1> SUFFICES ASSUME NEW s \in Seq(Linkable), NEW t \in Seq(Linkable),
                    NEW u \in Seq(Linkable)
             PROVE  (s \o t) \o u = s \o (t \o u)
  OBVIOUS
<1> QED BY ConcatAssociative

\* copyusagedata for one entry.
LEMMA CopyEntryKeeps ==
  ASSUME SearchInv, CopyInv, CopyEntry
  PROVE  CopyInv'
<1>1. /\ phase = "copy" /\ phase' = phase /\ g' = g /\ dst' = dst /\ lnk' = lnk
  BY DEF CopyEntry
<1>2. PICK n \in todo :
        /\ todo' = todo \ {n}
        /\ cfg' = [cfg EXCEPT
             !.flags = IF CopiesUsage(n) THEN Append(@, n) ELSE @,
             !.links = (IF CopiesLinkage(n) THEN @ \o CopiedLinks(n) ELSE @)
                         \o (IF LinksProject(n) THEN <<n>> ELSE << >>)]
  BY DEF CopyEntry
<1>3. /\ g \in Graphs /\ todo \subseteq dst \cup lnk
      /\ cfg \in [flags : Seq(Names \cup {OwnFlag}), links : Seq(Linkable)]
      /\ g.selflinks \in Seq(Linkable)
  BY <1>1, GraphFacts DEF CopyInv
<1>4. PICK s \in Seq(Linkable) : cfg.links = g.selflinks \o s /\ Copied(s)
  BY DEF CopyInv, LinksSoFar
<1>5. n \in g.usage /\ n \in Names /\ <<n>> \in Seq(Linkable)
  BY <1>2, <1>3, GraphFacts DEF SearchInv, Linkable
<1>6. Visited' = Visited \cup {n} /\ n \notin Visited
  BY <1>1, <1>2, <1>3 DEF Visited
<1>7. CopiedLinks(n) \in Seq(Linkable)
  <2>1. g.links[n] \in Seq(Linkable) BY <1>3, <1>5, GraphFacts
  <2>2. CopiedLinks(n) = Filter(g.links[n], {x \in Linkable : ~isnameofproj(x)})
    BY DEF CopiedLinks, Linkable
  <2> QED BY <2>1, <2>2, FilterRange
<1>8. ~(CopiesLinkage(n) /\ LinksProject(n)) BY DEF CopiesLinkage, LinksProject
<1>9. PICK t \in Seq(Linkable) :
        /\ t = IF LinksProject(n) THEN s \o <<n>>
               ELSE IF CopiesLinkage(n) THEN s \o CopiedLinks(n) ELSE s
        /\ cfg'.links = g.selflinks \o t
  <2>1. cfg'.links = (IF CopiesLinkage(n) THEN cfg.links \o CopiedLinks(n) ELSE cfg.links)
                        \o (IF LinksProject(n) THEN <<n>> ELSE << >>)
    BY <1>2, <1>3
  <2>2. CASE LinksProject(n)
    <3>1. cfg'.links = (g.selflinks \o s) \o <<n>> BY <1>4, <1>8, <2>1, <2>2
    <3>2. s \o <<n>> \in Seq(Linkable) BY <1>4, <1>5, ConcatProperties, Zenon
    <3>3. (g.selflinks \o s) \o <<n>> = g.selflinks \o (s \o <<n>>)
      BY <1>3, <1>4, <1>5, LinksAssociative
    <3> QED BY <2>2, <3>1, <3>2, <3>3
  <2>3. CASE ~LinksProject(n) /\ CopiesLinkage(n)
    <3>1. cfg'.links = ((g.selflinks \o s) \o CopiedLinks(n)) \o << >> BY <1>4, <2>1, <2>3
    <3>2. s \o CopiedLinks(n) \in Seq(Linkable) BY <1>4, <1>7, ConcatProperties, Zenon
    <3>3. (g.selflinks \o s) \o CopiedLinks(n) = g.selflinks \o (s \o CopiedLinks(n))
      BY <1>3, <1>4, <1>7, LinksAssociative
    <3>4. g.selflinks \o (s \o CopiedLinks(n)) \in Seq(Linkable)
      BY <1>3, <3>2, ConcatProperties, Zenon
    <3>5. cfg'.links = (g.selflinks \o s) \o CopiedLinks(n)
      BY <3>1, <3>3, <3>4, ConcatEmptySeq, Zenon
    <3> QED BY <2>3, <3>2, <3>3, <3>5
  <2>4. CASE ~LinksProject(n) /\ ~CopiesLinkage(n)
    <3>1. cfg'.links = cfg.links \o << >> BY <2>1, <2>4
    <3>2. cfg'.links = cfg.links BY <1>3, <3>1, ConcatEmptySeq
    <3> QED BY <1>4, <2>4, <3>2
  <2> QED BY <2>2, <2>3, <2>4
<1>10. Copied(t)' BY <1>1, <1>3, <1>4, <1>5, <1>6, <1>9, CopiedStep
<1>11. LinksSoFar' BY <1>1, <1>9, <1>10 DEF LinksSoFar
<1>12. cfg' \in [flags : Seq(Names \cup {OwnFlag}), links : Seq(Linkable)]
  <2>1. cfg'.links \in Seq(Linkable) BY <1>3, <1>9, ConcatProperties
  <2>2. cfg'.flags \in Seq(Names \cup {OwnFlag})
    <3>1. cfg.flags \in Seq(Names \cup {OwnFlag}) BY <1>3
    <3>2. cfg'.flags = IF CopiesUsage(n) THEN Append(cfg.flags, n) ELSE cfg.flags BY <1>2, <1>3
    <3>3. Append(cfg.flags, n) \in Seq(Names \cup {OwnFlag}) BY <1>5, <3>1
    <3> QED BY <3>1, <3>2, <3>3
  <2>3. DOMAIN cfg' = {"flags", "links"}
        /\ cfg' = [cfg EXCEPT !.flags = cfg'.flags, !.links = cfg'.links]
    BY <1>2, <1>3
  <2> QED BY <1>3, <2>1, <2>2, <2>3
<1>13. todo' \subseteq dst' \cup lnk' BY <1>1, <1>2, <1>3
<1>14. FlagsSoFar'
  <2>1. cfg'.flags = IF CopiesUsage(n) THEN Append(cfg.flags, n) ELSE cfg.flags BY <1>2, <1>3
  <2>2. RangeOf(Append(cfg.flags, n)) = RangeOf(cfg.flags) \cup {n}
    <3>1. cfg.flags \in Seq(Names \cup {OwnFlag}) BY <1>3
    <3>2. /\ Len(Append(cfg.flags, n)) = Len(cfg.flags) + 1 /\ Len(cfg.flags) \in Nat
          /\ Append(cfg.flags, n)[Len(cfg.flags) + 1] = n
          /\ \A k \in 1 .. Len(cfg.flags) : Append(cfg.flags, n)[k] = cfg.flags[k]
      BY <1>5, <3>1
    <3> QED BY <3>2 DEF RangeOf
  <2>3. RangeOf(cfg.flags) = {OwnFlag} \cup {x \in Visited : CopiesUsage(x)} BY DEF CopyInv, FlagsSoFar
  <2>4. \A x : CopiesUsage(x)' <=> CopiesUsage(x) BY <1>1 DEF CopiesUsage
  <2>5. RangeOf(cfg.flags)' = RangeOf(cfg'.flags) BY DEF RangeOf
  <2>6. RangeOf(cfg'.flags) = {OwnFlag} \cup {x \in Visited' : CopiesUsage(x)}
    BY <1>6, <2>1, <2>2, <2>3
  <2> QED BY <2>4, <2>5, <2>6 DEF FlagsSoFar
<1> QED BY <1>1, <1>3, <1>11, <1>12, <1>13, <1>14 DEF CopyInv

\* Every step keeps the invariant of the copy.
LEMMA CopyKeeps == SearchInv /\ CopyInv /\ [Next]_vars => CopyInv'
<1> SUFFICES ASSUME SearchInv, CopyInv, [Next]_vars PROVE CopyInv' OBVIOUS
<1>1. ASSUME phase \in {"uses", "links"}, phase' \in {"uses", "links"},
             g' = g, cfg' = cfg
      PROVE  CopyInv'
  <2>1. Visited = {} /\ Visited' = {} BY <1>1 DEF Visited
  <2>2. LinksSoFar' /\ FlagsSoFar' BY <1>1, <2>1, LinksFrame, FlagsFrame DEF CopyInv
  <2> QED BY <1>1, <2>2 DEF CopyInv
<1>2. CASE ExpandUses \/ UsesDone \/ LinkRoot \/ ExpandLinks
  BY <1>1, <1>2 DEF ExpandUses, UsesDone, LinkRoot, ExpandLinks
<1>3. CASE LinksDone
  <2>1. /\ phase = "links" /\ phase' = "copy" /\ todo' = dst \cup lnk
        /\ g' = g /\ dst' = dst /\ lnk' = lnk /\ cfg' = cfg
    BY <1>3 DEF LinksDone
  <2>2. Visited = {} /\ Visited' = {} BY <2>1 DEF Visited
  <2>3. LinksSoFar' /\ FlagsSoFar' BY <2>1, <2>2, LinksFrame, FlagsFrame DEF CopyInv
  <2> QED BY <2>1, <2>3 DEF CopyInv
<1>4. CASE CopyEntry BY <1>4, CopyEntryKeeps
<1>5. CASE CopyDone
  <2>1. /\ phase = "copy" /\ phase' = "done" /\ todo = {} /\ todo' = {}
        /\ g' = g /\ dst' = dst /\ lnk' = lnk /\ cfg' = cfg
    BY <1>5 DEF CopyDone
  <2>2. Visited' = Visited BY <2>1 DEF Visited
  <2>3. LinksSoFar' /\ FlagsSoFar' BY <2>1, <2>2, LinksFrame, FlagsFrame DEF CopyInv
  <2> QED BY <2>1, <2>3 DEF CopyInv
<1>6. CASE UNCHANGED vars
  <2>1. /\ g' = g /\ phase' = phase /\ todo' = todo /\ dst' = dst /\ lnk' = lnk /\ cfg' = cfg
    BY <1>6 DEF vars
  <2>2. Visited' = Visited BY <2>1 DEF Visited
  <2>3. LinksSoFar' /\ FlagsSoFar' BY <2>1, <2>2, LinksFrame, FlagsFrame DEF CopyInv
  <2> QED BY <2>1, <2>3 DEF CopyInv
<1> QED BY <1>2, <1>3, <1>4, <1>5, <1>6 DEF Next

\* The links of the configuration at every moment of the copy, for every graph
\* of usage projects and every order of pairs().
THEOREM CopyInvariant == Spec => [](SearchInv /\ CopyInv)
BY InitSearch, StepKeeps, InitCopy, CopyKeeps, PTL DEF Spec

\* The links of a finished configuration: its own links as the script gave
\* them, then, unless it is a static library, each connected project of the
\* solution once more and the libraries of exactly the usage projects that
\* have no project.
THEOREM LinkageExact == Spec => []LinkageCopied
<1>1. SearchInv /\ CopyInv => LinkageCopied
  <2> SUFFICES ASSUME SearchInv, CopyInv, phase = "done" PROVE LinkageCopied
    BY DEF LinkageCopied
  <2>1. Visited = dst \cup lnk BY DEF Visited, CopyInv
  <2>2. PICK s \in Seq(Linkable) : cfg.links = g.selflinks \o s /\ Copied(s)
    BY DEF CopyInv, LinksSoFar
  <2>3. g.selflinks \in Seq(Linkable) BY GraphFacts DEF CopyInv
  <2>4. RangeOf(cfg.flags) = {OwnFlag} \cup {n \in dst : CopiesUsage(n)}
    BY <2>1 DEF CopyInv, FlagsSoFar, CopiesUsage
  <2>5. Added = s /\ SubSeq(cfg.links, 1, Len(g.selflinks)) = g.selflinks
    BY <2>2, <2>3, SubSeqConcat DEF Added
  <2>6. IF bIsStaticLib THEN Added = << >>
        ELSE \A x \in Names \cup Libraries :
               IF isnameofproj(x)
                 THEN IF x \in (dst \cup lnk) \cap g.proj
                        THEN \E n \in 1 .. Len(Added) : Places(Added, x) = {n}
                        ELSE Places(Added, x) = {}
                 ELSE (x \in RangeOf(Added)) <=>
                      \E n \in (dst \cup lnk) \ g.proj : x \in RangeOf(g.links[n])
    BY <2>1, <2>2, <2>5 DEF Copied, Once, Linkable, Linked
  <2> QED BY <2>4, <2>5, <2>6 DEF LinkageCopied
<1> QED BY <1>1, CopyInvariant, PTL
=============================================================================
