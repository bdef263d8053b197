--------------------------- MODULE ObjDirsProofs ---------------------------
(***************************************************************************)
(* Proofs about ObjDirs, for any set of configurations, finite or not, and *)
(* any settings. The invariant CountInv says what the counters mean before *)
(* all configurations are counted: a lower bound for directories that occur*)
(* among the counted candidates, and the exact value for those that only   *)
(* one candidate of the whole session has.                                 *)
(***************************************************************************)
EXTENDS ObjDirs, TLAPS

Counted(e) == phase # "count" \/ e \notin left

\* A counted candidate has been counted.
AtLeastOnce ==
  \A e \in Entries : \A v \in Start(e) .. 4 :
    Counted(e) => hits[Dirs(e)[v]] >= 1

\* A directory that two counted candidates have was counted twice.
AtLeastTwice ==
  \A e, f \in Entries : \A v \in Start(e) .. 4 : \A w \in Start(f) .. 4 :
    (Counted(e) /\ Counted(f) /\ Dirs(e)[v] = Dirs(f)[w] /\ (e # f \/ v # w))
      => hits[Dirs(e)[v]] >= 2

\* A directory that only one candidate has is counted with its configuration.
SoleOnce ==
  \A e \in Entries : \A v \in Start(e) .. 4 :
    Sole(e, v) => hits[Dirs(e)[v]] = IF Counted(e) THEN 1 ELSE 0

\* An assigned directory is the one at which the loop stops.
AssignedTakes ==
  \A e \in Entries : Assigned(e) =>
    \E v \in 1 .. 4 : Takes(e, v) /\ objdir[e] = Dirs(e)[v]

\* The second loop starts when every configuration is counted.
CountInv == TypeOK /\ AtLeastOnce /\ AtLeastTwice /\ SoleOnce /\ AssignedTakes

-----------------------------------------------------------------------------
(* The candidates and what one configuration adds to the counters *)

\* A loop over candidates starts at the first or the second.
LEMMA StartType == \A e : Start(e) \in {1, 2}
  BY DEF Start

\* Every counted candidate has a counter.
LEMMA CandidateInAll ==
  ASSUME NEW e \in Entries, NEW v \in Start(e) .. 4
  PROVE  Dirs(e)[v] \in AllDirs
  BY DEF AllDirs, Candidates

\* What the inner loop of builduniquedirs adds to the counter of d.
LEMMA AddsNat == \A e, d : Adds(e, d) \in Nat
  BY DEF Adds

LEMMA AddsOne ==
  ASSUME NEW e, NEW d, NEW v \in Start(e) .. 4, Dirs(e)[v] = d
  PROVE  Adds(e, d) >= 1
  <1>1. v \in {1, 2, 3, 4} BY StartType
  <1> DEFINE one(i) == IF i >= Start(e) /\ Dirs(e)[i] = d THEN 1 ELSE 0
  <1>2. one(v) = 1 BY StartType
  <1>3. \A i : one(i) \in {0, 1} OBVIOUS
  <1>4. Adds(e, d) = one(1) + one(2) + one(3) + one(4) BY DEF Adds
  <1> HIDE DEF one
  <1> QED BY <1>1, <1>2, <1>3, <1>4

LEMMA AddsTwo ==
  ASSUME NEW e, NEW d, NEW v \in Start(e) .. 4, NEW w \in Start(e) .. 4,
         v # w, Dirs(e)[v] = d, Dirs(e)[w] = d
  PROVE  Adds(e, d) >= 2
  <1>1. v \in {1, 2, 3, 4} /\ w \in {1, 2, 3, 4} BY StartType
  <1> DEFINE one(i) == IF i >= Start(e) /\ Dirs(e)[i] = d THEN 1 ELSE 0
  <1>2. one(v) = 1 /\ one(w) = 1 BY StartType
  <1>3. \A i : one(i) \in {0, 1} OBVIOUS
  <1>4. Adds(e, d) = one(1) + one(2) + one(3) + one(4) BY DEF Adds
  <1> HIDE DEF one
  <1> QED BY <1>1, <1>2, <1>3, <1>4

LEMMA AddsNone ==
  ASSUME NEW e, NEW d, \A v \in Start(e) .. 4 : Dirs(e)[v] # d
  PROVE  Adds(e, d) = 0
  <1> DEFINE one(i) == IF i >= Start(e) /\ Dirs(e)[i] = d THEN 1 ELSE 0
  <1>1. one(1) = 0 /\ one(2) = 0 /\ one(3) = 0 /\ one(4) = 0 BY StartType
  <1>2. Adds(e, d) = one(1) + one(2) + one(3) + one(4) BY DEF Adds
  <1> HIDE DEF one
  <1> QED BY <1>1, <1>2

LEMMA AddsOnlyOne ==
  ASSUME NEW e, NEW d, NEW v \in Start(e) .. 4, Dirs(e)[v] = d,
         \A w \in Start(e) .. 4 : Dirs(e)[w] = d => w = v
  PROVE  Adds(e, d) = 1
  <1>1. v \in {1, 2, 3, 4} BY StartType
  <1> DEFINE one(i) == IF i >= Start(e) /\ Dirs(e)[i] = d THEN 1 ELSE 0
  <1>2. \A i \in {1, 2, 3, 4} : one(i) = IF i = v THEN 1 ELSE 0 BY StartType
  <1>3. Adds(e, d) = one(1) + one(2) + one(3) + one(4) BY DEF Adds
  <1> HIDE DEF one
  <1> QED BY <1>1, <1>2, <1>3

-----------------------------------------------------------------------------
(* The invariant *)

LEMMA InitCount == ASSUME Init PROVE CountInv
  <1>1. TypeOK BY DEF Init, TypeOK
  <1>2. \A e \in Entries : ~Counted(e) /\ ~Assigned(e) BY DEF Init, Counted, Assigned
  <1>3. SoleOnce BY <1>2, CandidateInAll DEF SoleOnce, Init
  <1> QED BY <1>1, <1>2, <1>3 DEF CountInv, AtLeastOnce, AtLeastTwice, AssignedTakes

LEMMA CountPreserves == ASSUME CountInv, Count PROVE CountInv'
  <1>1. PICK e \in Entries :
          /\ Visits(e)
          /\ hits' = [d \in AllDirs |-> hits[d] + Adds(e, d)]
          /\ left' = left \ {e}
    BY DEF Count
  <1>2. cfgs' = cfgs /\ phase = "count" /\ phase' = "count" /\ objdir' = objdir
    BY DEF Count
  <1>3. /\ \A x : Dirs(x)' = Dirs(x) /\ Start(x)' = Start(x)
        /\ AllDirs' = AllDirs
        /\ \A x \in Entries : \A v : Sole(x, v)' = Sole(x, v)
    BY <1>2 DEF Dirs, Start, AllDirs, Candidates, Sole
  <1>4. \A x \in Entries : Counted(x)' <=> (Counted(x) \/ x = e)
    BY <1>1, <1>2 DEF Counted, CountInv, TypeOK
  <1>5. ~Counted(e) BY <1>1, <1>2 DEF Counted, Visits
  <1>6. \A d \in AllDirs : hits[d] \in Nat /\ Adds(e, d) \in Nat
                           /\ hits'[d] = hits[d] + Adds(e, d)
    BY <1>1, AddsNat DEF CountInv, TypeOK
  <1>7. TypeOK'
    BY <1>1, <1>2, <1>3, <1>6 DEF CountInv, TypeOK
  <1>8. AtLeastOnce'
    <2> SUFFICES ASSUME NEW x \in Entries, NEW v \in Start(x) .. 4, Counted(x)'
                 PROVE  hits'[Dirs(x)[v]] >= 1
      BY <1>3 DEF AtLeastOnce
    <2>1. Dirs(x)[v] \in AllDirs BY CandidateInAll
    <2>2. CASE Counted(x)
      BY <2>1, <2>2, <1>6 DEF CountInv, AtLeastOnce
    <2>3. CASE x = e
      BY <2>1, <2>3, <1>6, AddsOne
    <2> QED BY <2>2, <2>3, <1>4
  <1>9. AtLeastTwice'
    <2> SUFFICES ASSUME NEW x \in Entries, NEW y \in Entries,
                        NEW v \in Start(x) .. 4, NEW w \in Start(y) .. 4,
                        Counted(x)', Counted(y)', Dirs(x)[v] = Dirs(y)[w],
                        x # y \/ v # w
                 PROVE  hits'[Dirs(x)[v]] >= 2
      BY <1>3 DEF AtLeastTwice
    <2>1. Dirs(x)[v] \in AllDirs BY CandidateInAll
    <2>2. CASE Counted(x) /\ Counted(y)
      <3>1. hits[Dirs(x)[v]] >= 2 BY <2>2 DEF CountInv, AtLeastTwice
      <3> QED BY <3>1, <2>1, <1>6
    <2>3. CASE Counted(x) /\ y = e
      <3>1. hits[Dirs(x)[v]] >= 1 BY <2>3 DEF CountInv, AtLeastOnce
      <3>2. Adds(e, Dirs(x)[v]) >= 1 BY <2>3, AddsOne
      <3> QED BY <3>1, <3>2, <2>1, <1>6
    <2>4. CASE x = e /\ Counted(y)
      <3>1. hits[Dirs(y)[w]] >= 1 BY <2>4 DEF CountInv, AtLeastOnce
      <3>2. Adds(e, Dirs(x)[v]) >= 1 BY <2>4, AddsOne
      <3> QED BY <3>1, <3>2, <2>1, <1>6
    <2>5. CASE x = e /\ y = e
      <3>1. Adds(e, Dirs(x)[v]) >= 2 BY <2>5, AddsTwo
      <3> QED BY <3>1, <2>1, <1>6
    <2> QED BY <2>2, <2>3, <2>4, <2>5, <1>4
  <1>10. SoleOnce'
    <2> SUFFICES ASSUME NEW x \in Entries, NEW v \in Start(x) .. 4, Sole(x, v)
                 PROVE  hits'[Dirs(x)[v]] = IF Counted(x)' THEN 1 ELSE 0
      BY <1>3 DEF SoleOnce
    <2>1. Dirs(x)[v] \in AllDirs BY CandidateInAll
    <2>2. hits[Dirs(x)[v]] = IF Counted(x) THEN 1 ELSE 0
      BY DEF CountInv, SoleOnce
    <2>3. CASE x = e
      <3>1. Adds(e, Dirs(x)[v]) = 1 BY <2>3, AddsOnlyOne DEF Sole
      <3> QED BY <3>1, <2>1, <2>2, <2>3, <1>4, <1>5, <1>6
    <2>4. CASE x # e
      <3>1. Adds(e, Dirs(x)[v]) = 0 BY <2>4, AddsNone DEF Sole
      <3> QED BY <3>1, <2>1, <2>2, <2>4, <1>4, <1>6
    <2> QED BY <2>3, <2>4
  <1>11. AssignedTakes' BY <1>2 DEF AssignedTakes, Assigned
  <1> QED BY <1>7, <1>8, <1>9, <1>10, <1>11 DEF CountInv

\* A step that leaves the counters alone once all is counted, or marks the end
\* of the count, keeps what the counters mean.
LEMMA CountersKept ==
  ASSUME CountInv, cfgs' = cfgs, hits' = hits,
         \A e \in Entries : Counted(e)' = Counted(e)
  PROVE  /\ AtLeastOnce' /\ AtLeastTwice' /\ SoleOnce'
         /\ \A e \in Entries, v \in 1 .. 4 : Takes(e, v)' = Takes(e, v)
         /\ \A x : Dirs(x)' = Dirs(x)
         /\ AllDirs' = AllDirs
  <1>1. /\ \A x : Dirs(x)' = Dirs(x) /\ Start(x)' = Start(x)
        /\ AllDirs' = AllDirs
        /\ \A x \in Entries : \A v : Sole(x, v)' = Sole(x, v)
    BY DEF Dirs, Start, AllDirs, Candidates, Sole
  <1>2. AtLeastOnce' BY <1>1 DEF CountInv, AtLeastOnce
  <1>3. AtLeastTwice' BY <1>1 DEF CountInv, AtLeastTwice
  <1>4. SoleOnce' BY <1>1 DEF CountInv, SoleOnce
  <1>5. \A e \in Entries, v \in 1 .. 4 : Takes(e, v)' = Takes(e, v)
    BY <1>1 DEF Takes, Free
  <1> QED BY <1>1, <1>2, <1>3, <1>4, <1>5

LEMMA CountDonePreserves == ASSUME CountInv, CountDone PROVE CountInv'
  <1>1. \A e \in Entries : Counted(e)' = Counted(e) BY DEF CountDone, Counted
  <1>2. TypeOK' BY <1>1, CountersKept DEF CountDone, CountInv, TypeOK
  <1>3. AssignedTakes' BY DEF CountDone, AssignedTakes, Assigned
  <1> QED BY <1>1, <1>2, <1>3, CountersKept DEF CountDone, CountInv

LEMMA AssignPreserves == ASSUME CountInv, Assign PROVE CountInv'
  <1>1. PICK e \in Entries, v \in 1 .. 4 :
          /\ Visits(e)
          /\ Takes(e, v)
          /\ objdir' = [objdir EXCEPT ![e] = Dirs(e)[v]]
          /\ left' = left \ {e}
    BY DEF Assign
  <1>2. cfgs' = cfgs /\ hits' = hits /\ phase = "assign" /\ phase' = "assign"
    BY DEF Assign
  <1>3. \A x \in Entries : Counted(x)' = Counted(x) BY <1>2 DEF Counted
  <1>4. Dirs(e)[v] \in AllDirs BY <1>1, CandidateInAll DEF Takes
  <1>5. TypeOK' BY <1>1, <1>2, <1>3, <1>4, CountersKept DEF CountInv, TypeOK
  <1>6. AssignedTakes'
    <2> SUFFICES ASSUME NEW x \in Entries, Assigned(x)'
                 PROVE  \E u \in 1 .. 4 : Takes(x, u) /\ objdir'[x] = Dirs(x)[u]
      BY <1>2, <1>3, CountersKept DEF AssignedTakes
    <2>1. CASE x = e BY <2>1, <1>1 DEF CountInv, TypeOK
    <2>2. CASE x # e
      <3>1. Assigned(x) /\ objdir'[x] = objdir[x]
        BY <2>2, <1>1, <1>2 DEF Assigned, CountInv, TypeOK
      <3> QED BY <3>1 DEF CountInv, AssignedTakes
    <2> QED BY <2>1, <2>2
  <1> QED BY <1>2, <1>3, <1>5, <1>6, CountersKept DEF CountInv

LEMMA AssignDonePreserves == ASSUME CountInv, AssignDone PROVE CountInv'
  <1>1. /\ cfgs' = cfgs /\ hits' = hits /\ objdir' = objdir /\ left' = left
        /\ phase = "assign" /\ phase' = "done" /\ left = {}
    BY DEF AssignDone
  <1>2. \A e \in Entries : Counted(e)' = Counted(e) BY <1>1 DEF Counted
  <1>3. TypeOK' BY <1>1, <1>2, CountersKept DEF CountInv, TypeOK
  <1>4. \A e \in Entries : Assigned(e) BY <1>1 DEF Assigned
  <1>5. AssignedTakes'
    BY <1>1, <1>2, <1>4, CountersKept DEF CountInv, AssignedTakes
  <1> QED BY <1>1, <1>2, <1>3, <1>5, CountersKept DEF CountInv

LEMMA StutterPreserves == ASSUME CountInv, UNCHANGED vars PROVE CountInv'
  <1>1. /\ cfgs' = cfgs /\ hits' = hits /\ objdir' = objdir /\ left' = left
        /\ phase' = phase
    BY DEF vars
  <1>2. \A e \in Entries : Counted(e)' = Counted(e) /\ Assigned(e)' = Assigned(e)
    BY <1>1 DEF Counted, Assigned
  <1>3. TypeOK' BY <1>1, <1>2, CountersKept DEF CountInv, TypeOK
  <1>4. AssignedTakes'
    BY <1>1, <1>2, CountersKept DEF CountInv, AssignedTakes
  <1> QED BY <1>1, <1>2, <1>3, <1>4, CountersKept DEF CountInv

\* The counters and the assigned directories mean what builduniquedirs takes
\* them to mean, in every state of every run.
THEOREM CountInvariant == Spec => []CountInv
  <1>1. Init => CountInv BY InitCount
  <1>2. CountInv /\ [Next]_vars => CountInv'
    BY CountPreserves, CountDonePreserves, AssignPreserves,
       AssignDonePreserves, StutterPreserves DEF Next
  <1> QED BY <1>1, <1>2, PTL DEF Spec

-----------------------------------------------------------------------------
(* What it implies *)

\* Once something is assigned, all candidates are counted, and a candidate is
\* free exactly when no other one is the same directory.
LEMMA FreeIsSole ==
  ASSUME CountInv, phase # "count", NEW e \in Entries, NEW v \in Start(e) .. 4
  PROVE  Free(Dirs(e)[v]) <=> Sole(e, v)
  <1>1. \A f \in Entries : Counted(f) BY DEF Counted
  <1>2. ASSUME Sole(e, v) PROVE Free(Dirs(e)[v])
    BY <1>1, <1>2 DEF CountInv, SoleOnce, Free
  <1>3. ASSUME ~Sole(e, v) PROVE ~Free(Dirs(e)[v])
    <2>0. PICK f \in Entries : \E w \in Start(f) .. 4 :
            Dirs(f)[w] = Dirs(e)[v] /\ ~(f = e /\ w = v)
      BY <1>3 DEF Sole
    <2>1. PICK w \in Start(f) .. 4 : Dirs(f)[w] = Dirs(e)[v] /\ ~(f = e /\ w = v)
      BY <2>0
    <2>2. hits[Dirs(e)[v]] >= 2
      BY <1>1, <2>1 DEF CountInv, AtLeastTwice
    <2> QED BY <2>2 DEF Free
  <1> QED BY <1>2, <1>3

\* Every configuration gets the first of its candidates that no other candidate
\* of the session equals, and the most specific one if there is none.
THEOREM FirstSoleChosen == Spec => []FirstSole
  <1>1. ASSUME CountInv PROVE FirstSole
    <2> SUFFICES ASSUME NEW e \in Entries, Assigned(e)
                 PROVE  \E v \in Start(e) .. 4 :
                          /\ objdir[e] = Dirs(e)[v]
                          /\ Sole(e, v) \/ v = 4
                          /\ \A w \in Start(e) .. v - 1 : ~Sole(e, w)
      BY DEF FirstSole
    <2>1. phase # "count" BY DEF Assigned
    <2>2. PICK v \in 1 .. 4 : Takes(e, v) /\ objdir[e] = Dirs(e)[v]
      BY <1>1 DEF CountInv, AssignedTakes
    <2>3. v \in Start(e) .. 4 /\ (Free(Dirs(e)[v]) \/ v = 4) BY <2>2 DEF Takes
    <2>4. \A w \in Start(e) .. v - 1 : w \in Start(e) .. 4 /\ ~Free(Dirs(e)[w])
      BY <2>2, <2>3, StartType DEF Takes
    <2> QED BY <1>1, <2>1, <2>2, <2>3, <2>4, FreeIsSole
  <1> QED BY <1>1, CountInvariant, PTL

\* Two configurations of the session share an objects directory only when both
\* have run out of candidates.
THEOREM SharedOnlyAsLastResort == Spec => []SharedOnlyAtFallback
  <1>1. ASSUME CountInv PROVE SharedOnlyAtFallback
    <2> SUFFICES ASSUME NEW e \in Entries, NEW f \in Entries, e # f,
                        Assigned(e), Assigned(f), objdir[e] = objdir[f]
                 PROVE  /\ objdir[e] = Dirs(e)[4] /\ objdir[f] = Dirs(f)[4]
                        /\ \A v \in Start(e) .. 4 : hits[Dirs(e)[v]] > 1
      BY DEF SharedOnlyAtFallback
    <2>1. \A x \in Entries : Counted(x) BY DEF Counted, Assigned
    <2>2. PICK v \in 1 .. 4 : Takes(e, v) /\ objdir[e] = Dirs(e)[v]
      BY <1>1 DEF CountInv, AssignedTakes
    <2>3. PICK w \in 1 .. 4 : Takes(f, w) /\ objdir[f] = Dirs(f)[w]
      BY <1>1 DEF CountInv, AssignedTakes
    <2>4. v \in Start(e) .. 4 /\ w \in Start(f) .. 4 BY <2>2, <2>3 DEF Takes
    <2>5. hits[Dirs(e)[v]] >= 2
      BY <1>1, <2>1, <2>2, <2>3, <2>4 DEF CountInv, AtLeastTwice
    <2>6. ~Free(Dirs(e)[v]) /\ ~Free(Dirs(f)[w])
      <3>1. Dirs(e)[v] = Dirs(f)[w] BY <2>2, <2>3
      <3>2. ~Free(Dirs(e)[v]) BY <2>5 DEF Free
      <3> QED BY <3>1, <3>2
    <2>7. v = 4 /\ w = 4 BY <2>2, <2>3, <2>6 DEF Takes
    <2>8. \A u \in Start(e) .. 4 : hits[Dirs(e)[u]] > 1
      <3> SUFFICES ASSUME NEW u \in Start(e) .. 4 PROVE hits[Dirs(e)[u]] > 1
        OBVIOUS
      <3>1. hits[Dirs(e)[u]] \in Nat
        BY <1>1, CandidateInAll DEF CountInv, TypeOK
      <3>2. hits[Dirs(e)[u]] >= 1 BY <1>1, <2>1 DEF CountInv, AtLeastOnce
      <3>3. CASE u = 4 BY <3>1, <3>3, <2>5, <2>7
      <3>4. CASE u # 4
        <4>1. u \in Start(e) .. v - 1 BY <3>4, <2>7, StartType
        <4>2. hits[Dirs(e)[u]] # 1 BY <4>1, <2>2 DEF Takes, Free
        <4> QED BY <3>1, <3>2, <4>2
      <3> QED BY <3>3, <3>4
    <2> QED BY <2>2, <2>3, <2>7, <2>8
  <1> QED BY <1>1, CountInvariant, PTL

\* The root configuration of a project always gets its most specific candidate.
THEOREM RootAlwaysLast == Spec => []RootTakesLast
  <1>1. ASSUME CountInv PROVE RootTakesLast
    <2> SUFFICES ASSUME NEW e \in Entries, Assigned(e), cfgs[e].root
                 PROVE  objdir[e] = Dirs(e)[4]
      BY DEF RootTakesLast
    <2>1. Counted(e) BY DEF Counted, Assigned
    <2>2. Start(e) = 1 BY DEF Start
    <2>3. /\ cfgs[e].base \in Seq(STRING)
          /\ cfgs[e].name = << >> /\ cfgs[e].plt = << >>
      BY <1>1, InputAssumption DEF CountInv, TypeOK, Setting
    <2>4. Dirs(e)[1] = Dirs(e)[2] /\ Dirs(e)[2] = Dirs(e)[3]
      BY <2>3 DEF Dirs
    <2>5. \A v \in 1 .. 3 : hits[Dirs(e)[v]] >= 2
      <3>1. hits[Dirs(e)[1]] >= 2
        BY <1>1, <2>1, <2>2, <2>4 DEF CountInv, AtLeastTwice
      <3> QED BY <3>1, <2>4
    <2>6. PICK v \in 1 .. 4 : Takes(e, v) /\ objdir[e] = Dirs(e)[v]
      BY <1>1 DEF CountInv, AssignedTakes
    <2>7. v \in 1 .. 3 => ~Free(Dirs(e)[v]) BY <2>5 DEF Free
    <2> QED BY <2>6, <2>7 DEF Takes
  <1> QED BY <1>1, CountInvariant, PTL
=============================================================================
