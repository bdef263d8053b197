--------------------------- MODULE SessionProofs ---------------------------
(***************************************************************************)
(* The session's invariants hold for every script, whatever the names,     *)
(* fields and values it uses and however long it is.                       *)
(***************************************************************************)
EXTENDS Session, SequenceTheorems, TLAPS

\* The getobject lookup yields an object of the session whenever it yields one.
LEMMA GetObjectType ==
  ASSUME TypeOK, NEW t
  PROVE  getobject(t) \in Objects \cup {Nil}
<1> USE BoundAssumption, NilAssumption
<1>1. CASE t = "config" BY <1>1 DEF getobject, TypeOK
<1>2. CASE t # "config" /\ container = Nil BY <1>2 DEF getobject
<1>3. CASE t # "config" /\ container # Nil
  <2>1. container \in Solutions \X (0 .. MaxProjects)
    BY <1>3 DEF TypeOK, Containers
  <2>2. container[1] \in Solutions /\ container[2] \in 0 .. MaxProjects
    BY <2>1
  <2>3. 0 \in 0 .. MaxProjects /\ 0 \in 0 .. MaxBlocks OBVIOUS
  <2> QED BY <1>3, <2>2, <2>3 DEF getobject, Objects
<1> QED BY <1>1, <1>2, <1>3

\* Opening a block keeps the types of the blocks and of the current block.
LEMMA OpenBlockType ==
  ASSUME TypeOK, NEW c \in Containers, NEW t \in Terms, OpenBlock(c, t)
  PROVE  /\ blocks' \in [Containers -> Seq(Terms)]
         /\ config' \in Objects
<1> USE BoundAssumption
<1>1. blocks[c] \in Seq(Terms) BY DEF TypeOK
<1>2. Append(blocks[c], t) \in Seq(Terms) BY <1>1
<1>3. blocks' \in [Containers -> Seq(Terms)] BY <1>2 DEF OpenBlock, TypeOK
<1>4. Len(blocks[c]) \in Nat /\ Len(blocks[c]) < MaxBlocks
  BY <1>1 DEF OpenBlock
<1>5. Len(blocks[c]) + 1 \in 0 .. MaxBlocks BY <1>4
<1>6. c[1] \in Solutions /\ c[2] \in 0 .. MaxProjects BY DEF Containers
<1> QED BY <1>3, <1>5, <1>6 DEF OpenBlock, NewBlock, Objects

\* A field assignment to an existing object keeps the type of the store.
LEMMA SetType ==
  ASSUME TypeOK, NEW o \in Objects, NEW f \in Fields, NEW v \in Seq(Words),
         NEW st \in {"ok", "error"}, Set(o, f, v, st), calls' \in Nat
  PROVE  TypeOK'
<1>1. store' \in [Objects -> [Fields -> Seq(Words)]] BY DEF Set, TypeOK
<1> QED BY <1>1 DEF Set, TypeOK

\* So does an error: it only changes the status of the script.
LEMMA RaiseType ==
  ASSUME TypeOK, NEW st \in {"error", "nilcall"}, Raise(st), calls' \in Nat
  PROVE  TypeOK'
BY DEF Raise, TypeOK

\* createproject() keeps every table well typed; the slot of a name and the
\* usageProj links always stay within the list of projects.
LEMMA CreateProjectType ==
  ASSUME TypeOK, SlotConsistent,
         NEW s \in Solutions, NEW n \in Names, NEW u \in BOOLEAN,
         createproject(n, s, u), calls' \in Nat
  PROVE  TypeOK'
<1> USE BoundAssumption
<1> DEFINE i   == Len(projects[s]) + 1
           cur == slot[s][n]
           prj == [name |-> n, usage |-> u,
                   usageProj |-> IF u THEN 0 ELSE cur]
           new == Append(projects[s], prj)
<1>1. /\ projects[s] \in Seq(Project) /\ cur \in 0 .. MaxProjects
      /\ slot[s] \in [Names -> 0 .. MaxProjects]
  BY DEF TypeOK
<1>2. i \in 0 .. MaxProjects BY <1>1 DEF createproject
<1>3. prj \in Project BY <1>1 DEF Project
<1>4. new \in Seq(Project) BY <1>1, <1>3
<1>5. ASSUME cur # 0
      PROVE  [new EXCEPT ![cur] = [@ EXCEPT !.usageProj = i]] \in Seq(Project)
  <2>1. cur \in 1 .. Len(new) BY <1>1, <1>5 DEF SlotConsistent, SlotTable
  <2>2. new[cur] \in Project BY <2>1, <1>4
  <2>3. [new[cur] EXCEPT !.usageProj = i] \in Project
    BY <2>2, <1>2 DEF Project
  <2> QED BY <1>4, <2>1, <2>3, ExceptSeq
<1>6. projects' \in [Solutions -> Seq(Project)]
  BY <1>4, <1>5 DEF createproject, TakesSlot, TypeOK
<1>7. [slot[s] EXCEPT ![n] = i] \in [Names -> 0 .. MaxProjects] BY <1>1, <1>2
<1>8. slot' \in [Solutions -> [Names -> 0 .. MaxProjects]]
  BY <1>1, <1>7 DEF createproject, TypeOK
<1>9. <<s, i>> \in Containers BY <1>2 DEF Containers
<1>10. OpenBlock(<<s, i>>, EmptyTerms) BY DEF createproject
<1>11. blocks' \in [Containers -> Seq(Terms)] /\ config' \in Objects
  BY <1>9, <1>10, OpenBlockType, NilAssumption
<1> QED BY <1>6, <1>8, <1>9, <1>11 DEF createproject, TypeOK

\* Reopening a project keeps the types.
LEMMA ReopenType ==
  ASSUME TypeOK, NEW s \in Solutions, NEW i \in 0 .. MaxProjects,
         Reopen(s, i), calls' \in Nat
  PROVE  TypeOK'
<1>1. <<s, i>> \in Containers BY DEF Containers
<1>2. blocks' \in [Containers -> Seq(Terms)] /\ config' \in Objects
  BY <1>1, OpenBlockType, NilAssumption DEF Reopen
<1> QED BY <1>1, <1>2 DEF Reopen, TypeOK

\* The solution that a project call works on exists, if there is one.
LEMMA ParentSolutionType ==
  ASSUME TypeOK, ParentSolution # Nil
  PROVE  ParentSolution \in Solutions
BY DEF TypeOK, Containers, ParentSolution

-----------------------------------------------------------------------------
(* The name slots *)

\* What createproject() does to the list, position by position.
LEMMA CreateProjectEffect ==
  ASSUME TypeOK, SlotConsistent,
         NEW s \in Solutions, NEW n \in Names, NEW u \in BOOLEAN,
         createproject(n, s, u)
  PROVE  LET i   == Len(projects[s]) + 1
             cur == slot[s][n]
         IN /\ Len(projects'[s]) = i
            /\ \A j \in 1 .. Len(projects[s]) :
                 /\ projects'[s][j].name = projects[s][j].name
                 /\ projects'[s][j].usage = projects[s][j].usage
                 /\ projects'[s][j].usageProj =
                      IF u /\ cur # 0 /\ j = cur THEN i ELSE projects[s][j].usageProj
            /\ projects'[s][i].name = n
            /\ projects'[s][i].usage = u
            /\ projects'[s][i].usageProj = IF u THEN 0 ELSE cur
            /\ slot'[s][n] = IF u /\ cur # 0 THEN cur ELSE i
            /\ \A m \in Names \ {n} : slot'[s][m] = slot[s][m]
            /\ \A z \in Solutions \ {s} : /\ projects'[z] = projects[z]
                                          /\ slot'[z] = slot[z]
<1> DEFINE i   == Len(projects[s]) + 1
           cur == slot[s][n]
           prj == [name |-> n, usage |-> u,
                   usageProj |-> IF u THEN 0 ELSE cur]
           new == Append(projects[s], prj)
<1>1. /\ projects[s] \in Seq(Project) /\ cur \in 0 .. MaxProjects
      /\ slot[s] \in [Names -> 0 .. MaxProjects]
      /\ i \in 0 .. MaxProjects
  BY BoundAssumption DEF TypeOK, createproject
<1>2. prj \in Project BY <1>1, BoundAssumption DEF Project
<1>3. /\ new \in Seq(Project) /\ Len(new) = i
      /\ \A j \in 1 .. Len(projects[s]) : new[j] = projects[s][j]
      /\ new[i] = prj
  BY <1>1, <1>2
<1>4. slot' = [slot EXCEPT ![s] =
                 IF ~u \/ cur = 0 THEN [@ EXCEPT ![n] = i] ELSE @]
  BY DEF createproject, TakesSlot
<1>5. /\ slot'[s][n] = IF u /\ cur # 0 THEN cur ELSE i
      /\ \A m \in Names \ {n} : slot'[s][m] = slot[s][m]
      /\ \A z \in Solutions \ {s} : slot'[z] = slot[z]
  BY <1>1, <1>4 DEF TypeOK
<1>6. CASE ~u \/ cur = 0
  <2>1. projects' = [projects EXCEPT ![s] = new]
    BY <1>6 DEF createproject, TakesSlot
  <2>2. projects'[s] = new /\ \A z \in Solutions \ {s} : projects'[z] = projects[z]
    BY <2>1 DEF TypeOK
  <2> QED BY <1>3, <1>5, <1>6, <2>2
<1>7. CASE u /\ cur # 0
  <2> DEFINE upd == [new[cur] EXCEPT !.usageProj = i]
  <2>1. projects' = [projects EXCEPT ![s] = [new EXCEPT ![cur] = upd]]
    BY <1>7 DEF createproject, TakesSlot
  <2>2. cur \in 1 .. Len(projects[s]) BY <1>1, <1>7 DEF SlotConsistent, SlotTable
  <2>3. new[cur] \in Project /\ new[cur] = projects[s][cur] BY <1>3, <2>2
  <2>4. /\ upd \in Project /\ upd.name = projects[s][cur].name
        /\ upd.usage = projects[s][cur].usage /\ upd.usageProj = i
    BY <2>3, <1>1 DEF Project
  <2>a. cur # i BY <1>1, <2>2
  <2> HIDE DEF upd, new, cur, i, prj
  <2>5. /\ Len([new EXCEPT ![cur] = upd]) = i
        /\ \A j \in 1 .. i : [new EXCEPT ![cur] = upd][j] =
                              IF j = cur THEN upd ELSE new[j]
    <3>1. cur \in 1 .. Len(new) BY <1>1, <1>3, <2>2 DEF i
    <3> QED BY <3>1, <1>3, <2>4, ExceptSeq
  <2>6. /\ projects'[s] = [new EXCEPT ![cur] = upd]
        /\ \A z \in Solutions \ {s} : projects'[z] = projects[z]
    BY <2>1 DEF TypeOK
  <2>b. \A j \in 1 .. Len(projects[s]) : j \in 1 .. i BY <1>1 DEF i
  <2>c. i \in 1 .. i BY <1>1 DEF i
  <2>7. /\ Len(projects'[s]) = i
        /\ \A j \in 1 .. i : projects'[s][j] = IF j = cur THEN upd ELSE new[j]
    BY <2>5, <2>6
  <2>8. \A j \in 1 .. Len(projects[s]) : 
          projects'[s][j] = IF j = cur THEN upd ELSE projects[s][j]
    BY <2>7, <1>3, <2>b
  <2>9. projects'[s][i] = prj
    BY <2>7, <1>3, <2>a, <2>c
  <2>10. prj.name = n /\ prj.usage = u /\ prj.usageProj = 0 BY <1>7 DEF prj
  <2>11. \A j \in 1 .. Len(projects[s]) :
          /\ projects'[s][j].name = projects[s][j].name
          /\ projects'[s][j].usage = projects[s][j].usage
          /\ projects'[s][j].usageProj =
               IF u /\ cur # 0 /\ j = cur THEN i ELSE projects[s][j].usageProj
    BY <1>7, <2>4, <2>8
  <2> QED BY <1>5, <1>7, <2>6, <2>7, <2>9, <2>10, <2>11 DEF i, cur
<1> QED BY <1>6, <1>7

\* createproject() keeps the slots consistent when it is called the way
\* project() and usage() call it.
LEMMA CreateProjectSlots ==
  ASSUME TypeOK, SlotConsistent,
         NEW s \in Solutions, NEW n \in Names, NEW u \in BOOLEAN,
         createproject(n, s, u),
         u => NeedsUsage(s, n),
         ~u => NeedsProject(s, n)
  PROVE  SlotConsistent'
<1> DEFINE i   == Len(projects[s]) + 1
           cur == slot[s][n]
<1>1. /\ Len(projects'[s]) = i
      /\ \A j \in 1 .. Len(projects[s]) :
           /\ projects'[s][j].name = projects[s][j].name
           /\ projects'[s][j].usage = projects[s][j].usage
           /\ projects'[s][j].usageProj =
                IF u /\ cur # 0 /\ j = cur THEN i ELSE projects[s][j].usageProj
      /\ projects'[s][i].name = n
      /\ projects'[s][i].usage = u
      /\ projects'[s][i].usageProj = IF u THEN 0 ELSE cur
      /\ slot'[s][n] = IF u /\ cur # 0 THEN cur ELSE i
      /\ \A m \in Names \ {n} : slot'[s][m] = slot[s][m]
      /\ \A z \in Solutions \ {s} : projects'[z] = projects[z] /\ slot'[z] = slot[z]
  BY CreateProjectEffect
<1>2. /\ Len(projects[s]) \in Nat /\ projects[s] \in Seq(Project)
      /\ slot[s] \in [Names -> 0 .. MaxProjects]
  BY DEF TypeOK
<1>3. \A j \in 1 .. Len(projects[s]) : projects[s][j].name \in Names
                                      /\ projects[s][j].usage \in BOOLEAN
                                      /\ projects[s][j].usageProj \in Nat
  <2>1. \A j \in 1 .. Len(projects[s]) : projects[s][j] \in Project BY <1>2
  <2>2. \A p \in Project : p.name \in Names /\ p.usage \in BOOLEAN /\ p.usageProj \in Nat
    BY BoundAssumption DEF Project
  <2> QED BY <2>1, <2>2
<1>4. SUFFICES ASSUME NEW z \in Solutions
               PROVE  SlotTable(projects'[z], slot'[z])
  BY DEF SlotConsistent
<1>5. CASE z # s
  <2>1. projects'[z] = projects[z] /\ slot'[z] = slot[z] BY <1>1, <1>5
  <2> QED BY <2>1 DEF SlotConsistent
<1>6. CASE z = s
  <2>0. SlotTable(projects[s], slot[s]) BY DEF SlotConsistent
  <2>1. cur # 0 => cur \in 1 .. Len(projects[s]) /\ projects[s][cur].name = n
    BY <2>0 DEF SlotTable
  <2>2. \A m \in Names : slot'[s][m] # 0 =>
                           /\ slot'[s][m] \in 1 .. i
                           /\ projects'[s][slot'[s][m]].name = m
    <3> SUFFICES ASSUME NEW m \in Names, slot'[s][m] # 0
                 PROVE  /\ slot'[s][m] \in 1 .. i
                        /\ projects'[s][slot'[s][m]].name = m
      OBVIOUS
    <3>1. CASE m = n BY <3>1, <1>1, <1>2, <2>1
    <3>2. CASE m # n
      <4>1. slot[s][m] \in 1 .. Len(projects[s]) /\ projects[s][slot[s][m]].name = m
        BY <2>0, <3>2, <1>1, SMTT(60) DEF SlotTable
      <4> QED BY <3>2, <4>1, <1>1, <1>2, SMTT(60)
    <3> QED BY <3>1, <3>2
  <2>3. ASSUME NEW k \in 1 .. i
        PROVE  LET p == projects'[s][k]
                   c == slot'[s][p.name]
               IN /\ c # 0
                  /\ \/ c = k
                     \/ /\ p.usage
                        /\ ~projects'[s][c].usage
                        /\ projects'[s][c].usageProj = k
                  /\ p.usageProj # 0 =>
                       /\ ~p.usage
                       /\ p.usageProj \in 1 .. i
                       /\ projects'[s][p.usageProj].usage
                       /\ projects'[s][p.usageProj].name = p.name
    <3> DEFINE old == projects[s][k]
    <3>1. CASE k = i
      <4>1. CASE u
        <5>1. cur # 0 => ~projects[s][cur].usage
          BY <4>1 DEF NeedsUsage
        <5> QED BY <3>1, <4>1, <5>1, <1>1, <1>2, <2>1
      <4>2. CASE ~u
        <5>1. cur # 0 => projects[s][cur].usage
          BY <4>2 DEF NeedsProject
        <5> QED BY <3>1, <4>2, <5>1, <1>1, <1>2, <2>1
      <4> QED BY <4>1, <4>2
    <3>2. CASE k # i
      <4>1. k \in 1 .. Len(projects[s]) BY <3>2, <1>2
      <4>2. LET c == slot[s][old.name]
            IN /\ c # 0
               /\ \/ c = k
                  \/ old.usage /\ ~projects[s][c].usage /\ projects[s][c].usageProj = k
               /\ old.usageProj # 0 =>
                    /\ ~old.usage
                    /\ old.usageProj \in 1 .. Len(projects[s])
                    /\ projects[s][old.usageProj].usage
                    /\ projects[s][old.usageProj].name = old.name
        BY <2>0, <4>1 DEF SlotTable
      <4>3. CASE old.name # n
        <5>1. slot'[s][old.name] = slot[s][old.name] BY <1>1, <1>3, <4>1, <4>3
        <5>a. old.name \in Names /\ slot[s][old.name] # 0 BY <1>3, <4>1, <4>2
        <5> HIDE DEF old
        <5>2. slot[s][old.name] \in 1 .. Len(projects[s])
          BY <2>0, <5>a DEF SlotTable
        <5>3. projects[s][slot[s][old.name]].name = old.name
          BY <2>0, <5>a DEF SlotTable
        <5>4. k # cur BY <4>1, <4>3, <2>1, <1>2 DEF old
        <5>5. slot[s][old.name] # cur BY <4>3, <2>1, <5>2, <5>3
        <5>6. projects'[s][k].usageProj = old.usageProj BY <1>1, <4>1, <5>4 DEF old
        <5>7. /\ projects'[s][k].name = old.name
              /\ projects'[s][k].usage = old.usage
          BY <1>1, <4>1 DEF old
        <5>8. projects'[s][slot[s][old.name]].usageProj =
                projects[s][slot[s][old.name]].usageProj
          BY <1>1, <5>2, <5>5
        <5>9. projects'[s][slot[s][old.name]].usage = projects[s][slot[s][old.name]].usage
          BY <1>1, <5>2
        <5>10. old.usageProj # 0 =>
                 /\ old.usageProj \in 1 .. i
                 /\ projects'[s][old.usageProj].usage
                 /\ projects'[s][old.usageProj].name = old.name
          BY <1>1, <1>2, <4>2
        <5> QED BY <4>2, <5>1, <5>6, <5>7, <5>8, <5>9, <5>10
      <4>4. CASE old.name = n
        <5>1. cur # 0 /\ cur \in 1 .. Len(projects[s]) BY <4>2, <4>4, <2>1
        <5>2. CASE u
          <6>1. ~projects[s][cur].usage /\ projects[s][cur].usageProj = 0
            BY <5>1, <5>2 DEF NeedsUsage
          <6>2. cur = k BY <4>1, <4>2, <4>4, <6>1
          <6>3. /\ projects'[s][k].name = n /\ projects'[s][k].usage = old.usage
                /\ projects'[s][k].usageProj = i /\ slot'[s][n] = k
            BY <1>1, <4>1, <4>4, <5>1, <5>2, <6>2
          <6>4. projects'[s][i].usage /\ projects'[s][i].name = n BY <1>1, <5>2
          <6> QED BY <1>2, <5>1, <6>1, <6>2, <6>3, <6>4
        <5>3. CASE ~u
          <6>1. projects[s][cur].usage
            BY <5>1, <5>3 DEF NeedsProject
          <6>2. cur = k BY <4>2, <4>4, <6>1
          <6>3. /\ projects'[s][k].name = n /\ projects'[s][k].usage = old.usage
                /\ projects'[s][k].usageProj = old.usageProj /\ slot'[s][n] = i
            BY <1>1, <4>1, <4>4, <5>3
          <6>4. /\ ~projects'[s][i].usage /\ projects'[s][i].name = n
                /\ projects'[s][i].usageProj = k
            BY <1>1, <5>3, <6>2
          <6>5. old.usage /\ old.usageProj = 0 BY <4>2, <6>1, <6>2
          <6> QED BY <1>2, <6>3, <6>4, <6>5
        <5> QED BY <5>2, <5>3
      <4> QED BY <4>3, <4>4
    <3> QED BY <3>1, <3>2
  <2> QED BY <1>1, <1>6, <2>2, <2>3 DEF SlotTable
<1> QED BY <1>5, <1>6

-----------------------------------------------------------------------------
(* Invariance *)

\* The types and the name slots depend on each other (usageProj is written
\* through a slot), so they are preserved together, call by call.
LEMMA CallsKeepSlots ==
  ASSUME TypeOK, SlotConsistent, Next, ~Caught
  PROVE  TypeOK' /\ SlotConsistent'
<1> USE NilAssumption
<1>0. calls' \in Nat /\ status = "ok"
  <2>1. Call
    BY Zenon DEF Next, Solution, project, usage, Configuration, setstring,
                 setarray, setfilearray, setkeyvalue
  <2> QED BY <2>1 DEF Call, TypeOK
<1>a. ASSUME UNCHANGED <<projects, slot>> PROVE SlotConsistent'
  BY <1>a DEF SlotConsistent
<1>b. ASSUME NEW st \in {"error", "nilcall"}, Raise(st)
      PROVE  TypeOK' /\ SlotConsistent'
  <2>1. TypeOK' BY <1>0, <1>b, RaiseType
  <2> QED BY <2>1, <1>a, <1>b DEF Raise
<1>c. ASSUME NEW o \in Objects, NEW f \in Fields, NEW v \in Seq(Words),
             NEW st \in {"ok", "error"}, Set(o, f, v, st)
      PROVE  TypeOK' /\ SlotConsistent'
  <2>1. TypeOK' BY <1>0, <1>c, SetType
  <2> QED BY <2>1, <1>a, <1>c DEF Set
<1>1. ASSUME NEW s \in Solutions, Solution(s) PROVE TypeOK' /\ SlotConsistent'
  <2>1. <<s, 0>> \in Containers BY BoundAssumption DEF Containers
  <2>2. blocks' \in [Containers -> Seq(Terms)] /\ config' \in Objects
    BY <1>1, <2>1, OpenBlockType DEF Solution
  <2>3. list' \in Seq(Solutions) BY <1>1 DEF Solution, NewSolution, TypeOK
  <2>4. TypeOK' BY <1>0, <1>1, <2>1, <2>2, <2>3 DEF Solution, TypeOK
  <2> QED BY <1>1, <1>a, <2>4 DEF Solution
<1>2. ASSUME NEW n \in Names, project(n) PROVE TypeOK' /\ SlotConsistent'
  <2> DEFINE s == ParentSolution
  <2>1. CASE s = Nil BY <1>2, <1>b, <2>1 DEF project
  <2>2. CASE s # Nil /\ NeedsProject(s, n)
    <3>1. s \in Solutions BY <2>2, ParentSolutionType
    <3>2. createproject(n, s, FALSE) BY <1>2, <2>2 DEF project
    <3>3. TypeOK' BY <1>0, <3>1, <3>2, CreateProjectType
    <3>4. SlotConsistent' BY <2>2, <3>1, <3>2, CreateProjectSlots
    <3> QED BY <3>3, <3>4
  <2>3. CASE s # Nil /\ ~NeedsProject(s, n)
    <3>1. s \in Solutions /\ slot[s][n] \in 0 .. MaxProjects
      BY <2>3, ParentSolutionType DEF TypeOK
    <3>2. Reopen(s, slot[s][n]) BY <1>2, <2>3 DEF project
    <3>3. TypeOK' BY <1>0, <3>1, <3>2, ReopenType
    <3> QED BY <1>a, <3>2, <3>3 DEF Reopen
  <2> QED BY <2>1, <2>2, <2>3
<1>3. ASSUME NEW n \in Names, usage(n) PROVE TypeOK' /\ SlotConsistent'
  <2> DEFINE s == ParentSolution
  <2>1. CASE s = Nil BY <1>3, <1>b, <2>1 DEF usage
  <2>2. CASE s # Nil /\ NeedsUsage(s, n)
    <3>1. s \in Solutions BY <2>2, ParentSolutionType
    <3>2. createproject(n, s, TRUE) BY <1>3, <2>2 DEF usage
    <3>3. TypeOK' BY <1>0, <3>1, <3>2, CreateProjectType
    <3>4. SlotConsistent' BY <2>2, <3>1, <3>2, CreateProjectSlots
    <3> QED BY <3>3, <3>4
  <2>3. CASE s # Nil /\ ~NeedsUsage(s, n) BY <1>3, <1>b, <2>3 DEF usage
  <2> QED BY <2>1, <2>2, <2>3
<1>4. ASSUME NEW t \in Terms, Configuration(t) PROVE TypeOK' /\ SlotConsistent'
  <2>1. CASE container = Nil BY <1>4, <1>b, <2>1 DEF Configuration
  <2>2. CASE container # Nil
    <3>1. container \in Containers BY <2>2 DEF TypeOK
    <3>2. OpenBlock(container, t) BY <1>4, <2>2 DEF Configuration
    <3>3. blocks' \in [Containers -> Seq(Terms)] /\ config' \in Objects
      BY <3>1, <3>2, OpenBlockType
    <3>4. status' \in {"ok", "error"} BY <1>4, <2>2 DEF Configuration
    <3>5. TypeOK' BY <1>0, <1>4, <2>2, <3>3, <3>4 DEF Configuration, TypeOK
    <3> QED BY <1>a, <1>4, <2>2, <3>5 DEF Configuration
  <2> QED BY <2>1, <2>2
<1>5. ASSUME NEW f \in Fields, NEW w \in Words, setstring(f, w)
      PROVE  TypeOK' /\ SlotConsistent'
  <2> DEFINE o == getobject(FieldScope[f])
  <2>1. CASE o = Nil \/ ~Accepted(f, w) BY <1>5, <1>b, <2>1 DEF setstring
  <2>2. CASE o # Nil /\ Accepted(f, w)
    <3>1. o \in Objects BY <2>2, GetObjectType
    <3>2. Stored(f, w) \in Words BY <2>2, FieldAssumption DEF Stored, Accepted
    <3>3. Set(o, f, <<Stored(f, w)>>, "ok") BY <1>5, <2>2 DEF setstring
    <3>4. <<Stored(f, w)>> \in Seq(Words) BY <3>2
    <3> HIDE DEF o
    <3> QED BY <1>c, <3>1, <3>3, <3>4
  <2> QED BY <2>1, <2>2
<1>6. ASSUME NEW f \in Fields, NEW ws \in ListArgs, setarray(f, ws)
      PROVE  TypeOK' /\ SlotConsistent'
  <2> DEFINE o == getobject(FieldScope[f])
  <2>1. CASE o = Nil BY <1>6, <1>b, <2>1 DEF setarray
  <2>2. CASE o # Nil
    <3>1. o \in Objects BY <2>2, GetObjectType
    <3>2. PICK m \in 0 .. Len(ws) :
            /\ \A j \in 1 .. m : Accepted(f, ws[j])
            /\ Set(o, f, store[o][f] \o [j \in 1 .. m |-> Stored(f, ws[j])],
                   IF m = Len(ws) THEN "ok" ELSE "error")
      BY <1>6, <2>2 DEF setarray
    <3>3. [j \in 1 .. m |-> Stored(f, ws[j])] \in Seq(Words)
      <4>1. ws \in Seq(Words) BY FieldAssumption
      <4>2. m \in Nat BY <4>1
      <4>3. \A j \in 1 .. m : Stored(f, ws[j]) \in Words
        BY <3>2, FieldAssumption DEF Stored, Accepted
      <4> QED BY <4>2, <4>3, IsASeq
    <3>4. store[o][f] \in Seq(Words) BY <3>1 DEF TypeOK
    <3>5. store[o][f] \o [j \in 1 .. m |-> Stored(f, ws[j])] \in Seq(Words)
      BY <3>3, <3>4, ConcatProperties
    <3>6. (IF m = Len(ws) THEN "ok" ELSE "error") \in {"ok", "error"} OBVIOUS
    <3> HIDE DEF o
    <3> QED BY <1>c, <3>1, <3>2, <3>5, <3>6
  <2> QED BY <2>1, <2>2
<1>7. ASSUME NEW f \in Fields, NEW ws \in ListArgs, NEW t \in BOOLEAN,
             setkeyvalue(f, ws, t)
      PROVE  TypeOK' /\ SlotConsistent'
  <2> DEFINE o == getobject(FieldScope[f])
  <2>1. CASE o = Nil \/ ~t BY <1>7, <1>b, <2>1 DEF setkeyvalue
  <2>2. CASE o # Nil /\ t
    <3>1. o \in Objects BY <2>2, GetObjectType
    <3>2. Set(o, f, store[o][f] \o ws, "ok") BY <1>7, <2>2 DEF setkeyvalue
    <3>3. ws \in Seq(Words) /\ store[o][f] \in Seq(Words)
      BY <3>1, FieldAssumption DEF TypeOK
    <3>4. store[o][f] \o ws \in Seq(Words) BY <3>3, ConcatProperties
    <3> HIDE DEF o
    <3> QED BY <1>c, <3>1, <3>2, <3>4
  <2> QED BY <2>1, <2>2
<1>8. ASSUME NEW f \in Fields, NEW ws \in ListArgs, setfilearray(f, ws)
      PROVE  TypeOK' /\ SlotConsistent'
  <2> DEFINE o == getobject(FieldScope[f])
  <2>1. CASE o = Nil \/ ws \notin DOMAIN Expand BY <1>8, <1>b, <2>1 DEF setfilearray
  <2>2. CASE o # Nil /\ ws \in DOMAIN Expand
    <3>1. o \in Objects BY <2>2, GetObjectType
    <3>2. Set(o, f, store[o][f] \o Expand[ws], "ok") BY <1>8, <2>2 DEF setfilearray
    <3>3. Expand[ws] \in Seq(Words) /\ store[o][f] \in Seq(Words)
      BY <2>2, <3>1, FieldAssumption DEF TypeOK
    <3>4. store[o][f] \o Expand[ws] \in Seq(Words) BY <3>3, ConcatProperties
    <3> HIDE DEF o
    <3> QED BY <1>c, <3>1, <3>2, <3>4
  <2> QED BY <2>1, <2>2
<1> QED BY <1>1, <1>2, <1>3, <1>4, <1>5, <1>6, <1>7, <1>8 DEF Next

\* Type correctness of the session (solution(), project(), usage(),
\* configuration() and the setters), for scripts of any length.
THEOREM TypeCorrect == Spec => [](TypeOK /\ SlotConsistent)
<1>1. Init => TypeOK /\ SlotConsistent
  <2> SUFFICES ASSUME Init PROVE TypeOK /\ SlotConsistent OBVIOUS
  <2>1. TypeOK
    BY BoundAssumption DEF Init, TypeOK, Containers, Objects
  <2>2. SlotConsistent
    <3> SUFFICES ASSUME NEW s \in Solutions PROVE SlotTable(projects[s], slot[s])
      BY DEF SlotConsistent
    <3>1. projects[s] = << >> /\ \A n \in Names : slot[s][n] = 0 BY DEF Init
    <3>2. 1 .. Len(projects[s]) = {} BY <3>1
    <3> QED BY <3>1, <3>2 DEF SlotTable
  <2> QED BY <2>1, <2>2
<1>2. TypeOK /\ SlotConsistent /\ [Next]_vars => (TypeOK /\ SlotConsistent)'
  <2> SUFFICES ASSUME TypeOK, SlotConsistent, [Next]_vars
               PROVE  (TypeOK /\ SlotConsistent)'
    OBVIOUS
  <2>1. CASE Next /\ ~Caught BY <2>1, CallsKeepSlots
  <2>2. CASE UNCHANGED vars
    BY <2>2 DEF vars, TypeOK, SlotConsistent
  <2>3. CASE Caught BY <2>3 DEF Caught, TypeOK, SlotConsistent
  <2> QED BY <2>1, <2>2, <2>3
<1> QED BY <1>1, <1>2, PTL DEF Spec

\* Consistent slots leave room for one project of each kind per name.
LEMMA SlotsDetermineProjects == TypeOK /\ SlotConsistent => OneOfEachKind
<1> SUFFICES ASSUME TypeOK, SlotConsistent, NEW s \in Solutions,
                    NEW i \in 1 .. Len(projects[s]), NEW j \in 1 .. Len(projects[s]),
                    projects[s][i].name = projects[s][j].name,
                    projects[s][i].usage = projects[s][j].usage
             PROVE  i = j
  BY DEF OneOfEachKind
<1>1. SlotTable(projects[s], slot[s]) BY DEF SlotConsistent
<1>2. LET cur == slot[s][projects[s][i].name]
      IN /\ cur = i \/ (/\ projects[s][i].usage /\ ~projects[s][cur].usage
                        /\ projects[s][cur].usageProj = i)
         /\ cur = j \/ (/\ projects[s][j].usage /\ ~projects[s][cur].usage
                        /\ projects[s][cur].usageProj = j)
  <2> DEFINE cur == slot[s][projects[s][i].name]
  <2>1. cur = i \/ (/\ projects[s][i].usage /\ ~projects[s][cur].usage
                    /\ projects[s][cur].usageProj = i)
    BY <1>1, SMTT(60) DEF SlotTable
  <2>2. cur = j \/ (/\ projects[s][j].usage /\ ~projects[s][cur].usage
                    /\ projects[s][cur].usageProj = j)
    BY <1>1, SMTT(60) DEF SlotTable
  <2> QED BY <2>1, <2>2
<1> QED BY <1>2

\* No sequence of project() and usage() calls gives a name two regular or two
\* usage projects in a solution, or loses one of them.
THEOREM ProjectsUnique == Spec => []OneOfEachKind
BY TypeCorrect, SlotsDetermineProjects, PTL

-----------------------------------------------------------------------------
(* The current container and block *)

\* The block opened in a container is its last one.
LEMMA OpenBlockLast ==
  ASSUME TypeOK, NEW c \in Containers, NEW t \in Terms, OpenBlock(c, t)
  PROVE  /\ config' = <<c[1], c[2], Len(blocks'[c])>>
         /\ Len(blocks'[c]) > 0
<1>1. blocks[c] \in Seq(Terms) BY DEF TypeOK
<1>2. blocks'[c] = Append(blocks[c], t) BY DEF OpenBlock, TypeOK
<1>3. Len(blocks'[c]) = Len(blocks[c]) + 1 /\ Len(blocks[c]) \in Nat
  BY <1>1, <1>2
<1> QED BY <1>3 DEF OpenBlock, NewBlock

\* A call that opens a block in the container it makes current re-establishes
\* the relation between the two globals.
LEMMA OpenBlockCurrent ==
  ASSUME TypeOK, NEW c \in Containers, NEW t \in Terms, OpenBlock(c, t),
         container' = c,
         c[2] <= Len(projects'[c[1]]),
         \E i \in 1 .. Len(list') : list'[i] = c[1]
  PROVE  CurrentIsLast'
<1>1. config' = <<c[1], c[2], Len(blocks'[c])>> /\ Len(blocks'[c]) > 0
  BY OpenBlockLast
<1>2. config' \in Objects BY OpenBlockType
<1>3. Nil \notin Containers /\ Nil \notin Objects
  <2>1. Objects \subseteq Solutions \X (0 .. MaxProjects) \X Nat BY BoundAssumption DEF Objects
  <2> QED BY <2>1, NilAssumption DEF Containers
<1>4. container' # Nil /\ config' # Nil BY <1>2, <1>3
<1> QED BY <1>1, <1>4 DEF CurrentIsLast

\* A call that touches neither the containers nor the globals keeps it.
LEMMA CurrentFrame ==
  ASSUME CurrentIsLast, UNCHANGED <<list, projects, blocks, container, config>>
  PROVE  CurrentIsLast'
BY DEF CurrentIsLast

\* Every call keeps the current block the last of the current container.
LEMMA CallsKeepCurrent ==
  ASSUME TypeOK, SlotConsistent, CurrentIsLast, Next
  PROVE  CurrentIsLast'
<1> USE NilAssumption
<1>b. ASSUME NEW st, Raise(st) PROVE CurrentIsLast'
  BY <1>b, CurrentFrame DEF Raise
<1>c. ASSUME NEW o, NEW f, NEW v, NEW st, Set(o, f, v, st) PROVE CurrentIsLast'
  BY <1>c, CurrentFrame DEF Set
<1>d. ASSUME ParentSolution # Nil
      PROVE  /\ ParentSolution \in Solutions
             /\ \E i \in 1 .. Len(list) : list[i] = ParentSolution
  <2>1. container # Nil /\ ParentSolution = container[1] BY <1>d DEF ParentSolution
  <2> QED BY <2>1, <1>d, ParentSolutionType DEF CurrentIsLast
<1>e. ASSUME NEW s \in Solutions, NEW n \in Names, NEW u \in BOOLEAN,
             createproject(n, s, u), \E i \in 1 .. Len(list) : list[i] = s
      PROVE  CurrentIsLast'
  <2> DEFINE i == Len(projects[s]) + 1
  <2>1. projects[s] \in Seq(Project) BY DEF TypeOK
  <2>2. i \in 0 .. MaxProjects BY <1>e, <2>1, BoundAssumption DEF createproject
  <2>3. <<s, i>> \in Containers BY <2>2 DEF Containers
  <2>4. Len(projects'[s]) = i BY <1>e, CreateProjectEffect
  <2>5. OpenBlock(<<s, i>>, EmptyTerms) /\ container' = <<s, i>> /\ list' = list
    BY <1>e DEF createproject
  <2>6. i <= Len(projects'[s]) BY <2>2, <2>4
  <2> HIDE DEF i
  <2> QED BY <1>e, <2>3, <2>5, <2>6, OpenBlockCurrent
<1>1. ASSUME NEW s \in Solutions, Solution(s) PROVE CurrentIsLast'
  <2>1. <<s, 0>> \in Containers BY BoundAssumption DEF Containers
  <2>2. \E i \in 1 .. Len(list') : list'[i] = s
    <3>1. list \in Seq(Solutions) BY DEF TypeOK
    <3>2. CASE Listed(s) BY <1>1, <3>2 DEF Solution, Listed
    <3>3. CASE ~Listed(s)
      <4>1. list' = Append(list, s) BY <1>1, <3>3 DEF Solution, NewSolution
      <4>2. Len(list') = Len(list) + 1 /\ list'[Len(list) + 1] = s
        BY <3>1, <4>1
      <4>3. Len(list) + 1 \in 1 .. Len(list') BY <3>1, <4>2
      <4> QED BY <4>2, <4>3
    <3> QED BY <3>2, <3>3
  <2>3. 0 <= Len(projects'[s])
    BY <1>1 DEF Solution, TypeOK
  <2> QED BY <1>1, <2>1, <2>2, <2>3, OpenBlockCurrent DEF Solution
<1>2. ASSUME NEW n \in Names, project(n) PROVE CurrentIsLast'
  <2> DEFINE s == ParentSolution
  <2>1. CASE s = Nil BY <1>2, <1>b, <2>1 DEF project
  <2>2. CASE s # Nil /\ NeedsProject(s, n)
    <3>1. createproject(n, s, FALSE) BY <1>2, <2>2 DEF project
    <3> QED BY <1>d, <1>e, <2>2, <3>1
  <2>3. CASE s # Nil /\ ~NeedsProject(s, n)
    <3> DEFINE i == slot[s][n]
    <3>1. s \in Solutions /\ i \in 0 .. MaxProjects
      BY <2>3, ParentSolutionType DEF TypeOK
    <3>2. i <= Len(projects[s])
      BY <2>3, <3>1, SMTT(60) DEF NeedsProject, SlotConsistent, SlotTable
    <3>3. Reopen(s, i) BY <1>2, <2>3 DEF project
    <3>4. <<s, i>> \in Containers BY <3>1 DEF Containers
    <3>5. \E k \in 1 .. Len(list) : list[k] = s BY <1>d, <2>3
    <3>6. /\ OpenBlock(<<s, i>>, EmptyTerms) /\ container' = <<s, i>>
          /\ list' = list /\ projects' = projects
      BY <3>3 DEF Reopen
    <3> HIDE DEF s, i
    <3> QED BY <3>2, <3>4, <3>5, <3>6, OpenBlockCurrent
  <2> QED BY <2>1, <2>2, <2>3
<1>3. ASSUME NEW n \in Names, usage(n) PROVE CurrentIsLast'
  <2> DEFINE s == ParentSolution
  <2>1. CASE s = Nil \/ ~NeedsUsage(s, n) BY <1>3, <1>b, <2>1 DEF usage
  <2>2. CASE s # Nil /\ NeedsUsage(s, n)
    <3>1. createproject(n, s, TRUE) BY <1>3, <2>2 DEF usage
    <3> QED BY <1>d, <1>e, <2>2, <3>1
  <2> QED BY <2>1, <2>2
<1>4. ASSUME NEW t \in Terms, Configuration(t) PROVE CurrentIsLast'
  <2>1. CASE container = Nil BY <1>4, <1>b, <2>1 DEF Configuration
  <2>2. CASE container # Nil
    <3>1. container \in Containers BY <2>2 DEF TypeOK
    <3>2. /\ OpenBlock(container, t) /\ container' = container
          /\ list' = list /\ projects' = projects
      BY <1>4, <2>2 DEF Configuration
    <3>3. /\ container[2] <= Len(projects[container[1]])
          /\ \E i \in 1 .. Len(list) : list[i] = container[1]
      BY <2>2 DEF CurrentIsLast
    <3> QED BY <3>1, <3>2, <3>3, OpenBlockCurrent
  <2> QED BY <2>1, <2>2
<1>5. ASSUME NEW f \in Fields, NEW w \in Words, setstring(f, w) PROVE CurrentIsLast'
  BY <1>5, <1>b, <1>c DEF setstring
<1>6. ASSUME NEW f \in Fields, NEW ws \in ListArgs, setarray(f, ws) PROVE CurrentIsLast'
  BY <1>6, <1>b, <1>c DEF setarray
<1>7. ASSUME NEW f \in Fields, NEW ws \in ListArgs, NEW t \in BOOLEAN,
             setkeyvalue(f, ws, t)
      PROVE  CurrentIsLast'
  BY <1>7, <1>b, <1>c DEF setkeyvalue
<1>8. ASSUME NEW f \in Fields, NEW ws \in ListArgs, setfilearray(f, ws)
      PROVE  CurrentIsLast'
  BY <1>8, <1>b, <1>c DEF setfilearray
<1>9. ASSUME Caught PROVE CurrentIsLast' BY <1>9, CurrentFrame DEF Caught
<1> QED BY <1>1, <1>2, <1>3, <1>4, <1>5, <1>6, <1>7, <1>8, <1>9 DEF Next

\* CurrentConfiguration is always the last block of CurrentContainer, for
\* every script: a value can never reach a block opened earlier.
THEOREM CurrentCorrect == Spec => []CurrentIsLast
<1>1. Init => CurrentIsLast BY DEF Init, CurrentIsLast
<1>2. TypeOK /\ SlotConsistent /\ CurrentIsLast /\ [Next]_vars => CurrentIsLast'
  <2> SUFFICES ASSUME TypeOK, SlotConsistent, CurrentIsLast, [Next]_vars
               PROVE  CurrentIsLast'
    OBVIOUS
  <2>1. CASE Next BY <2>1, CallsKeepCurrent
  <2>2. CASE UNCHANGED vars BY <2>2, CurrentFrame DEF vars
  <2> QED BY <2>1, <2>2
<1> QED BY <1>1, <1>2, TypeCorrect, PTL DEF Spec

-----------------------------------------------------------------------------
(* Frame properties *)

\* Opening a block appends it to its container.
LEMMA OpenBlockAppends ==
  ASSUME TypeOK, NEW c \in Containers, NEW t, OpenBlock(c, t), container' = c
  PROVE  BlocksAppended
<1> SUFFICES ASSUME NEW d \in Containers, blocks'[d] # blocks[d]
             PROVE  d = container' /\ Prefix(blocks[d], blocks'[d])
  BY DEF BlocksAppended
<1>1. blocks' = [blocks EXCEPT ![c] = Append(@, t)] BY DEF OpenBlock
<1>2. d = c BY <1>1 DEF TypeOK
<1>3. blocks[c] \in Seq(Terms) /\ blocks'[c] = Append(blocks[c], t)
  BY <1>1 DEF TypeOK
<1>4. Prefix(blocks[c], blocks'[c]) BY <1>3 DEF Prefix
<1> QED BY <1>2, <1>4

\* One step of the script, seen from the blocks and fields it must not touch.
LEMMA CallsKeepHistory ==
  ASSUME TypeOK, CurrentIsLast, Next, ~Caught
  PROVE  BlocksAppended /\ StoreFrame /\ FailureFrame
<1> USE NilAssumption
<1>0. status = "ok"
  <2>1. Call
    BY Zenon DEF Next, Solution, project, usage, Configuration, setstring,
                 setarray, setfilearray, setkeyvalue
  <2> QED BY <2>1 DEF Call
<1>a. ASSUME NEW st, Raise(st) PROVE BlocksAppended /\ StoreFrame /\ FailureFrame
  BY <1>a DEF Raise, BlocksAppended, StoreFrame, FailureFrame
<1>b. ASSUME NEW f \in Fields, NEW v, NEW st \in {"ok", "error"},
             getobject(FieldScope[f]) # Nil,
             Set(getobject(FieldScope[f]), f, v, st),
             st = "error" => FieldKind[f] = "list"
      PROVE  BlocksAppended /\ StoreFrame /\ FailureFrame
  <2> DEFINE x == getobject(FieldScope[f])
  <2>1. x \in Objects BY <1>b, GetObjectType
  <2>2. /\ store' = [store EXCEPT ![x][f] = v] /\ status' = st
        /\ UNCHANGED <<list, projects, slot, blocks, container, config>>
    BY <1>b DEF Set
  <2>3. x \in {config, <<container[1], container[2], 0>>, <<container[1], 0, 0>>}
    BY <1>b DEF getobject
  <2> HIDE DEF x
  <2>4. /\ \A o \in Objects : store'[o] # store[o] => o = x
        /\ \A o \in Objects, h \in Fields : store'[o][h] # store[o][h] => o = x /\ h = f
    BY <2>1, <2>2 DEF TypeOK
  <2>5. StoreFrame BY <2>3, <2>4 DEF StoreFrame
  <2>6. FailureFrame BY <1>b, <2>2, <2>4 DEF FailureFrame, x
  <2>7. BlocksAppended BY <2>2 DEF BlocksAppended
  <2> QED BY <2>5, <2>6, <2>7
<1>c. ASSUME NEW c \in Containers, OpenBlock(c, EmptyTerms), container' = c,
             UNCHANGED <<store, status>>
      PROVE  BlocksAppended /\ StoreFrame /\ FailureFrame
  BY <1>0, <1>c, OpenBlockAppends DEF StoreFrame, FailureFrame
<1>d. ASSUME NEW n \in Names, NEW u \in BOOLEAN, ParentSolution # Nil,
             createproject(n, ParentSolution, u)
      PROVE  BlocksAppended /\ StoreFrame /\ FailureFrame
  <2> DEFINE c == <<ParentSolution, Len(projects[ParentSolution]) + 1>>
  <2>1. ParentSolution \in Solutions BY <1>d, ParentSolutionType
  <2>2. c \in Containers
    <3>1. Len(projects[ParentSolution]) + 1 <= MaxProjects BY <1>d DEF createproject
    <3>2. Len(projects[ParentSolution]) \in Nat BY <2>1 DEF TypeOK
    <3> QED BY <2>1, <3>1, <3>2, BoundAssumption DEF Containers
  <2>3. OpenBlock(c, EmptyTerms) /\ container' = c /\ UNCHANGED <<store, status>>
    BY <1>d DEF createproject
  <2> QED BY <1>c, <2>2, <2>3
<1>1. ASSUME NEW s \in Solutions, Solution(s)
      PROVE  BlocksAppended /\ StoreFrame /\ FailureFrame
  <2>1. <<s, 0>> \in Containers BY BoundAssumption DEF Containers
  <2> QED BY <1>1, <1>c, <2>1 DEF Solution
<1>2. ASSUME NEW n \in Names, project(n)
      PROVE  BlocksAppended /\ StoreFrame /\ FailureFrame
  <2> DEFINE s == ParentSolution
  <2>1. CASE s = Nil BY <1>2, <1>a, <2>1 DEF project
  <2>2. CASE s # Nil /\ NeedsProject(s, n) BY <1>2, <1>d, <2>2 DEF project
  <2>3. CASE s # Nil /\ ~NeedsProject(s, n)
    <3>1. Reopen(s, slot[s][n]) BY <1>2, <2>3 DEF project
    <3>2. s \in Solutions BY <2>3, ParentSolutionType
    <3>3. slot[s][n] \in 0 .. MaxProjects BY <3>2 DEF TypeOK
    <3>4. <<s, slot[s][n]>> \in Containers BY <3>2, <3>3 DEF Containers
    <3> QED BY <1>c, <3>1, <3>4 DEF Reopen
  <2> QED BY <2>1, <2>2, <2>3
<1>3. ASSUME NEW n \in Names, usage(n)
      PROVE  BlocksAppended /\ StoreFrame /\ FailureFrame
  <2> DEFINE s == ParentSolution
  <2>1. CASE s = Nil \/ ~NeedsUsage(s, n) BY <1>3, <1>a, <2>1 DEF usage
  <2>2. CASE s # Nil /\ NeedsUsage(s, n) BY <1>3, <1>d, <2>2 DEF usage
  <2> QED BY <2>1, <2>2
<1>4. ASSUME NEW t \in Terms, Configuration(t)
      PROVE  BlocksAppended /\ StoreFrame /\ FailureFrame
  <2>1. CASE container = Nil BY <1>4, <1>a, <2>1 DEF Configuration
  <2>2. CASE container # Nil
    <3>1. container \in Containers BY <2>2 DEF TypeOK
    <3>2. /\ OpenBlock(container, t)
          /\ UNCHANGED <<list, projects, slot, store, container>>
      BY <1>4, <2>2 DEF Configuration
    <3>3. BlocksAppended BY <3>1, <3>2, OpenBlockAppends
    <3>4. FailureFrame
      <4> SUFFICES ASSUME status' # "ok" PROVE HalfBlock
        BY <3>2 DEF FailureFrame
      <4>1. t \in BadTerms BY <1>4, <2>2 DEF Configuration
      <4> QED BY <2>2, <3>2, <4>1 DEF OpenBlock, HalfBlock
    <3> QED BY <3>2, <3>3, <3>4 DEF StoreFrame
  <2> QED BY <2>1, <2>2
<1>5. ASSUME NEW f \in Fields, NEW w \in Words, setstring(f, w)
      PROVE  BlocksAppended /\ StoreFrame /\ FailureFrame
  BY <1>5, <1>a, <1>b DEF setstring
<1>6. ASSUME NEW f \in Fields, NEW ws \in ListArgs, setarray(f, ws)
      PROVE  BlocksAppended /\ StoreFrame /\ FailureFrame
  BY <1>6, <1>a, <1>b DEF setarray
<1>7. ASSUME NEW f \in Fields, NEW ws \in ListArgs, NEW t \in BOOLEAN,
             setkeyvalue(f, ws, t)
      PROVE  BlocksAppended /\ StoreFrame /\ FailureFrame
  BY <1>7, <1>a, <1>b DEF setkeyvalue
<1>8. ASSUME NEW f \in Fields, NEW ws \in ListArgs, setfilearray(f, ws)
      PROVE  BlocksAppended /\ StoreFrame /\ FailureFrame
  BY <1>8, <1>a, <1>b DEF setfilearray
<1> QED BY <1>1, <1>2, <1>3, <1>4, <1>5, <1>6, <1>7, <1>8 DEF Next

\* No call of a script rewrites what an earlier call said: blocks are only
\* appended and values only reach current objects.
THEOREM HistoryKept == Spec => OnlyCurrentChanges
<1>1. Caught => BlocksAppended /\ StoreFrame
  BY DEF Caught, BlocksAppended, StoreFrame
<1>2. TypeOK /\ CurrentIsLast /\ [Next]_vars => [BlocksAppended /\ StoreFrame]_vars
  BY <1>1, CallsKeepHistory
<1> QED BY <1>2, TypeCorrect, CurrentCorrect, PTL DEF Spec, OnlyCurrentChanges

\* A call that raises an error changes nothing, but for the part of a list that
\* setarray had inserted when it met the refused value and for the block that
\* configuration() opened in the current container before it read its terms.
THEOREM FailuresKeepState == Spec => FailedCallsLeaveNoTrace
<1>1. Caught => FailureFrame BY DEF Caught, FailureFrame
<1>2. TypeOK /\ CurrentIsLast /\ [Next]_vars => [FailureFrame]_vars
  BY <1>1, CallsKeepHistory
<1> QED BY <1>2, TypeCorrect, CurrentCorrect, PTL DEF Spec, FailedCallsLeaveNoTrace
=============================================================================
