----------------------------- MODULE TreeProofs -----------------------------
(***************************************************************************)
(* Proofs about Tree, for any names, any lists of files and any order of   *)
(* names: a node hangs in one list, that of its parent, while the          *)
(* traversals sort, insert and remove; a path is split over two nodes only *)
(* by a namesake; a traversal calls back once for every node; and in the   *)
(* end every file that does not give way to another is a leaf in its place.*)
(* ShapeInv says what the keyed part of a list of children, which remove   *)
(* leaves alone and onbranch reads, refers to; VisitInv what the calls of  *)
(* dochildren that have not returned have behind them; PlaceInv, HangInv   *)
(* and FileInv where nodes are, which ones hang, and which are files'.     *)
(***************************************************************************)
EXTENDS Tree, ListProofs, FiniteSetTheorems, SequenceTheorems, TLAPS

TypeOK ==
  /\ files \in Projects /\ k \in Nat \ {0} /\ i \in Nat
  /\ size \in Nodes /\ cur \in 1 .. size
  /\ name \in [Nodes -> Names \cup {Nil}]
  /\ path \in [Nodes -> Seq(Names \cup {Up, Slash})]
  /\ parent \in [Nodes -> Nodes \cup {Nil}]
  /\ kids \in [Nodes -> Seq(Nodes)]
  /\ named \in [Nodes -> [Names -> Nodes \cup {Nil}]]
  /\ pc \in {"add", "start", "walk", "regroup", "done", "overflow"}
  /\ pass \in {"sort", "localize", "list"}
  /\ frames \in Seq([node : Nodes, i : Nat \ {0}])
  /\ j \in Nat \ {0}

\* Only nodes that were made are linked, and they have names.
Made ==
  /\ name[Root] = Nil
  /\ \A n \in 2 .. size : name[n] \in Names
  /\ \A p \in Nodes : \A x \in DOMAIN kids[p] : kids[p][x] \in 2 .. size
  /\ \A p \in Nodes : p > size => Len(kids[p]) = 0 /\ name[p] = Nil
  /\ \A p \in Nodes : \A x \in Names : named[p][x] # Nil => named[p][x] \in 2 .. size

InListOnce ==
  \A p \in Nodes : \A x, y \in DOMAIN kids[p] : kids[p][x] = kids[p][y] => x = y

\* The files that were regrouped still hang in the directory that dissolves.
InListOfParent ==
  \A p \in Nodes : \A x \in DOMAIN kids[p] :
    (p \in Dissolving => x >= j) => parent[kids[p][x]] = p

NoNestedLproj ==
  \A p \in Nodes : \A x \in DOMAIN kids[p] :
    name[p] \in Lproj => name[kids[p][x]] \notin Lproj

\* The keyed part refers to a child, unless the directory has dissolved.
NamedChild ==
  \A p \in Nodes : \A x \in Names :
    LET c == named[p][x]
    IN c # Nil =>
         /\ name[p] \notin Lproj => parent[c] = p
         /\ name[c] = x \/ name[c] \notin Lproj

\* The node that add has returned is the one of the directory just added.
CursorNamed ==
  pc = "add" =>
    /\ k <= Len(files) => i <= Len(files[k])
    /\ cur # Root => k <= Len(files) /\ \E x \in 1 .. i : name[cur] = files[k][x]

\* The directory that dissolves hangs in its parent.
RegroupInv ==
  pc = "regroup" =>
    /\ Len(frames) > 0
    /\ name[Top.node] \in Lproj
    /\ parent[Top.node] \in Nodes
    /\ name[parent[Top.node]] \notin Lproj
    /\ \E x \in DOMAIN kids[parent[Top.node]] : kids[parent[Top.node]][x] = Top.node

\* While files are added the keyed part refers to children, by their names.
NamedExact ==
  pc = "add" =>
    \A p \in Nodes : \A x \in Names :
      named[p][x] # Nil => parent[named[p][x]] = p /\ name[named[p][x]] = x

ShapeInv ==
  /\ TypeOK /\ Made /\ InListOnce /\ InListOfParent /\ NoNestedLproj
  /\ NamedChild /\ NamedExact /\ CursorNamed /\ RegroupInv

\* Nor has a path that was added a second time lost a name.
LatestNamed ==
  pc = "add" =>
    \A n \in 2 .. size :
      /\ Len(path[n]) > 0 /\ name[n] = path[n][Len(path[n])]
      /\ parent[n] \in Nodes
      /\ named[parent[n]][name[n]] \in n .. size

-----------------------------------------------------------------------------
(* The operators on lists and frames *)

USE NodeAssumption, NameAssumption DEF Nodes, Root, Nil

Frame == [node : Nodes, i : Nat \ {0}]

LEMMA SeqDomain ==
  ASSUME NEW S, NEW s \in Seq(S)
  PROVE  /\ Len(s) \in Nat /\ DOMAIN s = 1 .. Len(s)
         /\ \A x \in 1 .. Len(s) : s[x] \in S
  OBVIOUS

LEMMA AppendProps ==
  ASSUME NEW S, NEW s \in Seq(S), NEW e \in S
  PROVE  /\ Append(s, e) \in Seq(S)
         /\ DOMAIN Append(s, e) = 1 .. Len(s) + 1
         /\ \A x \in 1 .. Len(s) : Append(s, e)[x] = s[x]
         /\ Append(s, e)[Len(s) + 1] = e
  OBVIOUS

\* A list without an element has its other elements, in new positions.
LEMMA WithoutProps ==
  ASSUME NEW S, NEW s \in Seq(S), NEW n, \E x \in DOMAIN s : s[x] = n,
         \A x, y \in DOMAIN s : s[x] = s[y] => x = y
  PROVE  /\ Without(s, n) \in Seq(S)
         /\ \A x, y \in DOMAIN Without(s, n) :
              Without(s, n)[x] = Without(s, n)[y] => x = y
         /\ \A x \in DOMAIN Without(s, n) :
              Without(s, n)[x] # n /\ \E y \in DOMAIN s : s[y] = Without(s, n)[x]
  <1> DEFINE m == CHOOSE m \in DOMAIN s : s[m] = n
             f(x) == IF x < m THEN x ELSE x + 1
             t == [x \in 1 .. Len(s) - 1 |-> s[f(x)]]
  <1>1. Len(s) \in Nat /\ DOMAIN s = 1 .. Len(s) /\ \A x \in 1 .. Len(s) : s[x] \in S
    BY SeqDomain
  <1>2. m \in 1 .. Len(s) /\ s[m] = n BY <1>1
  <1>3. Without(s, n) = t BY DEF Without
  <1> HIDE DEF m
  <1>4. \A x \in 1 .. Len(s) - 1 : f(x) \in 1 .. Len(s) /\ f(x) # m BY <1>1, <1>2
  <1>5. \A x, y \in 1 .. Len(s) - 1 : f(x) = f(y) => x = y BY <1>1, <1>2
  <1> HIDE DEF f
  <1>6. DOMAIN t = 1 .. Len(s) - 1 /\ t \in Seq(S) BY <1>1, <1>2, <1>4
  <1> QED BY <1>1, <1>2, <1>3, <1>4, <1>5, <1>6

\* An arrangement has the elements of the list, each once.
LEMMA ArrangementProps ==
  ASSUME NEW S, NEW s \in Seq(S), NEW t \in Arrangements(s),
         \A x, y \in DOMAIN s : s[x] = s[y] => x = y
  PROVE  /\ t \in Seq(S) /\ DOMAIN t = DOMAIN s
         /\ \A x, y \in DOMAIN t : t[x] = t[y] => x = y
         /\ \A x \in DOMAIN t : \E y \in DOMAIN s : s[y] = t[x]
  <1>1. Len(s) \in Nat /\ DOMAIN s = 1 .. Len(s) /\ \A x \in 1 .. Len(s) : s[x] \in S
    BY SeqDomain
  <1>2. t \in [DOMAIN s -> {s[x] : x \in DOMAIN s}] BY DEF Arrangements
  <1>3. \A x, y \in DOMAIN t : t[x] = t[y] => x = y BY <1>2 DEF Arrangements
  <1>4. \A x \in DOMAIN t : \E y \in DOMAIN s : s[y] = t[x] BY <1>2
  <1>5. t \in [1 .. Len(s) -> S] BY <1>1, <1>2
  <1> QED BY <1>1, <1>2, <1>3, <1>4, <1>5

\* The frames stay frames.
LEMMA AdvanceFrames ==
  ASSUME NEW fs \in Seq(Frame), Len(fs) > 0, NEW n
  PROVE  Advance(fs, n) \in Seq(Frame)
  <1>1. fs[Len(fs)] \in Frame BY SeqDomain
  <1>2. [fs EXCEPT ![Len(fs)].i = @ + 1] \in Seq(Frame) BY <1>1 DEF Frame
  <1> QED BY <1>2 DEF Advance

LEMMA ButLast ==
  ASSUME NEW S, NEW s \in Seq(S), Len(s) > 0
  PROVE  /\ SubSeq(s, 1, Len(s) - 1) \in Seq(S)
         /\ Len(SubSeq(s, 1, Len(s) - 1)) = Len(s) - 1
         /\ s[Len(s)] \in S
  <1>1. Len(s) \in Nat /\ Len(s) >= 1 /\ \A x \in 1 .. Len(s) : s[x] \in S BY SeqDomain
  <1> DEFINE l == Len(s) - 1
  <1>2. l \in Nat /\ \A x \in 1 .. l : s[x] \in S BY <1>1
  <1>3. s[Len(s)] \in S BY <1>1
  <1>4. Len(s) - 1 = l OBVIOUS
  <1> HIDE DEF l
  <1>5. SubSeq(s, 1, l) \in Seq(S) /\ Len(SubSeq(s, 1, l)) = l BY <1>2, SubSeqProperties
  <1> QED BY <1>3, <1>4, <1>5

LEMMA RestFrames ==
  ASSUME frames \in Seq(Frame), Len(frames) > 0
  PROVE  /\ Rest \in Seq(Frame) /\ Len(Rest) = Len(frames) - 1
         /\ Top \in Frame
  BY ButLast DEF Rest, Top

-----------------------------------------------------------------------------
(* The steps of tree.add *)

LEMMA AddAbsoluteShape == ASSUME ShapeInv, AddAbsolute PROVE ShapeInv'
  BY DEF ShapeInv, AddAbsolute, fields, walk, TypeOK, Made, InListOnce, InListOfParent,
     NoNestedLproj, NamedChild, NamedExact, CursorNamed, RegroupInv, Dissolving, Top

LEMMA AllAddedShape == ASSUME ShapeInv, AllAdded PROVE ShapeInv'
  BY DEF ShapeInv, AllAdded, fields, walk, TypeOK, Made, InListOnce, InListOfParent,
     NoNestedLproj, NamedChild, NamedExact, CursorNamed, RegroupInv, Dissolving, Top

\* The components of the path that is added.
LEMMA FileLists ==
  ASSUME ShapeInv, k <= Len(files)
  PROVE  /\ files[k] \in Seq(Names \cup {Up, Slash}) /\ Len(files[k]) \in Nat
         /\ Len(files) \in Nat /\ k \in DOMAIN files
         /\ DOMAIN files[k] = 1 .. Len(files[k])
  <1>1. files \in Seq(Seq(Names \cup {Up, Slash})) BY PathAssumption DEF ShapeInv, TypeOK
  <1>2. Len(files) \in Nat /\ DOMAIN files = 1 .. Len(files) BY <1>1, SeqDomain
  <1>3. k \in 1 .. Len(files) BY <1>2 DEF ShapeInv, TypeOK
  <1>4. files[k] \in Seq(Names \cup {Up, Slash}) BY <1>1, <1>3, SeqDomain
  <1> QED BY <1>2, <1>3, <1>4, SeqDomain

\* A step of add that leaves the tree alone and moves the cursor.
LEMMA CursorShape ==
  ASSUME ShapeInv, pc = "add", UNCHANGED <<files, name, path, parent, kids, named, size, pc, walk>>,
         k' \in Nat \ {0}, i' \in Nat, cur' \in 1 .. size, CursorNamed'
  PROVE  ShapeInv'
  BY DEF ShapeInv, walk, TypeOK, Made, InListOnce, InListOfParent,
     NoNestedLproj, NamedChild, NamedExact, RegroupInv, Dissolving, Top

LEMMA AddUpShape == ASSUME ShapeInv, AddUp PROVE ShapeInv'
  <1>1. pc = "add" /\ k <= Len(files) /\ i < Len(files[k]) /\ i' = i + 1
        /\ UNCHANGED <<files, k, cur, name, path, parent, kids, named, size, pc, walk>>
    BY DEF AddUp, AddsTo, fields
  <1>2. i \in Nat /\ k \in Nat \ {0} /\ cur \in 1 .. size BY DEF ShapeInv, TypeOK
  <1>3. Len(files[k]) \in Nat BY <1>1, FileLists
  <1>4. i' \in Nat /\ i' <= Len(files[k]) /\ 1 .. i \subseteq 1 .. i' BY <1>1, <1>2, <1>3
  <1>5. CursorNamed BY DEF ShapeInv
  <1>6. CursorNamed' BY <1>1, <1>4, <1>5 DEF CursorNamed
  <1> QED BY <1>1, <1>2, <1>4, <1>6, CursorShape

LEMMA FileAddedShape == ASSUME ShapeInv, FileAdded PROVE ShapeInv'
  <1>1. pc = "add" /\ k' = k + 1 /\ i' = 0 /\ cur' = Root
        /\ UNCHANGED <<files, name, path, parent, kids, named, size, pc, walk>>
    BY DEF FileAdded
  <1>2. k \in Nat \ {0} /\ files \in Seq(Seq(Names \cup {Up, Slash})) /\ size \in Nodes
    BY PathAssumption DEF ShapeInv, TypeOK
  <1>3. k + 1 <= Len(files) => Len(files[k + 1]) \in Nat
    <2>1. Len(files) \in Nat BY <1>2, SeqDomain
    <2>2. SUFFICES ASSUME k + 1 <= Len(files) PROVE Len(files[k + 1]) \in Nat OBVIOUS
    <2>3. k + 1 \in 1 .. Len(files) BY <1>2, <2>1, <2>2
    <2>4. files[k + 1] \in Seq(Names \cup {Up, Slash}) BY <1>2, <2>3, SeqDomain
    <2> QED BY <2>4, SeqDomain
  <1>4. CursorNamed' BY <1>1, <1>3 DEF CursorNamed
  <1> QED BY <1>1, <1>2, <1>4, CursorShape

LEMMA AddExistingShape == ASSUME ShapeInv, AddExisting PROVE ShapeInv'
  <1>1. /\ pc = "add" /\ k <= Len(files) /\ i < Len(files[k]) /\ i' = i + 1
        /\ UNCHANGED <<files, k, name, path, parent, kids, named, size, pc, walk>>
        /\ Component \in Names /\ cur' = named[cur][Component] /\ cur' # Nil
    BY DEF AddExisting, AddsTo, Found, fields
  <1>2. /\ i \in Nat /\ k \in Nat \ {0} /\ cur \in 1 .. size /\ size \in Nodes
        /\ cur \in Nodes
    BY DEF ShapeInv, TypeOK
  <1>3. Len(files[k]) \in Nat BY <1>1, FileLists
  <1>4. cur' \in 2 .. size BY <1>1, <1>2 DEF ShapeInv, Made
  <1>5. name[cur'] = files[k][i + 1] BY <1>1, <1>2 DEF ShapeInv, NamedExact, Component
  <1>6. CursorNamed' BY <1>1, <1>2, <1>3, <1>5 DEF CursorNamed
  <1>7. cur' \in 1 .. size BY <1>2, <1>4
  <1> QED BY <1>1, <1>2, <1>6, <1>7, CursorShape

\* Putting a node at the end of a list leaves all other positions alone.
LEMMA InsertKids ==
  ASSUME kids \in [Nodes -> Seq(Nodes)], NEW p \in Nodes, NEW c \in Nodes,
         kids' = [kids EXCEPT ![p] = Append(@, c)]
  PROVE  /\ kids' \in [Nodes -> Seq(Nodes)]
         /\ \A q \in Nodes : q # p => kids'[q] = kids[q]
         /\ Len(kids[p]) \in Nat
         /\ \A q \in Nodes : \A x \in DOMAIN kids'[q] :
              \/ x \in DOMAIN kids[q] /\ kids'[q][x] = kids[q][x]
              \/ q = p /\ x = Len(kids[p]) + 1 /\ kids'[q][x] = c
         /\ \A q \in Nodes : \A x \in DOMAIN kids[q] :
              x \in DOMAIN kids'[q] /\ kids'[q][x] = kids[q][x] /\ x \in 1 .. Len(kids[q])
  <1>1. kids[p] \in Seq(Nodes) OBVIOUS
  <1>2. /\ Append(kids[p], c) \in Seq(Nodes)
        /\ DOMAIN Append(kids[p], c) = 1 .. Len(kids[p]) + 1
        /\ \A x \in 1 .. Len(kids[p]) : Append(kids[p], c)[x] = kids[p][x]
        /\ Append(kids[p], c)[Len(kids[p]) + 1] = c
    BY <1>1, AppendProps
  <1>3. kids'[p] = Append(kids[p], c) /\ \A q \in Nodes : q # p => kids'[q] = kids[q]
    OBVIOUS
  <1>4. \A q \in Nodes : Len(kids[q]) \in Nat /\ DOMAIN kids[q] = 1 .. Len(kids[q])
    BY SeqDomain
  <1>5. kids' \in [Nodes -> Seq(Nodes)] BY <1>2
  <1> HIDE DEF Nodes
  <1> QED BY <1>2, <1>3, <1>4, <1>5

LEMMA OlderNode ==
  ASSUME NEW s \in Nat, NEW c \in 2 .. s, s < MaxNodes
  PROVE  c \in Nodes /\ c # s + 1
  OBVIOUS

LEMMA AddNewShape == ASSUME ShapeInv, AddNew PROVE ShapeInv'
  <1> DEFINE n == size + 1
             x0 == Component
  <1>1. /\ pc = "add" /\ k <= Len(files) /\ i < Len(files[k]) /\ i' = i + 1
        /\ x0 \in Names /\ size < MaxNodes /\ size' = n /\ cur' = n
        /\ name' = [name EXCEPT ![n] = x0] /\ path' = [path EXCEPT ![n] = Prefix]
        /\ kids' = [kids EXCEPT ![cur] = Append(@, n)]
        /\ named' = [named EXCEPT ![cur][name'[n]] = n]
        /\ parent' = [parent EXCEPT ![n] = cur]
        /\ UNCHANGED <<files, k, pc, pass, frames, j>>
    BY DEF AddNew, AddsTo, insert, walk
  <1>2. /\ files \in Projects /\ k \in Nat \ {0} /\ i \in Nat /\ size \in Nodes
        /\ cur \in 1 .. size /\ cur \in Nodes
        /\ name \in [Nodes -> Names \cup {Nil}]
        /\ path \in [Nodes -> Seq(Names \cup {Up, Slash})]
        /\ parent \in [Nodes -> Nodes \cup {Nil}] /\ kids \in [Nodes -> Seq(Nodes)]
        /\ named \in [Nodes -> [Names -> Nodes \cup {Nil}]]
        /\ pass \in {"sort", "localize", "list"}
        /\ frames \in Seq([node : Nodes, i : Nat \ {0}]) /\ j \in Nat \ {0}
    BY DEF ShapeInv, TypeOK
  <1>a. /\ Made /\ InListOnce /\ InListOfParent /\ NoNestedLproj /\ NamedChild
        /\ NamedExact /\ CursorNamed
    BY DEF ShapeInv
  <1>3. n = size + 1 /\ n \in Nodes /\ n \in 2 .. n /\ 2 .. size \subseteq 2 .. n /\ n \notin 1 .. size
        /\ n # cur
    BY <1>1, <1>2
  <1> HIDE DEF n, x0
  <1>4. /\ files[k] \in Seq(Names \cup {Up, Slash}) /\ Len(files[k]) \in Nat
        /\ Len(files) \in Nat /\ k \in DOMAIN files
        /\ DOMAIN files[k] = 1 .. Len(files[k])
    BY <1>1, FileLists
  <1>5. Prefix \in Seq(Names \cup {Up, Slash})
    <2>1. \A x \in 1 .. Len(files[k]) : files[k][x] \in Names \cup {Up, Slash}
      BY <1>4, SeqDomain
    <2> QED BY <1>1, <1>2, <1>4, <2>1, SubSeqProperties, SMTT(60) DEF Prefix
  <1> HIDE DEF Nodes
  <1>6. /\ name'[n] = x0 /\ \A m \in Nodes : m # n => name'[m] = name[m]
        /\ parent'[n] = cur /\ \A m \in Nodes : m # n => parent'[m] = parent[m]
    BY <1>1, <1>2, <1>3
  <1>7. /\ named'[cur][x0] = n
        /\ \A p \in Nodes : \A x \in Names : p # cur \/ x # x0 => named'[p][x] = named[p][x]
        /\ named' \in [Nodes -> [Names -> Nodes \cup {Nil}]]
    BY <1>1, <1>2, <1>3, <1>6, SMTT(60)
  <1>8. /\ kids' \in [Nodes -> Seq(Nodes)]
        /\ \A q \in Nodes : q # cur => kids'[q] = kids[q]
        /\ Len(kids[cur]) \in Nat
        /\ \A q \in Nodes : \A x \in DOMAIN kids'[q] :
             \/ x \in DOMAIN kids[q] /\ kids'[q][x] = kids[q][x]
             \/ q = cur /\ x = Len(kids[cur]) + 1 /\ kids'[q][x] = n
    <2>1. /\ kids \in [Nodes -> Seq(Nodes)] /\ cur \in Nodes /\ n \in Nodes
          /\ kids' = [kids EXCEPT ![cur] = Append(@, n)]
      BY <1>1, <1>2, <1>3
    <2> QED BY <2>1, InsertKids
  <1>9. \A q \in Nodes : \A x \in DOMAIN kids[q] :
          kids[q][x] \in 2 .. size /\ kids[q][x] # n /\ kids[q][x] \in Nodes
    <2>1. \A m \in 2 .. size : m # n /\ m \in Nodes BY <1>2, <1>3 DEF Nodes
    <2> QED BY <1>a, <2>1 DEF Made
  <1>10. TypeOK'
    <2>1. name' \in [Nodes -> Names \cup {Nil}] BY <1>1, <1>2
    <2>2. path' \in [Nodes -> Seq(Names \cup {Up, Slash})] BY <1>1, <1>2, <1>5
    <2>3. parent' \in [Nodes -> Nodes \cup {Nil}] BY <1>1, <1>2
    <2>4. i' \in Nat /\ size' \in Nodes /\ cur' \in 1 .. size' BY <1>1, <1>2, <1>3
    <2> QED BY <1>1, <1>2, <1>7, <1>8, <2>1, <2>2, <2>3, <2>4 DEF TypeOK
  <1>11. Made'
    <2>1. name'[Root] = Nil
      <3>1. Root \in Nodes /\ Root # n BY <1>2, <1>3 DEF Nodes
      <3> QED BY <1>a, <1>6, <3>1 DEF Made
    <2>2. \A m \in 2 .. size' : name'[m] \in Names
      <3>1. \A m \in 2 .. n : m = n \/ m \in 2 .. size BY <1>2, <1>3
      <3>2. 2 .. size \subseteq Nodes BY <1>2 DEF Nodes
      <3> QED BY <1>a, <1>1, <1>3, <1>6, <3>1, <3>2 DEF Made
    <2>3. \A p \in Nodes : \A x \in DOMAIN kids'[p] : kids'[p][x] \in 2 .. size'
      BY <1>1, <1>3, <1>8, <1>9
    <2>4. \A p \in Nodes : p > size' => Len(kids'[p]) = 0 /\ name'[p] = Nil
      <3>1. \A p \in Nodes : p > n => p > size /\ p # cur /\ p # n
        BY <1>2, <1>3 DEF Nodes
      <3> QED BY <1>a, <1>1, <1>6, <1>8, <3>1 DEF Made
    <2>5. \A p \in Nodes : \A x \in Names : named'[p][x] # Nil => named'[p][x] \in 2 .. size'
      BY <1>a, <1>1, <1>3, <1>7 DEF Made
    <2> QED BY <2>1, <2>2, <2>3, <2>4, <2>5 DEF Made
  <1>12. InListOnce'
    <2>1. ASSUME NEW q \in Nodes, NEW x \in DOMAIN kids'[q], NEW y \in DOMAIN kids'[q],
                 kids'[q][x] = kids'[q][y]
          PROVE  x = y
      <3>1. \A z \in DOMAIN kids'[q] :
              \/ z \in DOMAIN kids[q] /\ kids'[q][z] = kids[q][z] /\ kids[q][z] # n
              \/ z = Len(kids[cur]) + 1 /\ kids'[q][z] = n
        BY <1>8, <1>9
      <3>2. \A u, v \in DOMAIN kids[q] : kids[q][u] = kids[q][v] => u = v
        BY <1>a DEF InListOnce
      <3> QED BY <2>1, <3>1, <3>2
    <2> QED BY <2>1 DEF InListOnce
  <1>13. Dissolving = {} /\ Dissolving' = {} BY <1>1 DEF Dissolving
  <1>14. InListOfParent'
    <2>1. \A q \in Nodes : \A x \in DOMAIN kids[q] : parent[kids[q][x]] = q
      BY <1>a, <1>13 DEF InListOfParent
    <2>2. \A q \in Nodes : \A x \in DOMAIN kids'[q] : parent'[kids'[q][x]] = q
      <3> SUFFICES ASSUME NEW q \in Nodes, NEW x \in DOMAIN kids'[q]
                   PROVE  parent'[kids'[q][x]] = q
        OBVIOUS
      <3>1. CASE x \in DOMAIN kids[q] /\ kids'[q][x] = kids[q][x]
        BY <1>6, <1>9, <2>1, <3>1
      <3>2. CASE q = cur /\ kids'[q][x] = n BY <1>6, <3>2
      <3> QED BY <1>8, <3>1, <3>2
    <2> QED BY <2>2 DEF InListOfParent
  <1>15. NoNestedLproj'
    <2>1. name[cur] \in Lproj => x0 \notin Lproj
      <3>1. SUFFICES ASSUME name[cur] \in Lproj, x0 \in Lproj PROVE FALSE OBVIOUS
      <3>2. cur # Root BY <1>a, <3>1 DEF Made
      <3>3. PICK x \in 1 .. i : name[cur] = files[k][x]
        BY <1>a, <1>1, <3>2 DEF CursorNamed
      <3>4. x \in DOMAIN files[k] /\ i + 1 \in DOMAIN files[k] /\ x # i + 1
        BY <1>1, <1>2, <1>4, <3>3
      <3>5. \A y, z \in DOMAIN files[k] :
              files[k][y] \in Lproj /\ files[k][z] \in Lproj => y = z
        BY <1>2, <1>4, PathAssumption
      <3>6. files[k][x] \in Lproj /\ files[k][i + 1] \in Lproj
        BY <3>1, <3>3 DEF x0, Component
      <3> QED BY <3>4, <3>5, <3>6
    <2>2. \A q \in Nodes : \A x \in DOMAIN kids[q] :
            name[q] \in Lproj => name[kids[q][x]] \notin Lproj
      BY <1>a DEF NoNestedLproj
    <2>3. \A q \in Nodes : \A x \in DOMAIN kids[q] : q # n
      <3>1. \A q \in Nodes : Len(kids[q]) \in Nat /\ DOMAIN kids[q] = 1 .. Len(kids[q])
        BY <1>2, SeqDomain
      <3>2. Len(kids[n]) = 0 BY <1>a, <1>2, <1>3 DEF Made, Nodes
      <3> QED BY <1>3, <3>1, <3>2
    <2>4. ASSUME NEW q \in Nodes, NEW x \in DOMAIN kids'[q], name'[q] \in Lproj
          PROVE  name'[kids'[q][x]] \notin Lproj
      <3>1. CASE x \in DOMAIN kids[q] /\ kids'[q][x] = kids[q][x]
        BY <1>6, <1>9, <2>2, <2>3, <2>4, <3>1
      <3>2. CASE q = cur /\ kids'[q][x] = n
        BY <1>2, <1>3, <1>6, <2>1, <2>4, <3>2
      <3> QED BY <1>8, <3>1, <3>2
    <2> QED BY <2>4 DEF NoNestedLproj
  <1>16. NamedExact'
    <2>1. ASSUME NEW p \in Nodes, NEW x \in Names, named'[p][x] # Nil
          PROVE  parent'[named'[p][x]] = p /\ name'[named'[p][x]] = x
      <3>1. CASE p = cur /\ x = x0 BY <1>6, <1>7, <3>1
      <3>2. CASE p # cur \/ x # x0
        <4>1. named'[p][x] = named[p][x] BY <1>7, <3>2
        <4>2. named[p][x] \in 2 .. size BY <1>a, <2>1, <4>1 DEF Made
        <4>3. named[p][x] # n /\ named[p][x] \in Nodes
          <5>1. size \in Nat /\ size < MaxNodes BY <1>1, <1>2
          <5> QED BY <1>3, <4>2, <5>1, OlderNode
        <4>4. parent[named[p][x]] = p /\ name[named[p][x]] = x
          BY <1>a, <1>1, <2>1, <4>1 DEF NamedExact
        <4> QED BY <1>6, <4>1, <4>3, <4>4
      <3> QED BY <3>1, <3>2
    <2> QED BY <1>1, <2>1 DEF NamedExact
  <1>17. NamedChild' BY <1>1, <1>16 DEF NamedExact, NamedChild
  <1>18. CursorNamed'
    <2>1. i + 1 <= Len(files[k]) /\ i + 1 \in 1 .. i + 1 BY <1>1, <1>2, <1>4
    <2>2. name'[n] = files[k][i + 1] BY <1>6 DEF x0, Component
    <2> QED BY <1>1, <2>1, <2>2 DEF CursorNamed
  <1>19. RegroupInv' BY <1>1 DEF RegroupInv
  <1> QED BY <1>10, <1>11, <1>12, <1>14, <1>15, <1>16, <1>17, <1>18, <1>19 DEF ShapeInv

-----------------------------------------------------------------------------
(* The steps of the traversals *)

\* The lists kids2 hold what kids holds, or less, in some order.
Sublists(kids2) ==
  /\ kids2 \in [Nodes -> Seq(Nodes)]
  /\ \A p \in Nodes : \A x, y \in DOMAIN kids2[p] : kids2[p][x] = kids2[p][y] => x = y
  /\ \A p \in Nodes : \A x \in DOMAIN kids2[p] :
       \E y \in DOMAIN kids[p] : kids[p][y] = kids2[p][x]

LEMMA SublistsShape ==
  ASSUME ShapeInv, Sublists(kids'), UNCHANGED <<name, parent, named, size>>
  PROVE  /\ Made' /\ InListOnce' /\ NoNestedLproj' /\ NamedChild'
         /\ Dissolving = {} => \A p \in Nodes : \A x \in DOMAIN kids'[p] :
              parent'[kids'[p][x]] = p
  <1>1. /\ Made /\ InListOnce /\ InListOfParent /\ NoNestedLproj /\ NamedChild
        /\ kids \in [Nodes -> Seq(Nodes)]
    BY DEF ShapeInv, TypeOK
  <1>2. \A p \in Nodes : Len(kids[p]) \in Nat /\ DOMAIN kids[p] = 1 .. Len(kids[p])
    BY <1>1, SeqDomain
  <1>3. \A p \in Nodes : Len(kids'[p]) \in Nat /\ DOMAIN kids'[p] = 1 .. Len(kids'[p])
    BY SeqDomain DEF Sublists
  <1>4. \A p \in Nodes : Len(kids[p]) = 0 => Len(kids'[p]) = 0
    <2>1. SUFFICES ASSUME NEW p \in Nodes, Len(kids[p]) = 0, Len(kids'[p]) # 0
                   PROVE  FALSE
      OBVIOUS
    <2>2. 1 \in DOMAIN kids'[p] BY <1>3, <2>1
    <2>3. DOMAIN kids[p] # {} BY <2>2 DEF Sublists
    <2> QED BY <1>2, <2>1, <2>3
  <1> HIDE DEF Nodes
  <1>5. Made'
    <2>1. \A p \in Nodes : \A x \in DOMAIN kids'[p] : kids'[p][x] \in 2 .. size
      BY <1>1 DEF Made, Sublists
    <2>2. \A p \in Nodes : p > size => Len(kids'[p]) = 0 /\ name[p] = Nil
      BY <1>1, <1>4 DEF Made
    <2> QED BY <1>1, <2>1, <2>2 DEF Made
  <1>6. InListOnce' BY DEF InListOnce, Sublists
  <1>7. NoNestedLproj' BY <1>1 DEF NoNestedLproj, Sublists
  <1>8. NamedChild' BY <1>1 DEF NamedChild
  <1>9. Dissolving = {} => \A p \in Nodes : \A x \in DOMAIN kids'[p] :
          parent'[kids'[p][x]] = p
    BY <1>1 DEF InListOfParent, Sublists
  <1> QED BY <1>5, <1>6, <1>7, <1>8, <1>9

\* What onnode does to the lists.
LEMMA ArrangedSublists ==
  ASSUME ShapeInv, NEW n \in Nodes,
         \/ kids' = kids
         \/ \E t \in Arrangements(kids[n]) : kids' = [kids EXCEPT ![n] = t]
  PROVE  Sublists(kids')
  <1>1. InListOnce /\ kids \in [Nodes -> Seq(Nodes)] BY DEF ShapeInv, TypeOK
  <1>2. CASE kids' = kids BY <1>1, <1>2 DEF InListOnce, Sublists
  <1>3. ASSUME NEW t \in Arrangements(kids[n]), kids' = [kids EXCEPT ![n] = t]
        PROVE  Sublists(kids')
    <2>1. kids[n] \in Seq(Nodes)
          /\ \A x, y \in DOMAIN kids[n] : kids[n][x] = kids[n][y] => x = y
      BY <1>1 DEF InListOnce
    <2>2. /\ t \in Seq(Nodes)
          /\ \A x, y \in DOMAIN t : t[x] = t[y] => x = y
          /\ \A x \in DOMAIN t : \E y \in DOMAIN kids[n] : kids[n][y] = t[x]
      BY <2>1, ArrangementProps
    <2>3. kids'[n] = t /\ \A p \in Nodes : p # n => kids'[p] = kids[p] BY <1>1, <1>3
    <2>4. kids' \in [Nodes -> Seq(Nodes)] BY <1>1, <1>3, <2>2
    <2> HIDE DEF Nodes
    <2>5. ASSUME NEW p \in Nodes
          PROVE  /\ \A x, y \in DOMAIN kids'[p] : kids'[p][x] = kids'[p][y] => x = y
                 /\ \A x \in DOMAIN kids'[p] :
                      \E y \in DOMAIN kids[p] : kids[p][y] = kids'[p][x]
      <3>1. CASE p = n BY <2>2, <2>3, <3>1
      <3>2. CASE p # n BY <1>1, <2>3, <3>2 DEF InListOnce
      <3> QED BY <3>1, <3>2
    <2> QED BY <2>4, <2>5 DEF Sublists
  <1> QED BY <1>2, <1>3

\* A step of a traversal: the callback onnode, then a move to another node.
LEMMA TraversalShape ==
  ASSUME ShapeInv, pc \in {"start", "walk"}, Sublists(kids'),
         UNCHANGED <<files, k, i, cur, name, path, parent, named, size>>,
         pc' \in {"start", "walk", "regroup", "done"},
         pass' \in {"sort", "localize", "list"},
         frames' \in Seq(Frame), j' \in Nat \ {0}, RegroupInv'
  PROVE  ShapeInv'
  <1>1. TypeOK' BY DEF ShapeInv, TypeOK, Sublists, Frame
  <1>2. Dissolving = {} BY DEF Dissolving
  <1>3. Made' /\ InListOnce' /\ NoNestedLproj' /\ NamedChild' BY SublistsShape
  <1>4. InListOfParent' BY <1>2, SublistsShape DEF InListOfParent
  <1>5. NamedExact' /\ CursorNamed' BY DEF NamedExact, CursorNamed
  <1> QED BY <1>1, <1>3, <1>4, <1>5 DEF ShapeInv

LEMMA StartPassShape == ASSUME ShapeInv, StartPass PROVE ShapeInv'
  <1>1. /\ pc = "start" /\ pc' = "walk" /\ frames' = <<[node |-> Root, i |-> 1]>>
        /\ UNCHANGED <<files, k, i, cur, pass, j, name, path, parent, named, size>>
    BY DEF StartPass, fields
  <1>2. Root \in Nodes OBVIOUS
  <1>3. \/ kids' = kids
        \/ \E t \in Arrangements(kids[Root]) : kids' = [kids EXCEPT ![Root] = t]
    BY DEF StartPass, fields
  <1>4. Sublists(kids') BY <1>2, <1>3, ArrangedSublists
  <1>5. frames' \in Seq(Frame) BY <1>1, <1>2 DEF Frame
  <1>6. RegroupInv' BY <1>1 DEF RegroupInv
  <1>7. pass' \in {"sort", "localize", "list"} /\ j' \in Nat \ {0}
    BY <1>1 DEF ShapeInv, TypeOK
  <1> QED BY <1>1, <1>4, <1>5, <1>6, <1>7, TraversalShape

\* The node that is visited is a child of the node on top.
LEMMA CurrentChild ==
  ASSUME ShapeInv, HasNext
  PROVE  /\ frames \in Seq(Frame) /\ Len(frames) > 0 /\ Top \in Frame
         /\ Top.i \in DOMAIN kids[Top.node] /\ Current \in Nodes
         /\ Current = kids[Top.node][Top.i] /\ Top.node \in Nodes
  <1>1. frames \in Seq(Frame) /\ kids \in [Nodes -> Seq(Nodes)]
    BY DEF ShapeInv, TypeOK, Frame
  <1>2. Len(frames) > 0 /\ Top.i <= Len(kids[Top.node]) BY DEF HasNext
  <1>3. Top \in Frame BY <1>1, <1>2, RestFrames
  <1>4. Top.node \in Nodes /\ Top.i \in Nat \ {0} BY <1>3 DEF Frame
  <1>5. kids[Top.node] \in Seq(Nodes) BY <1>1, <1>4
  <1>6. Top.i \in 1 .. Len(kids[Top.node]) BY <1>2, <1>4, <1>5, SeqDomain
  <1> QED BY <1>1, <1>2, <1>3, <1>4, <1>5, <1>6, SeqDomain, SMTT(60) DEF Current

LEMMA VisitLeafShape == ASSUME ShapeInv, VisitLeaf PROVE ShapeInv'
  <1>1. /\ pc = "walk" /\ pc' = "walk" /\ HasNext
        /\ frames' = Advance(frames, Current)
        /\ UNCHANGED <<files, k, i, cur, pass, j, name, path, parent, named, size>>
        /\ \/ kids' = kids
           \/ \E t \in Arrangements(kids[Current]) : kids' = [kids EXCEPT ![Current] = t]
    BY DEF VisitLeaf, HasNext, Onnode
  <1>2. frames \in Seq(Frame) /\ Len(frames) > 0 /\ Current \in Nodes
    BY <1>1, CurrentChild
  <1>3. Sublists(kids') BY <1>1, <1>2, ArrangedSublists
  <1>4. frames' \in Seq(Frame) BY <1>1, <1>2, AdvanceFrames
  <1>5. RegroupInv' BY <1>1 DEF RegroupInv
  <1>6. pass' \in {"sort", "localize", "list"} /\ j' \in Nat \ {0}
    BY <1>1 DEF ShapeInv, TypeOK
  <1> QED BY <1>1, <1>3, <1>4, <1>5, <1>6, TraversalShape

LEMMA VisitBranchShape == ASSUME ShapeInv, VisitBranch PROVE ShapeInv'
  <1>1. /\ pc = "walk" /\ HasNext
        /\ frames' = Append(frames, [node |-> Current, i |-> 1])
        /\ IF Localized(Current) THEN pc' = "regroup" /\ j' = 1 ELSE UNCHANGED <<pc, j>>
        /\ UNCHANGED <<files, k, i, cur, pass, name, path, parent, named, size>>
        /\ \/ kids' = kids
           \/ \E t \in Arrangements(kids[Current]) : kids' = [kids EXCEPT ![Current] = t]
        /\ pass = "localize" => kids' = kids
    BY DEF VisitBranch, HasNext, Onnode
  <1>2. /\ frames \in Seq(Frame) /\ Len(frames) > 0 /\ Current \in Nodes
        /\ Top.i \in DOMAIN kids[Top.node] /\ Current = kids[Top.node][Top.i]
        /\ Top.node \in Nodes
    BY <1>1, CurrentChild
  <1>3. Sublists(kids') BY <1>1, <1>2, ArrangedSublists
  <1>4. [node |-> Current, i |-> 1] \in Frame BY <1>2 DEF Frame
  <1>5. /\ frames' \in Seq(Frame) /\ Len(frames') > 0
        /\ frames'[Len(frames')] = [node |-> Current, i |-> 1]
    BY <1>1, <1>2, <1>4
  <1>6. Top'.node = Current BY <1>5 DEF Top
  <1>7. RegroupInv'
    <2>1. SUFFICES ASSUME pc' = "regroup" PROVE RegroupInv' BY DEF RegroupInv
    <2>2. name[Current] \in Lproj /\ kids' = kids BY <1>1, <2>1 DEF Localized
    <2>3. parent[Current] = Top.node
      BY <1>1, <1>2 DEF ShapeInv, InListOfParent, Dissolving
    <2>4. name[Top.node] \notin Lproj BY <1>2, <2>2 DEF ShapeInv, NoNestedLproj
    <2> HIDE DEF Nodes
    <2> QED BY <1>1, <1>2, <1>5, <1>6, <2>2, <2>3, <2>4 DEF RegroupInv
  <1>8. /\ pass' \in {"sort", "localize", "list"} /\ j' \in Nat \ {0}
        /\ pc' \in {"start", "walk", "regroup", "done"}
    BY <1>1 DEF ShapeInv, TypeOK
  <1> QED BY <1>1, <1>3, <1>5, <1>7, <1>8, TraversalShape

LEMMA ReturnShape == ASSUME ShapeInv, Return PROVE ShapeInv'
  <1>1. /\ pc = "walk" /\ pc' = "walk" /\ Len(frames) > 1
        /\ frames' = Advance(Rest, Top.node) /\ kids' = kids
        /\ UNCHANGED <<files, k, i, cur, pass, j, name, path, parent, named, size>>
    BY DEF Return, fields
  <1>2. frames \in Seq(Frame) /\ Root \in Nodes BY DEF ShapeInv, TypeOK, Frame
  <1>3. Len(frames) \in Nat BY <1>2, SeqDomain
  <1>4. Rest \in Seq(Frame) /\ Len(Rest) > 0 BY <1>1, <1>2, <1>3, RestFrames
  <1>5. frames' \in Seq(Frame) BY <1>1, <1>4, AdvanceFrames
  <1>6. Sublists(kids') BY <1>1, <1>2, ArrangedSublists
  <1>7. RegroupInv' BY <1>1 DEF RegroupInv
  <1>8. pass' \in {"sort", "localize", "list"} /\ j' \in Nat \ {0}
    BY <1>1 DEF ShapeInv, TypeOK
  <1> QED BY <1>1, <1>5, <1>6, <1>7, <1>8, TraversalShape

LEMMA EndPassShape == ASSUME ShapeInv, EndPass PROVE ShapeInv'
  <1>1. /\ pc = "walk" /\ pc' \in {"start", "done"} /\ frames' = << >> /\ kids' = kids
        /\ pass' \in {pass, "localize", "list"}
        /\ UNCHANGED <<files, k, i, cur, j, name, path, parent, named, size>>
    BY DEF EndPass, fields, NextPass
  <1>2. Root \in Nodes /\ frames' \in Seq(Frame) BY <1>1
  <1>3. Sublists(kids') BY <1>1, <1>2, ArrangedSublists
  <1>4. RegroupInv' BY <1>1 DEF RegroupInv
  <1>5. pass' \in {"sort", "localize", "list"} /\ j' \in Nat \ {0}
    BY <1>1 DEF ShapeInv, TypeOK
  <1> QED BY <1>1, <1>2, <1>3, <1>4, <1>5, TraversalShape

-----------------------------------------------------------------------------
(* The steps of the regrouping *)

\* What is known of the directory that dissolves and of the file that is moved.
LEMMA RegroupFacts ==
  ASSUME ShapeInv, pc = "regroup"
  PROVE  /\ Top.node \in Nodes /\ Dissolving = {Top.node}
         /\ name[Top.node] \in Lproj
         /\ parent[Top.node] \in Nodes /\ parent[Top.node] # Top.node
         /\ parent[Top.node] \in 1 .. size
         /\ name[parent[Top.node]] \notin Lproj
         /\ \E x \in DOMAIN kids[parent[Top.node]] :
              kids[parent[Top.node]][x] = Top.node
  <1>1. /\ RegroupInv /\ Made /\ frames \in Seq(Frame) /\ size \in Nodes
        /\ kids \in [Nodes -> Seq(Nodes)]
    BY DEF ShapeInv, TypeOK, Frame
  <1>2. Len(frames) > 0 BY <1>1 DEF RegroupInv
  <1>3. Top.node \in Nodes BY <1>1, <1>2, RestFrames DEF Frame
  <1>4. parent[Top.node] \in 1 .. size
    <2>1. parent[Top.node] \in Nodes BY <1>1 DEF RegroupInv
    <2>2. PICK x \in DOMAIN kids[parent[Top.node]] : kids[parent[Top.node]][x] = Top.node
      BY <1>1 DEF RegroupInv
    <2>3. DOMAIN kids[parent[Top.node]] = 1 .. Len(kids[parent[Top.node]])
      BY <1>1, <2>1, SeqDomain
    <2>4. Len(kids[parent[Top.node]]) # 0 BY <2>2, <2>3
    <2>5. ~(parent[Top.node] > size) BY <1>1, <2>1, <2>4 DEF Made
    <2> QED BY <1>1, <2>1, <2>5
  <1> HIDE DEF Nodes
  <1> QED BY <1>1, <1>3, <1>4 DEF RegroupInv, Dissolving

LEMMA MovedFacts ==
  ASSUME ShapeInv, Regroups
  PROVE  /\ j \in DOMAIN kids[Top.node] /\ Moved = kids[Top.node][j]
         /\ Moved \in 2 .. size /\ Moved \in Nodes
         /\ parent[Moved] = Top.node /\ Moved # Top.node
         /\ name[Moved] \in Names \ Lproj
         /\ Lang[name[Top.node]] \in Names \ Lproj
         /\ \A p \in Nodes : \A x \in DOMAIN kids[p] : kids[p][x] = Moved =>
              p = Top.node /\ x = j
  <1>1. pc = "regroup" /\ j <= Len(kids[Top.node]) BY DEF Regroups
  <1>2. /\ Top.node \in Nodes /\ Dissolving = {Top.node} /\ name[Top.node] \in Lproj
        /\ parent[Top.node] # Top.node
    BY <1>1, RegroupFacts
  <1>3. /\ Made /\ InListOnce /\ InListOfParent /\ NoNestedLproj
        /\ kids \in [Nodes -> Seq(Nodes)] /\ j \in Nat \ {0} /\ size \in Nodes
    BY DEF ShapeInv, TypeOK
  <1>4. DOMAIN kids[Top.node] = 1 .. Len(kids[Top.node]) /\ Len(kids[Top.node]) \in Nat
    BY <1>2, <1>3, SeqDomain
  <1>5. j \in DOMAIN kids[Top.node] /\ Moved = kids[Top.node][j]
    BY <1>1, <1>3, <1>4 DEF Moved
  <1>6. Moved \in 2 .. size BY <1>2, <1>3, <1>5 DEF Made
  <1>7. Moved \in Nodes BY <1>3, <1>6
  <1>8. parent[Moved] = Top.node BY <1>2, <1>3, <1>5 DEF InListOfParent
  <1>9. name[Moved] \in Names \ Lproj
    BY <1>2, <1>3, <1>5, <1>6 DEF Made, NoNestedLproj
  <1>10. Lang[name[Top.node]] \in Names \ Lproj BY <1>2
  <1> HIDE DEF Nodes
  <1>11. \A p \in Nodes : \A x \in DOMAIN kids[p] : kids[p][x] = Moved =>
           p = Top.node /\ x = j
    BY <1>2, <1>3, <1>5, <1>8 DEF InListOnce, InListOfParent
  <1> QED BY <1>2, <1>5, <1>6, <1>7, <1>8, <1>9, <1>10, <1>11

\* The group of a localized file is another node than the directory.
LEMMA GroupFacts ==
  ASSUME ShapeInv, Regroups, Group # Nil
  PROVE  Group \in 2 .. size /\ Group \in Nodes /\ Group # Top.node
  <1>1. pc = "regroup" BY DEF Regroups
  <1>2. /\ name[Top.node] \in Lproj /\ parent[Top.node] \in Nodes
    BY <1>1, RegroupFacts
  <1>3. name[Moved] \in Names \ Lproj BY MovedFacts
  <1>4. Made /\ NamedChild /\ size \in Nodes BY DEF ShapeInv, TypeOK
  <1>5. Group \in 2 .. size BY <1>2, <1>3, <1>4 DEF Made, Group
  <1>6. Group \in Nodes BY <1>4, <1>5
  <1>7. name[Group] = name[Moved] \/ name[Group] \notin Lproj
    BY <1>2, <1>3, <1>4 DEF NamedChild, Group
  <1> QED BY <1>2, <1>3, <1>5, <1>6, <1>7

LEMMA RegroupIntoShape == ASSUME ShapeInv, RegroupInto PROVE ShapeInv'
  <1> DEFINE d == Top.node
             m == Moved
             g == Group
             lang == Lang[name[d]]
  <1>1. /\ pc = "regroup" /\ Regroups /\ g # Nil /\ j' = j + 1
        /\ name' = [name EXCEPT ![m] = lang]
        /\ kids' = [kids EXCEPT ![g] = Append(@, m)]
        /\ named' = [named EXCEPT ![g][name'[m]] = m]
        /\ parent' = [parent EXCEPT ![m] = g]
        /\ UNCHANGED <<files, k, i, cur, path, size, pc, pass, frames>>
    BY DEF RegroupInto, Regroups, insert
  <1>2. /\ d \in Nodes /\ Dissolving = {d} /\ name[d] \in Lproj
        /\ parent[d] \in Nodes /\ parent[d] # d /\ name[parent[d]] \notin Lproj
        /\ \E x \in DOMAIN kids[parent[d]] : kids[parent[d]][x] = d
    BY <1>1, RegroupFacts
  <1>3. /\ j \in DOMAIN kids[d] /\ m = kids[d][j] /\ m \in 2 .. size /\ m \in Nodes
        /\ parent[m] = d /\ m # d /\ name[m] \in Names \ Lproj /\ lang \in Names \ Lproj
        /\ \A p \in Nodes : \A x \in DOMAIN kids[p] : kids[p][x] = m => p = d /\ x = j
    BY <1>1, MovedFacts
  <1>4. g \in 2 .. size /\ g \in Nodes /\ g # d BY <1>1, GroupFacts
  <1>5. /\ TypeOK /\ Made /\ InListOnce /\ InListOfParent /\ NoNestedLproj /\ NamedChild
        /\ RegroupInv
    BY DEF ShapeInv
  <1>6. Dissolving' = {d} BY <1>1, <1>2 DEF Dissolving, Top
  <1>7. Top' = Top BY <1>1 DEF Top
  <1> HIDE DEF m, g, lang, Nodes
  <1>8. /\ kids' \in [Nodes -> Seq(Nodes)]
        /\ \A q \in Nodes : q # g => kids'[q] = kids[q]
        /\ \A q \in Nodes : \A x \in DOMAIN kids'[q] :
             \/ x \in DOMAIN kids[q] /\ kids'[q][x] = kids[q][x]
             \/ q = g /\ x = Len(kids[g]) + 1 /\ kids'[q][x] = m
        /\ \A q \in Nodes : \A x \in DOMAIN kids[q] :
             x \in DOMAIN kids'[q] /\ kids'[q][x] = kids[q][x] /\ x \in 1 .. Len(kids[q])
    <2>1. /\ kids \in [Nodes -> Seq(Nodes)] /\ g \in Nodes /\ m \in Nodes
          /\ kids' = [kids EXCEPT ![g] = Append(@, m)]
      BY <1>1, <1>3, <1>4, <1>5 DEF TypeOK
    <2> QED BY <2>1, InsertKids
  <1>9. /\ name'[m] = lang /\ \A n \in Nodes : n # m => name'[n] = name[n]
        /\ parent'[m] = g /\ \A n \in Nodes : n # m => parent'[n] = parent[n]
    BY <1>1, <1>3, <1>5 DEF TypeOK
  <1>10. /\ named'[g][lang] = m
         /\ \A p \in Nodes : \A x \in Names : p # g \/ x # lang => named'[p][x] = named[p][x]
         /\ named' \in [Nodes -> [Names -> Nodes \cup {Nil}]]
    BY <1>1, <1>3, <1>4, <1>5, <1>9, SMTT(60) DEF TypeOK
  <1>11. TypeOK'
    <2>1. name' \in [Nodes -> Names \cup {Nil}] BY <1>1, <1>3, <1>5 DEF TypeOK
    <2>2. parent' \in [Nodes -> Nodes \cup {Nil}] BY <1>1, <1>4, <1>5 DEF TypeOK
    <2>3. j' \in Nat \ {0} BY <1>1, <1>5 DEF TypeOK
    <2> QED BY <1>1, <1>5, <1>8, <1>10, <2>1, <2>2, <2>3 DEF TypeOK
  <1>12. 2 .. size \subseteq Nodes /\ Root \notin 2 .. size /\ Root \in Nodes
    BY <1>5 DEF TypeOK, Nodes
  <1>13. \A q \in Nodes : \A x \in DOMAIN kids[q] : kids[q][x] \in Nodes
    BY <1>5, <1>12 DEF Made
  <1>14. Made'
    <2>1. name'[Root] = Nil BY <1>3, <1>5, <1>9, <1>12 DEF Made
    <2>2. \A n \in 2 .. size' : name'[n] \in Names
      BY <1>1, <1>3, <1>5, <1>9, <1>12 DEF Made
    <2>3. \A p \in Nodes : \A x \in DOMAIN kids'[p] : kids'[p][x] \in 2 .. size'
      BY <1>1, <1>3, <1>5, <1>8 DEF Made
    <2>4. \A p \in Nodes : p > size' => Len(kids'[p]) = 0 /\ name'[p] = Nil
      <3>1. ~(g > size) /\ ~(m > size) BY <1>3, <1>4, <1>5 DEF TypeOK, Nodes
      <3> QED BY <1>1, <1>5, <1>8, <1>9, <3>1 DEF Made
    <2>5. \A p \in Nodes : \A x \in Names : named'[p][x] # Nil => named'[p][x] \in 2 .. size'
      BY <1>1, <1>3, <1>5, <1>10 DEF Made
    <2> QED BY <2>1, <2>2, <2>3, <2>4, <2>5 DEF Made
  <1>15. InListOnce'
    <2>1. ASSUME NEW q \in Nodes, NEW x \in DOMAIN kids'[q], NEW y \in DOMAIN kids'[q],
                 kids'[q][x] = kids'[q][y]
          PROVE  x = y
      <3>1. CASE q # g BY <1>5, <1>8, <2>1, <3>1, SMTT(60) DEF InListOnce
      <3>2. CASE q = g
        <4>1. \A z \in DOMAIN kids'[q] :
                \/ z \in DOMAIN kids[q] /\ kids'[q][z] = kids[q][z] /\ kids[q][z] # m
                \/ z = Len(kids[g]) + 1 /\ kids'[q][z] = m
          BY <1>3, <1>4, <1>8, <3>2
        <4>2. \A u, v \in DOMAIN kids[q] : kids[q][u] = kids[q][v] => u = v
          BY <1>5 DEF InListOnce
        <4> QED BY <2>1, <4>1, <4>2
      <3> QED BY <3>1, <3>2
    <2> QED BY <2>1 DEF InListOnce
  <1>16. InListOfParent'
    <2>1. ASSUME NEW q \in Nodes, NEW x \in DOMAIN kids'[q], q = d => x >= j'
          PROVE  parent'[kids'[q][x]] = q
      <3>1. CASE q = g /\ kids'[q][x] = m BY <1>9, <3>1
      <3>2. CASE x \in DOMAIN kids[q] /\ kids'[q][x] = kids[q][x]
        <4>1. q = d => x # j /\ x >= j
          <5>1. DOMAIN kids[d] = 1 .. Len(kids[d]) BY <1>2, <1>5, SeqDomain DEF TypeOK
          <5>2. SUFFICES ASSUME q = d PROVE x # j /\ x >= j OBVIOUS
          <5>3. x \in 1 .. Len(kids[d]) /\ j \in Nat BY <1>5, <3>2, <5>1, <5>2 DEF TypeOK
          <5> QED BY <1>1, <2>1, <5>2, <5>3
        <4>2. parent[kids[q][x]] = q BY <1>2, <1>5, <3>2, <4>1 DEF InListOfParent
        <4>3. kids[q][x] # m BY <1>3, <3>2, <4>1
        <4> QED BY <1>9, <1>13, <3>2, <4>2, <4>3
      <3> QED BY <1>8, <3>1, <3>2
    <2> QED BY <1>6, <2>1 DEF InListOfParent
  <1>17. NoNestedLproj'
    <2>1. ASSUME NEW q \in Nodes, NEW x \in DOMAIN kids'[q], name'[q] \in Lproj
          PROVE  name'[kids'[q][x]] \notin Lproj
      <3>1. CASE kids'[q][x] = m BY <1>3, <1>9, <3>1
      <3>2. CASE kids'[q][x] # m
        <4>1. x \in DOMAIN kids[q] /\ kids'[q][x] = kids[q][x] BY <1>8, <3>2
        <4>2. q # m /\ name[q] \in Lproj BY <1>3, <1>9, <2>1
        <4>3. name[kids[q][x]] \notin Lproj BY <1>5, <4>1, <4>2 DEF NoNestedLproj
        <4> QED BY <1>9, <1>13, <3>2, <4>1, <4>3
      <3> QED BY <3>1, <3>2
    <2> QED BY <2>1 DEF NoNestedLproj
  <1>18. NamedChild'
    <2>1. ASSUME NEW p \in Nodes, NEW x \in Names, named'[p][x] # Nil
          PROVE  /\ name'[p] \notin Lproj => parent'[named'[p][x]] = p
                 /\ name'[named'[p][x]] = x \/ name'[named'[p][x]] \notin Lproj
      <3> DEFINE c == named'[p][x]
      <3>1. CASE p = g /\ x = lang BY <1>3, <1>9, <1>10, <3>1
      <3>2. CASE p # g \/ x # lang
        <4>1. c = named[p][x] BY <1>10, <3>2
        <4>2. c \in Nodes BY <1>5, <1>12, <2>1, <4>1 DEF Made
        <4>3. /\ name[p] \notin Lproj => parent[c] = p
              /\ name[c] = x \/ name[c] \notin Lproj
          BY <1>5, <2>1, <4>1 DEF NamedChild
        <4>4. name'[p] \notin Lproj => name[p] \notin Lproj BY <1>3, <1>9
        <4>5. CASE c = m
          <5>1. name[p] \in Lproj BY <1>2, <1>3, <4>3, <4>5
          <5> QED BY <1>3, <1>9, <4>4, <4>5, <5>1
        <4>6. CASE c # m BY <1>9, <4>2, <4>3, <4>4, <4>6
        <4> QED BY <4>5, <4>6
      <3> QED BY <3>1, <3>2
    <2> QED BY <2>1 DEF NamedChild
  <1>19. NamedExact' /\ CursorNamed' BY <1>1 DEF NamedExact, CursorNamed
  <1>20. RegroupInv'
    <2>1. Top'.node = d BY <1>7
    <2>2. parent'[d] = parent[d] /\ name'[d] = name[d] BY <1>2, <1>3, <1>9
    <2>3. name'[parent[d]] \notin Lproj BY <1>2, <1>3, <1>9
    <2>4. \E x \in DOMAIN kids'[parent[d]] : kids'[parent[d]][x] = d BY <1>2, <1>8
    <2> QED BY <1>1, <1>2, <1>5, <2>1, <2>2, <2>3, <2>4 DEF RegroupInv
  <1> QED BY <1>11, <1>14, <1>15, <1>16, <1>17, <1>18, <1>19, <1>20 DEF ShapeInv

LEMMA RegroupNewShape == ASSUME ShapeInv, RegroupNew PROVE ShapeInv'
  <1> DEFINE d == Top.node
             m == Moved
             p == parent[d]
             g == size + 1
             x0 == name[m]
             lang == Lang[name[d]]
  <1>1. /\ pc = "regroup" /\ Regroups /\ j' = j + 1 /\ size < MaxNodes /\ size' = g
        /\ name' = [name EXCEPT ![g] = x0, ![m] = lang]
        /\ kids' = [kids EXCEPT ![p] = Append(@, g), ![g] = <<m>>]
        /\ named' = [named EXCEPT ![p][x0] = g, ![g][lang] = m]
        /\ parent' = [parent EXCEPT ![g] = p, ![m] = g]
        /\ UNCHANGED <<files, k, i, cur, path, pc, pass, frames>>
    BY DEF RegroupNew, Regroups
  <1>2. /\ d \in Nodes /\ Dissolving = {d} /\ name[d] \in Lproj
        /\ p \in Nodes /\ p # d /\ p \in 1 .. size /\ name[p] \notin Lproj
        /\ \E x \in DOMAIN kids[p] : kids[p][x] = d
    BY <1>1, RegroupFacts
  <1>3. /\ j \in DOMAIN kids[d] /\ m = kids[d][j] /\ m \in 2 .. size /\ m \in Nodes
        /\ parent[m] = d /\ m # d /\ x0 \in Names \ Lproj /\ lang \in Names \ Lproj
        /\ \A q \in Nodes : \A x \in DOMAIN kids[q] : kids[q][x] = m => q = d /\ x = j
    BY <1>1, MovedFacts
  <1>4. /\ TypeOK /\ Made /\ InListOnce /\ InListOfParent /\ NoNestedLproj /\ NamedChild
        /\ RegroupInv
    BY DEF ShapeInv
  <1>5. Dissolving' = {d} /\ Top' = Top BY <1>1, <1>2 DEF Dissolving, Top
  <1>6. /\ g = size + 1 /\ g \in Nodes /\ g \in 2 .. g /\ g # m /\ g # p
        /\ 2 .. size \subseteq 2 .. g /\ \A n \in 2 .. g : n = g \/ n \in 2 .. size
        /\ \A n \in 2 .. size : n \in Nodes /\ n # g
        /\ Root \in Nodes /\ Root \notin 2 .. g
    <2>1. size \in Nat \ {0} /\ size < MaxNodes /\ m \in 2 .. size /\ p \in 1 .. size
      BY <1>1, <1>2, <1>3, <1>4, SMTT(60) DEF TypeOK
    <2> HIDE DEF m, p
    <2> QED BY <2>1
  <1>7. /\ Len(kids[g]) = 0 /\ name[g] \notin Lproj /\ Len(kids[p]) \in Nat
        /\ \A q \in Nodes : DOMAIN kids[q] = 1 .. Len(kids[q]) /\ Len(kids[q]) \in Nat
    <2>1. kids[p] \in Seq(Nodes) BY <1>2, <1>4 DEF TypeOK
    <2>2. g > size BY <1>4, <1>6 DEF TypeOK
    <2>3. \A q \in Nodes : DOMAIN kids[q] = 1 .. Len(kids[q]) /\ Len(kids[q]) \in Nat
      BY <1>4, SeqDomain DEF TypeOK
    <2> QED BY <1>2, <1>4, <1>6, <2>2, <2>3 DEF Made
  <1>8. g # d /\ \A q \in Nodes : \A x \in DOMAIN kids[q] : q # g
    <2>1. \A q \in Nodes : \A x \in DOMAIN kids[q] : q # g BY <1>6, <1>7
    <2> QED BY <1>2, <1>3, <2>1
  <1> HIDE DEF d, m, p, g, x0, lang, Nodes
  <1>9. /\ kids' \in [Nodes -> Seq(Nodes)]
        /\ \A q \in Nodes : q # g /\ q # p => kids'[q] = kids[q]
        /\ \A q \in Nodes : \A x \in DOMAIN kids'[q] :
             \/ q # g /\ x \in DOMAIN kids[q] /\ kids'[q][x] = kids[q][x]
             \/ q = p /\ x = Len(kids[p]) + 1 /\ kids'[q][x] = g
             \/ q = g /\ x = 1 /\ kids'[q][x] = m
        /\ \A x \in DOMAIN kids[p] : x \in DOMAIN kids'[p] /\ kids'[p][x] = kids[p][x]
    <2>1. /\ kids[p] \in Seq(Nodes) /\ kids \in [Nodes -> Seq(Nodes)]
          /\ DOMAIN kids[p] = 1 .. Len(kids[p])
      BY <1>2, <1>4, <1>7 DEF TypeOK
    <2>2. /\ Append(kids[p], g) \in Seq(Nodes)
          /\ DOMAIN Append(kids[p], g) = 1 .. Len(kids[p]) + 1
          /\ \A x \in 1 .. Len(kids[p]) : Append(kids[p], g)[x] = kids[p][x]
          /\ Append(kids[p], g)[Len(kids[p]) + 1] = g
      BY <1>6, <2>1, AppendProps
    <2>3. <<m>> \in Seq(Nodes) /\ DOMAIN <<m>> = {1} /\ <<m>>[1] = m BY <1>3
    <2>4. /\ kids'[p] = Append(kids[p], g) /\ kids'[g] = <<m>>
          /\ \A q \in Nodes : q # p /\ q # g => kids'[q] = kids[q]
          /\ kids' \in [Nodes -> Seq(Nodes)]
      BY <1>1, <1>2, <1>6, <2>1, <2>2, <2>3
    <2>5. \A x \in 1 .. Len(kids[p]) + 1 : x = Len(kids[p]) + 1 \/ x \in 1 .. Len(kids[p])
      BY <1>7
    <2>6. 1 .. Len(kids[p]) \subseteq 1 .. Len(kids[p]) + 1 BY <1>7
    <2>7. ASSUME NEW q \in Nodes, NEW x \in DOMAIN kids'[q]
          PROVE  \/ q # g /\ x \in DOMAIN kids[q] /\ kids'[q][x] = kids[q][x]
                 \/ q = p /\ x = Len(kids[p]) + 1 /\ kids'[q][x] = g
                 \/ q = g /\ x = 1 /\ kids'[q][x] = m
      <3>1. CASE q = p BY <1>6, <2>1, <2>2, <2>4, <2>5, <3>1
      <3>2. CASE q = g BY <2>3, <2>4, <3>2
      <3>3. CASE q # p /\ q # g BY <2>4, <3>3
      <3> QED BY <3>1, <3>2, <3>3
    <2> QED BY <2>1, <2>2, <2>4, <2>6, <2>7
  <1>10. /\ name'[g] = x0 /\ name'[m] = lang
         /\ \A n \in Nodes : n # m /\ n # g => name'[n] = name[n]
         /\ parent'[g] = p /\ parent'[m] = g
         /\ \A n \in Nodes : n # m /\ n # g => parent'[n] = parent[n]
    BY <1>1, <1>3, <1>4, <1>6 DEF TypeOK
  <1>11. /\ named'[p][x0] = g /\ named'[g][lang] = m
         /\ \A q \in Nodes : \A x \in Names :
              ~(q = p /\ x = x0) /\ ~(q = g /\ x = lang) => named'[q][x] = named[q][x]
         /\ named' \in [Nodes -> [Names -> Nodes \cup {Nil}]]
    <2>1. named \in [Nodes -> [Names -> Nodes \cup {Nil}]] BY <1>4 DEF TypeOK
    <2>2. x0 \in Names /\ lang \in Names /\ p \in Nodes /\ g \in Nodes /\ p # g /\ m \in Nodes
      BY <1>2, <1>3, <1>6
    <2>3. named' = [named EXCEPT ![p][x0] = g, ![g][lang] = m] BY <1>1
    <2> HIDE DEF Nil
    <2>4. /\ named'[p] = [named[p] EXCEPT ![x0] = g] /\ named'[g] = [named[g] EXCEPT ![lang] = m]
          /\ \A q \in Nodes : q # p /\ q # g => named'[q] = named[q]
      BY <2>1, <2>2, <2>3
    <2>5. /\ named'[p][x0] = g /\ named'[g][lang] = m
          /\ \A x \in Names : x # x0 => named'[p][x] = named[p][x]
          /\ \A x \in Names : x # lang => named'[g][x] = named[g][x]
      BY <2>1, <2>2, <2>4
    <2>6. \A q \in Nodes : named'[q] \in [Names -> Nodes \cup {Nil}]
      <3>1. named'[p] \in [Names -> Nodes \cup {Nil}] BY <2>1, <2>2, <2>4
      <3>2. named'[g] \in [Names -> Nodes \cup {Nil}] BY <2>1, <2>2, <2>4
      <3> QED BY <2>1, <2>4, <3>1, <3>2
    <2>7. named' = [q \in Nodes |-> named'[q]] BY <2>1, <2>3
    <2>8. named' \in [Nodes -> [Names -> Nodes \cup {Nil}]] BY <2>6, <2>7
    <2> QED BY <2>4, <2>5, <2>8
  <1>12. TypeOK'
    <2>1. name' \in [Nodes -> Names \cup {Nil}] BY <1>1, <1>3, <1>4 DEF TypeOK
    <2>2. parent' \in [Nodes -> Nodes \cup {Nil}] BY <1>1, <1>2, <1>4, <1>6 DEF TypeOK
    <2>3. j' \in Nat \ {0} BY <1>1, <1>4 DEF TypeOK
    <2>4. size' \in Nodes /\ cur' \in 1 .. size'
      <3>1. cur \in 1 .. size /\ size \in Nodes BY <1>4 DEF TypeOK
      <3> QED BY <1>1, <1>6, <3>1 DEF Nodes
    <2> QED BY <1>1, <1>4, <1>9, <1>11, <2>1, <2>2, <2>3, <2>4 DEF TypeOK
  <1>13. \A q \in Nodes : \A x \in DOMAIN kids[q] :
           kids[q][x] \in Nodes /\ kids[q][x] # g /\ kids[q][x] \in 2 .. size
    BY <1>4, <1>6 DEF Made
  <1>14. Made'
    <2>1. name'[Root] = Nil BY <1>3, <1>4, <1>6, <1>10 DEF Made
    <2>2. \A n \in 2 .. size' : name'[n] \in Names
      <3>1. size' = g /\ \A n \in 2 .. size : name[n] \in Names BY <1>1, <1>4 DEF Made
      <3>2. ASSUME NEW n \in 2 .. g PROVE name'[n] \in Names
        <4>1. n = g \/ (n \in 2 .. size /\ n \in Nodes /\ n # g) BY <1>6
        <4> QED BY <1>3, <1>10, <3>1, <4>1
      <3> QED BY <3>1, <3>2
    <2>3. \A q \in Nodes : \A x \in DOMAIN kids'[q] : kids'[q][x] \in 2 .. size'
      <3>1. m \in 2 .. g /\ size' = g BY <1>1, <1>3, <1>6
      <3>2. \A q \in Nodes : \A x \in DOMAIN kids[q] : kids[q][x] \in 2 .. g
        BY <1>6, <1>13
      <3>3. g \in 2 .. g BY <1>6
      <3>4. ASSUME NEW q \in Nodes, NEW x \in DOMAIN kids'[q]
            PROVE  kids'[q][x] \in 2 .. g
        <4>1. \/ x \in DOMAIN kids[q] /\ kids'[q][x] = kids[q][x]
              \/ kids'[q][x] = g \/ kids'[q][x] = m
          BY <1>9
        <4> QED BY <3>1, <3>2, <3>3, <4>1
      <3> QED BY <3>1, <3>4
    <2>4. \A q \in Nodes : q > size' => Len(kids'[q]) = 0 /\ name'[q] = Nil
      <3>1. \A q \in Nodes : q > g => q > size /\ q # p /\ q # g /\ q # m
        <4>1. size \in Nat BY <1>4 DEF TypeOK, Nodes
        <4> QED BY <1>2, <1>3, <1>6, <4>1 DEF Nodes
      <3> QED BY <1>1, <1>4, <1>9, <1>10, <3>1 DEF Made
    <2>5. \A q \in Nodes : \A x \in Names : named'[q][x] # Nil => named'[q][x] \in 2 .. size'
      BY <1>1, <1>3, <1>4, <1>6, <1>11 DEF Made
    <2> QED BY <2>1, <2>2, <2>3, <2>4, <2>5 DEF Made
  <1>15. InListOnce'
    <2>1. ASSUME NEW q \in Nodes, NEW x \in DOMAIN kids'[q], NEW y \in DOMAIN kids'[q],
                 kids'[q][x] = kids'[q][y]
          PROVE  x = y
      <3>1. \A u, v \in DOMAIN kids[q] : kids[q][u] = kids[q][v] => u = v
        BY <1>4 DEF InListOnce
      <3>2. CASE q = g BY <1>6, <1>9, <3>2
      <3>3. CASE q # g
        <4>1. \A z \in DOMAIN kids'[q] :
                \/ z \in DOMAIN kids[q] /\ kids'[q][z] = kids[q][z] /\ kids[q][z] # g
                \/ z = Len(kids[p]) + 1 /\ kids'[q][z] = g
          BY <1>9, <1>13, <3>3
        <4> QED BY <2>1, <3>1, <4>1
      <3> QED BY <3>2, <3>3
    <2> QED BY <2>1 DEF InListOnce
  <1>16. InListOfParent'
    <2>1. ASSUME NEW q \in Nodes, NEW x \in DOMAIN kids'[q], q = d => x >= j'
          PROVE  parent'[kids'[q][x]] = q
      <3>1. CASE q = p /\ kids'[q][x] = g BY <1>10, <3>1
      <3>2. CASE q = g /\ kids'[q][x] = m BY <1>10, <3>2
      <3>3. CASE q # g /\ x \in DOMAIN kids[q] /\ kids'[q][x] = kids[q][x]
        <4>1. q = d => x # j /\ x >= j
          <5>1. SUFFICES ASSUME q = d PROVE x # j /\ x >= j OBVIOUS
          <5>2. x \in 1 .. Len(kids[d]) /\ Len(kids[d]) \in Nat /\ j \in Nat
            BY <1>2, <1>4, <1>7, <3>3, <5>1 DEF TypeOK
          <5> QED BY <1>1, <2>1, <5>1, <5>2
        <4>2. parent[kids[q][x]] = q BY <1>2, <1>4, <3>3, <4>1 DEF InListOfParent
        <4>3. kids[q][x] # m BY <1>3, <3>3, <4>1
        <4> QED BY <1>10, <1>13, <3>3, <4>2, <4>3
      <3> QED BY <1>9, <3>1, <3>2, <3>3
    <2> QED BY <1>5, <2>1 DEF InListOfParent
  <1>17. NoNestedLproj'
    <2>1. ASSUME NEW q \in Nodes, NEW x \in DOMAIN kids'[q], name'[q] \in Lproj
          PROVE  name'[kids'[q][x]] \notin Lproj
      <3>1. CASE kids'[q][x] = m BY <1>3, <1>10, <3>1
      <3>2. CASE kids'[q][x] = g BY <1>3, <1>10, <3>2
      <3>3. CASE kids'[q][x] # m /\ kids'[q][x] # g
        <4>1. x \in DOMAIN kids[q] /\ kids'[q][x] = kids[q][x] /\ q # g BY <1>9, <3>3
        <4>2. q # m /\ name[q] \in Lproj BY <1>3, <1>10, <2>1, <4>1
        <4>3. name[kids[q][x]] \notin Lproj BY <1>4, <4>1, <4>2 DEF NoNestedLproj
        <4> QED BY <1>10, <1>13, <3>3, <4>1, <4>3
      <3> QED BY <3>1, <3>2, <3>3
    <2> QED BY <2>1 DEF NoNestedLproj
  <1>18. NamedChild'
    <2>1. ASSUME NEW q \in Nodes, NEW x \in Names, named'[q][x] # Nil
          PROVE  /\ name'[q] \notin Lproj => parent'[named'[q][x]] = q
                 /\ name'[named'[q][x]] = x \/ name'[named'[q][x]] \notin Lproj
      <3> DEFINE c == named'[q][x]
      <3>1. CASE q = g /\ x = lang BY <1>3, <1>10, <1>11, <3>1
      <3>2. CASE q = p /\ x = x0 BY <1>3, <1>10, <1>11, <3>2
      <3>3. CASE ~(q = p /\ x = x0) /\ ~(q = g /\ x = lang)
        <4>1. c = named[q][x] BY <1>11, <3>3
        <4>2. c \in Nodes /\ c # g BY <1>4, <1>6, <2>1, <4>1 DEF Made
        <4>3. /\ name[q] \notin Lproj => parent[c] = q
              /\ name[c] = x \/ name[c] \notin Lproj
          BY <1>4, <2>1, <4>1 DEF NamedChild
        <4>4. CASE c = m
          <5>1. name[q] \notin Lproj => q = d BY <1>3, <4>3, <4>4
          <5>2. name[q] \in Lproj BY <1>2, <5>1
          <5>3. q # g => name'[q] = name[q] BY <1>3, <1>10, <5>2 DEF x0
          <5>4. q # g BY <1>7, <5>2
          <5> QED BY <1>3, <1>10, <4>4, <5>2, <5>3, <5>4
        <4>5. CASE c # m
          <5>1. name'[q] \notin Lproj => name[q] \notin Lproj
            BY <1>3, <1>7, <1>10 DEF x0
          <5> QED BY <1>10, <4>1, <4>2, <4>3, <4>5, <5>1
        <4> QED BY <4>4, <4>5
      <3> QED BY <3>1, <3>2, <3>3
    <2> QED BY <2>1 DEF NamedChild
  <1>19. NamedExact' /\ CursorNamed' BY <1>1 DEF NamedExact, CursorNamed
  <1>21. RegroupInv'
    <2>1. Top'.node = d BY <1>5 DEF d
    <2>2. parent'[d] = p /\ name'[d] = name[d] BY <1>2, <1>3, <1>8, <1>10 DEF p
    <2>3. name'[p] \notin Lproj BY <1>2, <1>3, <1>6, <1>10
    <2>4. \E x \in DOMAIN kids'[p] : kids'[p][x] = d BY <1>2, <1>9
    <2> QED BY <1>1, <1>2, <1>4, <2>1, <2>2, <2>3, <2>4 DEF RegroupInv
  <1> QED BY <1>12, <1>14, <1>15, <1>16, <1>17, <1>18, <1>19, <1>21 DEF ShapeInv

LEMMA RegroupDoneShape == ASSUME ShapeInv, RegroupDone PROVE ShapeInv'
  <1> DEFINE d == Top.node
             p == parent[d]
  <1>1. /\ pc = "regroup" /\ pc' = "walk"
        /\ kids' = [kids EXCEPT ![p] = Without(@, d), ![d] = << >>]
        /\ j > Len(kids[d])
        /\ UNCHANGED <<files, k, i, cur, name, path, parent, named, size, pass, frames, j>>
    BY DEF RegroupDone, remove, walk
  <1>2. /\ d \in Nodes /\ Dissolving = {d} /\ p \in Nodes /\ p # d
        /\ \E x \in DOMAIN kids[p] : kids[p][x] = d
    BY <1>1, RegroupFacts
  <1>3. TypeOK /\ InListOnce /\ InListOfParent /\ kids \in [Nodes -> Seq(Nodes)]
    BY DEF ShapeInv, TypeOK
  <1> HIDE DEF d, p
  <1>4. /\ Without(kids[p], d) \in Seq(Nodes)
        /\ \A x, y \in DOMAIN Without(kids[p], d) :
             Without(kids[p], d)[x] = Without(kids[p], d)[y] => x = y
        /\ \A x \in DOMAIN Without(kids[p], d) :
             \E y \in DOMAIN kids[p] : kids[p][y] = Without(kids[p], d)[x]
    <2>1. kids[p] \in Seq(Nodes) BY <1>2, <1>3
    <2>2. \A x, y \in DOMAIN kids[p] : kids[p][x] = kids[p][y] => x = y
      BY <1>2, <1>3 DEF InListOnce
    <2> DEFINE s == kids[p]
    <2>3. /\ s \in Seq(Nodes) /\ \E x \in DOMAIN s : s[x] = d
          /\ \A x, y \in DOMAIN s : s[x] = s[y] => x = y
      BY <1>2, <2>1, <2>2
    <2> HIDE DEF s
    <2>4. /\ Without(s, d) \in Seq(Nodes)
          /\ \A x, y \in DOMAIN Without(s, d) : Without(s, d)[x] = Without(s, d)[y] => x = y
          /\ \A x \in DOMAIN Without(s, d) :
               Without(s, d)[x] # d /\ \E y \in DOMAIN s : s[y] = Without(s, d)[x]
      BY <2>3, WithoutProps
    <2> QED BY <2>4 DEF s
  <1> DEFINE t == Without(kids[p], d)
  <1>t. t \in Seq(Nodes) /\ << >> \in Seq(Nodes) BY <1>4
  <1>k. kids' = [kids EXCEPT ![p] = t, ![d] = << >>] BY <1>1
  <1> HIDE DEF t
  <1>5. /\ kids'[p] = t /\ kids'[d] = << >>
        /\ \A q \in Nodes : q # p /\ q # d => kids'[q] = kids[q]
        /\ kids' \in [Nodes -> Seq(Nodes)]
    BY <1>2, <1>3, <1>t, <1>k
  <1>6. DOMAIN kids'[d] = {} BY <1>5
  <1> HIDE DEF Nodes
  <1>7. Sublists(kids')
    <2>1. ASSUME NEW q \in Nodes
          PROVE  /\ \A x, y \in DOMAIN kids'[q] : kids'[q][x] = kids'[q][y] => x = y
                 /\ \A x \in DOMAIN kids'[q] :
                      \E y \in DOMAIN kids[q] : kids[q][y] = kids'[q][x]
      <3>1. CASE q = p BY <1>4, <1>5, <3>1 DEF t
      <3>2. CASE q = d BY <1>6, <3>2
      <3>3. CASE q # p /\ q # d BY <1>3, <1>5, <3>3 DEF InListOnce
      <3> QED BY <3>1, <3>2, <3>3
    <2> QED BY <1>5, <2>1 DEF Sublists
  <1>8. TypeOK' BY <1>1, <1>3, <1>5 DEF TypeOK
  <1>9. Made' /\ InListOnce' /\ NoNestedLproj' /\ NamedChild'
    BY <1>1, <1>7, SublistsShape
  <1>10. InListOfParent'
    <2>1. ASSUME NEW q \in Nodes, NEW x \in DOMAIN kids'[q]
          PROVE  parent[kids'[q][x]] = q
      <3>1. q # d BY <1>6
      <3>2. PICK y \in DOMAIN kids[q] : kids[q][y] = kids'[q][x] BY <1>7 DEF Sublists
      <3> QED BY <1>2, <1>3, <3>1, <3>2 DEF InListOfParent
    <2> QED BY <1>1, <2>1 DEF InListOfParent
  <1>11. NamedExact' /\ CursorNamed' /\ RegroupInv'
    BY <1>1 DEF NamedExact, CursorNamed, RegroupInv
  <1> QED BY <1>8, <1>9, <1>10, <1>11 DEF ShapeInv

-----------------------------------------------------------------------------
(* A node hangs in one list *)

LEMMA InitShape == Init => ShapeInv
  <1> SUFFICES ASSUME Init PROVE ShapeInv OBVIOUS
  <1>1. TypeOK BY DEF Init, TypeOK
  <1>2. \A p \in Nodes : DOMAIN kids[p] = {} /\ Len(kids[p]) = 0 BY DEF Init
  <1>3. Made BY <1>2 DEF Init, Made
  <1>4. InListOnce /\ InListOfParent /\ NoNestedLproj
    BY <1>2 DEF InListOnce, InListOfParent, NoNestedLproj
  <1>5. NamedChild /\ NamedExact BY DEF Init, NamedChild, NamedExact
  <1>6. CursorNamed
    <2>1. files \in Seq(Seq(Names \cup {Up, Slash})) BY PathAssumption DEF Init
    <2>2. SUFFICES ASSUME 1 <= Len(files) PROVE 0 <= Len(files[1])
      BY DEF Init, CursorNamed
    <2>3. 1 \in 1 .. Len(files) BY <2>1, <2>2, SeqDomain
    <2>4. files[1] \in Seq(Names \cup {Up, Slash}) BY <2>1, <2>3, SeqDomain
    <2> QED BY <2>4, SeqDomain
  <1>7. RegroupInv BY DEF Init, RegroupInv
  <1> QED BY <1>1, <1>3, <1>4, <1>5, <1>6, <1>7 DEF ShapeInv

LEMMA StepShape == ShapeInv /\ [Next]_vars => ShapeInv'
  <1> SUFFICES ASSUME ShapeInv, [Next]_vars PROVE ShapeInv' OBVIOUS
  <1>1. CASE UNCHANGED vars
    BY <1>1 DEF vars, fields, walk, ShapeInv, TypeOK, Made, InListOnce, InListOfParent,
       NoNestedLproj, NamedChild, NamedExact, CursorNamed, RegroupInv, Dissolving, Top
  <1>2. CASE Next
    BY <1>2, AddAbsoluteShape, AddUpShape, AddExistingShape, AddNewShape, FileAddedShape,
       AllAddedShape, StartPassShape, VisitLeafShape, VisitBranchShape, ReturnShape,
       EndPassShape, RegroupIntoShape, RegroupNewShape, RegroupDoneShape DEF Next
  <1> QED BY <1>1, <1>2

LEMMA ShapeInvariant == Spec => []ShapeInv
  BY InitShape, StepShape, PTL DEF Spec

\* For every list of files and every order of names: inserting, removing and
\* sorting during the traversals (tree.insert, tree.remove, tree.sort) leave
\* every node in one list, once, and that list is the one of its parent.
THEOREM TreeShapeKept == Spec => []TreeShape
  <1>1. ShapeInv => TreeShape
    BY DEF ShapeInv, InListOnce, InListOfParent, TreeShape
  <1> QED BY <1>1, ShapeInvariant, PTL

-----------------------------------------------------------------------------
(* A path is split only by a namesake *)

SplitInv == ShapeInv /\ LatestNamed /\ SplitOnlyByNamesakes

LEMMA AddNewSplit ==
  ASSUME SplitInv, AddNew PROVE LatestNamed' /\ SplitOnlyByNamesakes'
  <1> DEFINE n == size + 1
             x0 == Component
  <1>1. /\ pc = "add" /\ pc' = "add" /\ k <= Len(files) /\ i < Len(files[k])
        /\ x0 \in Names /\ size < MaxNodes /\ size' = n
        /\ name' = [name EXCEPT ![n] = x0] /\ path' = [path EXCEPT ![n] = Prefix]
        /\ named' = [named EXCEPT ![cur][name'[n]] = n]
        /\ parent' = [parent EXCEPT ![n] = cur]
        /\ Found(cur, x0, Prefix) = {}
    BY DEF AddNew, AddsTo, insert
  <1>2. /\ i \in Nat /\ size \in Nodes /\ cur \in Nodes /\ cur \in 1 .. size
        /\ name \in [Nodes -> Names \cup {Nil}]
        /\ path \in [Nodes -> Seq(Names \cup {Up, Slash})]
        /\ parent \in [Nodes -> Nodes \cup {Nil}]
        /\ named \in [Nodes -> [Names -> Nodes \cup {Nil}]]
    BY DEF SplitInv, ShapeInv, TypeOK
  <1>3. /\ Made /\ NamedExact /\ LatestNamed /\ SplitOnlyByNamesakes
    BY DEF SplitInv, ShapeInv
  <1>4. /\ n \in Nodes /\ n \in 2 .. n /\ n # cur
        /\ \A m \in 2 .. n : m = n \/ m \in 2 .. size
        /\ \A m \in 2 .. size : m \in Nodes /\ m # n /\ n \in m .. n /\ m < n
             /\ m .. size \subseteq m .. n
        /\ \A m, l \in 2 .. size : m < n
    BY <1>1, <1>2
  <1>5. Len(Prefix) = i + 1 /\ Prefix[Len(Prefix)] = x0
    <2>1. /\ files[k] \in Seq(Names \cup {Up, Slash}) /\ Len(files[k]) \in Nat
      BY <1>1, FileLists DEF SplitInv
    <2>2. \A x \in 1 .. i + 1 : files[k][x] \in Names \cup {Up, Slash}
      BY <1>1, <1>2, <2>1, SeqDomain
    <2>3. Len(Prefix) = i + 1 /\ \A x \in 1 .. i + 1 : Prefix[x] = files[k][x]
      BY <1>2, <2>2, SubSeqProperties DEF Prefix
    <2> QED BY <1>2, <2>3 DEF x0, Component
  <1> HIDE DEF n, x0, Nodes
  <1>6. /\ name'[n] = x0 /\ \A m \in Nodes : m # n => name'[m] = name[m]
        /\ parent'[n] = cur /\ \A m \in Nodes : m # n => parent'[m] = parent[m]
        /\ path'[n] = Prefix /\ \A m \in Nodes : m # n => path'[m] = path[m]
    BY <1>1, <1>2, <1>4
  <1>7. /\ named'[cur][x0] = n
        /\ \A p \in Nodes : \A x \in Names : p # cur \/ x # x0 => named'[p][x] = named[p][x]
    BY <1>1, <1>2, <1>4, <1>6
  <1>8. \A m \in 2 .. size :
          /\ name[m] \in Names /\ parent[m] \in Nodes
          /\ Len(path[m]) > 0 /\ name[m] = path[m][Len(path[m])]
          /\ named[parent[m]][name[m]] \in m .. size
    BY <1>1, <1>3 DEF Made, LatestNamed
  <1>9. LatestNamed'
    <2>1. ASSUME NEW m \in 2 .. n
          PROVE  /\ Len(path'[m]) > 0 /\ name'[m] = path'[m][Len(path'[m])]
                 /\ parent'[m] \in Nodes
                 /\ named'[parent'[m]][name'[m]] \in m .. n
      <3>1. CASE m = n
        <4>1. Len(path'[n]) > 0 /\ name'[n] = path'[n][Len(path'[n])]
          BY <1>2, <1>5, <1>6
        <4>2. n \in n .. n BY <1>4
        <4> QED BY <1>2, <1>6, <1>7, <3>1, <4>1, <4>2
      <3>2. CASE m \in 2 .. size
        <4>1. m \in Nodes /\ m # n BY <1>4, <3>2
        <4>2. /\ name'[m] = name[m] /\ parent'[m] = parent[m] /\ path'[m] = path[m]
          BY <1>6, <4>1
        <4>3. named'[parent[m]][name[m]] \in m .. n
          <5>1. CASE parent[m] = cur /\ name[m] = x0 BY <1>4, <1>7, <3>2, <5>1
          <5>2. CASE ~(parent[m] = cur /\ name[m] = x0)
            <6>1. named'[parent[m]][name[m]] = named[parent[m]][name[m]]
              BY <1>7, <1>8, <3>2, <5>2
            <6> QED BY <1>4, <1>8, <3>2, <6>1
          <5> QED BY <5>1, <5>2
        <4> QED BY <1>8, <3>2, <4>2, <4>3
      <3> QED BY <1>4, <3>1, <3>2
    <2> QED BY <1>1, <2>1 DEF LatestNamed
  <1>10. SplitOnlyByNamesakes'
    <2>1. ASSUME NEW m \in 2 .. n, NEW l \in 2 .. n, m < l,
                 path'[m] = path'[l], parent'[m] = parent'[l]
          PROVE  \E o \in m + 1 .. l - 1 :
                   parent'[o] = parent'[m] /\ name'[o] = name'[m] /\ path'[o] # path'[m]
      <3>1. m \in 2 .. size
        BY <1>2, <2>1 DEF n, Nodes
      <3>2. m \in Nodes /\ m # n /\ m \in Nat BY <1>4, <3>1
      <3>3. name'[m] = name[m] /\ parent'[m] = parent[m] /\ path'[m] = path[m]
        BY <1>6, <3>2
      <3>4. CASE l = n
        <4>1. parent[m] = cur /\ path[m] = Prefix BY <1>6, <2>1, <3>3, <3>4
        <4>2. name[m] = x0 BY <1>5, <1>8, <3>1, <4>1
        <4> DEFINE o == named[cur][x0]
        <4>3. o \in m .. size BY <1>8, <3>1, <4>1, <4>2
        <4>4. o # Nil /\ parent[o] = cur /\ name[o] = x0
          <5>1. o # Nil BY <3>1, <4>3
          <5> QED BY <1>1, <1>2, <1>3, <5>1 DEF NamedExact
        <4>5. path[o] # Prefix BY <1>1, <4>4 DEF Found
        <4> HIDE DEF o
        <4>6. o # m BY <4>1, <4>5
        <4>7. o \in m + 1 .. n - 1 /\ o \in 2 .. size BY <1>2, <3>1, <4>3, <4>6 DEF n, Nodes
        <4>8. parent'[o] = cur /\ name'[o] = x0 /\ path'[o] = path[o]
          BY <1>4, <1>6, <4>4, <4>7
        <4> QED BY <3>3, <3>4, <4>1, <4>2, <4>5, <4>7, <4>8
      <3>5. CASE l # n
        <4>1. l \in 2 .. size BY <1>4, <3>5
        <4>2. l \in Nodes /\ parent'[l] = parent[l] /\ path'[l] = path[l]
          BY <1>4, <1>6, <3>5, <4>1
        <4>3. PICK o \in m + 1 .. l - 1 :
                parent[o] = parent[m] /\ name[o] = name[m] /\ path[o] # path[m]
          BY <1>1, <1>3, <2>1, <3>1, <3>3, <4>1, <4>2 DEF SplitOnlyByNamesakes
        <4>4. o \in 2 .. size BY <1>2, <3>1, <4>1, <4>3 DEF Nodes
        <4>5. parent'[o] = parent[o] /\ name'[o] = name[o] /\ path'[o] = path[o]
          BY <1>4, <1>6, <4>4
        <4> QED BY <3>3, <4>3, <4>5
      <3> QED BY <3>4, <3>5
    <2> QED BY <1>1, <2>1 DEF SplitOnlyByNamesakes
  <1> QED BY <1>9, <1>10

\* For every list of files: tree.add makes a second node for a path only if a
\* node of the same name and another path came between the two, as when the
\* files of ../Common and ../../Common alternate.
THEOREM SplitsExplained == Spec => []SplitOnlyByNamesakes
  <1>1. Init => SplitInv
    <2> SUFFICES ASSUME Init PROVE LatestNamed /\ SplitOnlyByNamesakes
      BY InitShape DEF SplitInv
    <2>1. 2 .. size = {} BY DEF Init
    <2> QED BY <2>1 DEF LatestNamed, SplitOnlyByNamesakes
  <1>2. SplitInv /\ [Next]_vars => SplitInv'
    <2> SUFFICES ASSUME SplitInv, [Next]_vars
                 PROVE  LatestNamed' /\ SplitOnlyByNamesakes'
      BY StepShape DEF SplitInv
    <2>1. CASE AddNew BY <2>1, AddNewSplit
    <2>2. CASE pc' = "add" /\ ~AddNew
      <3>1. pc = "add" /\ UNCHANGED <<name, path, parent, named, size>>
        BY <2>2 DEF Next, vars, fields, walk, AddAbsolute, AddUp, AddExisting, FileAdded,
           AllAdded, AddsTo, StartPass, VisitLeaf, VisitBranch, Return, EndPass, HasNext,
           Onnode, RegroupInto, RegroupNew, RegroupDone, Regroups, remove
      <3> QED BY <3>1 DEF SplitInv, LatestNamed, SplitOnlyByNamesakes
    <2>3. CASE pc' # "add" BY <2>3 DEF LatestNamed, SplitOnlyByNamesakes
    <2> QED BY <2>1, <2>2, <2>3
  <1>3. SplitInv => SplitOnlyByNamesakes BY DEF SplitInv
  <1> QED BY <1>1, <1>2, <1>3, PTL DEF Spec
-----------------------------------------------------------------------------
(* A traversal visits every node once *)

FrameNodes == {frames[l].node : l \in 1 .. Len(frames)}

Walking == pc \in {"walk", "regroup"}

\* An .lproj directory is on the path.
Under(p) == \E x \in DOMAIN p : p[x] \in Lproj

Counted ==
  /\ visits \in [Nodes -> {0, 1}]
  /\ \A n \in Nodes : n > size => visits[n] = 0

\* The frames are a path from the root; a node on it hangs, if it still does, at
\* the position where the loop over its siblings stands.
Stack ==
  /\ Walking <=> Len(frames) > 0
  /\ Len(frames) > 0 => frames[1].node = Root
  /\ \A l \in 2 .. Len(frames) :
       /\ frames[l].node # Root /\ visits[frames[l].node] = 1
       /\ parent[frames[l].node] = frames[l - 1].node
       /\ \A x \in DOMAIN kids[frames[l - 1].node] :
            kids[frames[l - 1].node][x] = frames[l].node => x = frames[l - 1].i
  /\ \A l, m \in 1 .. Len(frames) : frames[l].node = frames[m].node => l = m
  /\ pc = "regroup" => Len(frames) > 1 /\ Top.i = 1 /\ pass = "localize"
  /\ pc = "add" => pass = "sort"
  /\ pc = "done" => pass = "list"

\* What a loop has still before it was not visited, what is behind it was.
Ahead ==
  \A l \in 1 .. Len(frames) : \A x \in DOMAIN kids[frames[l].node] :
    x >= frames[l].i =>
      \/ visits[kids[frames[l].node][x]] = 0
      \/ l < Len(frames) /\ kids[frames[l].node][x] = frames[l + 1].node

Behind ==
  \A l \in 1 .. Len(frames) : \A x \in DOMAIN kids[frames[l].node] :
    x < frames[l].i => visits[kids[frames[l].node][x]] = 1

\* Below a node that was not visited nothing was.
VisitedBelow ==
  \A p \in Nodes \ {Root} : \A x \in DOMAIN kids[p] :
    visits[kids[p][x]] = 1 => visits[p] = 1

\* The traversal that moves nodes runs, or has just ended.
Moving == (pass = "localize" /\ Walking) \/ (pass = "list" /\ pc = "start")

Started == Walking \/ pc = "done" \/ (pc = "start" /\ pass # "sort")

\* A node that may have come where the traversal had been before.
MayHaveMoved(n) == Moving /\ Under(path[n]) /\ name[n] \notin Lproj

\* Whoever has been visited and left has had its children visited, but for
\* what was moved to it.
Explored ==
  Started =>
    \A p \in Nodes \ FrameNodes : p = Root \/ visits[p] = 1 =>
      \A x \in DOMAIN kids[p] :
        visits[kids[p][x]] = 1 \/ MayHaveMoved(kids[p][x])

\* What hangs below an .lproj directory, or has been moved out of one, has it on
\* its path; the directory itself hangs below none.
LprojBelow ==
  \A p \in Nodes : \A x \in DOMAIN kids[p] :
    /\ name[p] \in Lproj \/ Under(path[p]) => Under(path[kids[p][x]])
    /\ name[kids[p][x]] \in Lproj => ~Under(path[p])

CursorPath ==
  pc = "add" /\ cur # Root =>
    k <= Len(files) /\ \E l \in 0 .. i : path[cur] = SubSeq(files[k], 1, l)

\* Every node is one level below its parent.
Level(depth, up) ==
  \A n \in Nodes : up[n] # Nil => depth[n] = depth[up[n]] + 1

Levels == \E depth \in [Nodes -> Nat] : Level(depth, parent)

\* The last traversal moves nothing.
VisitedHang ==
  pass = "list" /\ (Walking \/ pc = "done") =>
    \A n \in Nodes \ {Root} : visits[n] = 1 => parent[n] # Nil /\ Hangs(n, parent[n])

Parents == path[Root] = << >> /\ parent[Root] = Nil /\ \A n \in Nodes : parent[n] <= size

\* What holds of the nodes, whatever traversal runs.
NodeInv == ShapeInv /\ Parents /\ LprojBelow /\ CursorPath /\ Levels

VisitInv ==
  /\ NodeInv
  /\ Counted /\ Stack /\ Ahead /\ Behind /\ VisitedBelow /\ Explored /\ VisitedHang

\* The tables of a state in which nodes are made.
LEMMA AddNewEffect ==
  ASSUME ShapeInv, AddNew
  PROVE  /\ pc = "add" /\ pc' = "add" /\ k <= Len(files) /\ i < Len(files[k]) /\ i' = i + 1
         /\ cur \in Nodes /\ cur \in 1 .. size /\ Component \in Names
         /\ size' = size + 1 /\ size + 1 \in Nodes /\ size + 1 # cur /\ cur' = size + 1
         /\ name'[size + 1] = Component /\ path'[size + 1] = Prefix /\ parent'[size + 1] = cur
         /\ \A m \in Nodes : m # size + 1 => /\ name'[m] = name[m] /\ path'[m] = path[m]
                                             /\ parent'[m] = parent[m]
         /\ \A q \in Nodes : \A x \in DOMAIN kids'[q] :
              \/ x \in DOMAIN kids[q] /\ kids'[q][x] = kids[q][x]
              \/ q = cur /\ kids'[q][x] = size + 1
         /\ \A q \in Nodes : \A x \in DOMAIN kids[q] :
              /\ kids[q][x] \in Nodes /\ kids[q][x] # size + 1 /\ q # size + 1
              /\ x \in DOMAIN kids'[q] /\ kids'[q][x] = kids[q][x]
         /\ UNCHANGED <<files, k, pass, frames, j, visits>>
  <1> DEFINE n == size + 1
             x0 == Component
  <1>1. /\ pc = "add" /\ pc' = "add" /\ k <= Len(files) /\ i < Len(files[k]) /\ i' = i + 1
        /\ x0 \in Names /\ size < MaxNodes /\ size' = n /\ cur' = n
        /\ name' = [name EXCEPT ![n] = x0] /\ path' = [path EXCEPT ![n] = Prefix]
        /\ kids' = [kids EXCEPT ![cur] = Append(@, n)]
        /\ parent' = [parent EXCEPT ![n] = cur]
        /\ UNCHANGED <<files, k, pass, frames, j, visits>>
    BY DEF AddNew, AddsTo, insert, walk
  <1>2. /\ size \in Nodes /\ cur \in 1 .. size /\ cur \in Nodes /\ Made
        /\ name \in [Nodes -> Names \cup {Nil}]
        /\ path \in [Nodes -> Seq(Names \cup {Up, Slash})]
        /\ parent \in [Nodes -> Nodes \cup {Nil}] /\ kids \in [Nodes -> Seq(Nodes)]
    BY SMTT(30) DEF ShapeInv, TypeOK
  <1>3. n \in Nodes /\ n \notin 1 .. size /\ n # cur /\ \A m \in 2 .. size : m \in Nodes /\ m # n
    BY <1>1, <1>2
  <1> HIDE DEF x0
  <1>n. n > size BY <1>2
  <1> HIDE DEF n
  <1>4. /\ \A q \in Nodes : \A x \in DOMAIN kids'[q] :
             \/ x \in DOMAIN kids[q] /\ kids'[q][x] = kids[q][x]
             \/ q = cur /\ kids'[q][x] = n
        /\ \A q \in Nodes : \A x \in DOMAIN kids[q] :
             x \in DOMAIN kids'[q] /\ kids'[q][x] = kids[q][x]
    <2>1. /\ kids \in [Nodes -> Seq(Nodes)] /\ cur \in Nodes /\ n \in Nodes
          /\ kids' = [kids EXCEPT ![cur] = Append(@, n)]
      BY <1>1, <1>2, <1>3
    <2> HIDE DEF Nodes
    <2> QED BY <2>1, InsertKids
  <1>5. ASSUME NEW q \in Nodes, NEW x \in DOMAIN kids[q]
        PROVE  kids[q][x] \in Nodes /\ kids[q][x] # n /\ q # n
    <2>1. kids[q][x] \in 2 .. size BY <1>2 DEF Made
    <2>2. q # n
      <3>1. SUFFICES ASSUME q = n PROVE FALSE OBVIOUS
      <3>2. Len(kids[n]) = 0 BY <1>2, <1>3, <1>n DEF Made
      <3>3. DOMAIN kids[n] = 1 .. Len(kids[n]) BY <1>2, <1>3, SeqDomain
      <3> QED BY <3>1, <3>2, <3>3
    <2> QED BY <1>3, <2>1, <2>2
  <1>6. /\ name'[n] = x0 /\ path'[n] = Prefix /\ parent'[n] = cur
        /\ \A m \in Nodes : m # n => /\ name'[m] = name[m] /\ path'[m] = path[m]
                                     /\ parent'[m] = parent[m]
    BY <1>1, <1>2, <1>3
  <1>7. \A q \in Nodes : \A x \in DOMAIN kids[q] :
          /\ kids[q][x] \in Nodes /\ kids[q][x] # n /\ q # n
          /\ x \in DOMAIN kids'[q] /\ kids'[q][x] = kids[q][x]
    BY <1>4, <1>5
  <1>8. cur \in Nodes /\ cur \in 1 .. size /\ n \in Nodes /\ n # cur BY <1>2, <1>3
  <1> HIDE DEF Nodes
  <1> QED BY <1>1, <1>4, <1>6, <1>7, <1>8 DEF x0, n

\* The beginnings of the path that is added.
LEMMA PrefixFacts ==
  ASSUME ShapeInv, k <= Len(files), NEW l \in Nat, l <= Len(files[k])
  PROVE  /\ DOMAIN SubSeq(files[k], 1, l) = 1 .. l
         /\ \A x \in 1 .. l : SubSeq(files[k], 1, l)[x] = files[k][x] /\ x \in DOMAIN files[k]
  <1>1. /\ files[k] \in Seq(Names \cup {Up, Slash}) /\ Len(files[k]) \in Nat
        /\ DOMAIN files[k] = 1 .. Len(files[k])
    BY FileLists
  <1>2. \A x \in 1 .. l : files[k][x] \in Names \cup {Up, Slash} BY <1>1, SeqDomain
  <1>3. /\ SubSeq(files[k], 1, l) \in Seq(Names \cup {Up, Slash})
        /\ Len(SubSeq(files[k], 1, l)) = l
        /\ \A x \in 1 .. l : SubSeq(files[k], 1, l)[x] = files[k][x]
    BY <1>2, SubSeqProperties
  <1>4. DOMAIN SubSeq(files[k], 1, l) = 1 .. l BY <1>3, SeqDomain
  <1>5. \A x \in 1 .. l : x \in DOMAIN files[k] BY <1>1
  <1> QED BY <1>3, <1>4, <1>5

\* What is on the path of the node that add has returned was in the path added.
LEMMA CursorUnder ==
  ASSUME NodeInv, pc = "add", k <= Len(files), i < Len(files[k]),
         name[cur] \in Lproj \/ Under(path[cur])
  PROVE  \E x \in 1 .. i : files[k][x] \in Lproj
  <1>1. ShapeInv /\ CursorPath /\ Parents /\ i \in Nat /\ cur \in 1 .. size /\ Made /\ CursorNamed
    BY DEF NodeInv, ShapeInv, TypeOK
  <1>2. CASE name[cur] \in Lproj
    <2>1. cur # Root BY <1>1, <1>2 DEF Made
    <2> QED BY <1>1, <1>2, <2>1 DEF CursorNamed
  <1>3. CASE Under(path[cur])
    <2>1. PICK y \in DOMAIN path[cur] : path[cur][y] \in Lproj BY <1>3 DEF Under
    <2>2. cur # Root
      <3>1. DOMAIN << >> = {} OBVIOUS
      <3> QED BY <1>1, <2>1, <3>1 DEF Parents
    <2>3. PICK l \in 0 .. i : path[cur] = SubSeq(files[k], 1, l) BY <1>1, <2>2 DEF CursorPath
    <2>4. l \in Nat /\ l <= Len(files[k]) /\ 1 .. l \subseteq 1 .. i
      BY <1>1, FileLists
    <2>5. y \in 1 .. l /\ path[cur][y] = files[k][y] BY <1>1, <2>1, <2>3, <2>4, PrefixFacts
    <2> QED BY <2>1, <2>4, <2>5
  <1> QED BY <1>2, <1>3

LEMMA AddNewNodes == ASSUME NodeInv, AddNew PROVE NodeInv'
  <1> DEFINE n == size + 1
  <1>1. /\ pc = "add" /\ pc' = "add" /\ k <= Len(files) /\ i < Len(files[k]) /\ i' = i + 1
        /\ cur \in Nodes /\ cur \in 1 .. size /\ Component \in Names
        /\ size' = n /\ n \in Nodes /\ n # cur /\ cur' = n
        /\ name'[n] = Component /\ path'[n] = Prefix /\ parent'[n] = cur
        /\ \A m \in Nodes : m # n => /\ name'[m] = name[m] /\ path'[m] = path[m]
                                     /\ parent'[m] = parent[m]
        /\ \A q \in Nodes : \A x \in DOMAIN kids'[q] :
             \/ x \in DOMAIN kids[q] /\ kids'[q][x] = kids[q][x]
             \/ q = cur /\ kids'[q][x] = n
        /\ \A q \in Nodes : \A x \in DOMAIN kids[q] :
             kids[q][x] \in Nodes /\ kids[q][x] # n /\ q # n
        /\ files' = files /\ k' = k
    BY AddNewEffect DEF NodeInv
  <1>2. /\ i \in Nat /\ size \in Nodes /\ ShapeInv /\ Parents /\ LprojBelow /\ Levels
        /\ parent \in [Nodes -> Nodes \cup {Nil}]
    BY DEF NodeInv, ShapeInv, TypeOK
  <1>3. n > size /\ Root # n /\ Root \in Nodes BY <1>2
  <1>4. /\ DOMAIN Prefix = 1 .. i + 1
        /\ \A x \in 1 .. i + 1 : Prefix[x] = files[k][x] /\ x \in DOMAIN files[k]
    <2>1. i + 1 \in Nat /\ i + 1 <= Len(files[k]) BY <1>1, <1>2, FileLists
    <2> QED BY <1>1, <1>2, <2>1, PrefixFacts DEF Prefix
  <1> HIDE DEF n
  <1>5. ShapeInv' BY <1>2, AddNewShape
  <1>6. Parents'
    <2>1. parent'[Root] = Nil /\ path'[Root] = << >> BY <1>1, <1>2, <1>3 DEF Parents
    <2>2. ASSUME NEW m \in Nodes PROVE parent'[m] <= size'
      <3>1. CASE m = n BY <1>1, <1>2, <1>3, <3>1
      <3>2. CASE m # n
        <4>1. parent'[m] = parent[m] /\ parent[m] <= size BY <1>1, <1>2, <3>2 DEF Parents
        <4> QED BY <1>1, <1>2, <1>3, <4>1
      <3> QED BY <3>1, <3>2
    <2> QED BY <2>1, <2>2 DEF Parents
  <1>7. LprojBelow'
    <2> SUFFICES ASSUME NEW q \in Nodes, NEW x \in DOMAIN kids'[q]
                 PROVE  /\ name'[q] \in Lproj \/ Under(path'[q]) => Under(path'[kids'[q][x]])
                        /\ name'[kids'[q][x]] \in Lproj => ~Under(path'[q])
      BY DEF LprojBelow
    <2>1. CASE x \in DOMAIN kids[q] /\ kids'[q][x] = kids[q][x]
      <3> DEFINE c == kids[q][x]
      <3>1. c \in Nodes /\ c # n /\ q # n BY <1>1, <2>1
      <3>2. /\ name[q] \in Lproj \/ Under(path[q]) => Under(path[c])
            /\ name[c] \in Lproj => ~Under(path[q])
        BY <1>2, <2>1 DEF LprojBelow
      <3>3. name'[q] = name[q] /\ path'[q] = path[q] /\ name'[c] = name[c] /\ path'[c] = path[c]
        BY <1>1, <3>1
      <3> HIDE DEF c
      <3>4. /\ name'[q] \in Lproj \/ Under(path'[q])
                 => Under(path'[c])
            /\ name'[c] \in Lproj => ~Under(path'[q])
        BY <3>2, <3>3
      <3> QED BY <2>1, <3>4 DEF c
    <2>2. CASE q = cur /\ kids'[q][x] = n
      <3>1. name'[q] = name[q] /\ path'[q] = path[q] BY <1>1, <2>2
      <3>2. ASSUME name'[q] \in Lproj \/ Under(path'[q])
            PROVE  \E y \in 1 .. i : files[k][y] \in Lproj
        <4>1. name[cur] \in Lproj \/ Under(path[cur]) BY <2>2, <3>1, <3>2
        <4> QED BY <1>1, <4>1, CursorUnder
      <3>3. ASSUME name'[q] \in Lproj \/ Under(path'[q]) PROVE Under(path'[n])
        <4>1. PICK y \in 1 .. i : files[k][y] \in Lproj BY <3>2, <3>3
        <4>2. y \in 1 .. i + 1 BY <1>2
        <4> QED BY <1>1, <1>4, <4>1, <4>2 DEF Under
      <3>4. ASSUME name'[n] \in Lproj, Under(path'[q]) PROVE FALSE
        <4>1. PICK y \in 1 .. i : files[k][y] \in Lproj BY <3>2, <3>4
        <4>2. y \in DOMAIN files[k] /\ i + 1 \in DOMAIN files[k] /\ y # i + 1
          BY <1>2, <1>4
        <4>3. files[k][i + 1] \in Lproj BY <1>1, <3>4 DEF Component
        <4>4. files \in Projects /\ k \in DOMAIN files
          BY <1>1, <1>2, FileLists DEF ShapeInv, TypeOK
        <4> QED BY <4>1, <4>2, <4>3, <4>4, PathAssumption
      <3> QED BY <2>2, <3>3, <3>4
    <2> QED BY <1>1, <2>1, <2>2
  <1>8. CursorPath'
    <2>1. i + 1 \in 0 .. i + 1 BY <1>2
    <2> QED BY <1>1, <2>1 DEF CursorPath, Prefix
  <1>9. Levels'
    <2>1. PICK depth \in [Nodes -> Nat] : Level(depth, parent) BY <1>2 DEF Levels
    <2> DEFINE deep == [depth EXCEPT ![n] = depth[cur] + 1]
    <2>2. deep \in [Nodes -> Nat] BY <1>1, <2>1
    <2>3. deep[n] = depth[cur] + 1 /\ \A m \in Nodes : m # n => deep[m] = depth[m]
      BY <1>1, <2>1
    <2> HIDE DEF deep
    <2>4. ASSUME NEW m \in Nodes, parent'[m] # Nil PROVE deep[m] = deep[parent'[m]] + 1
      <3>1. CASE m = n BY <1>1, <2>3, <3>1
      <3>2. CASE m # n
        <4>1. parent'[m] = parent[m] /\ parent[m] \in Nodes BY <1>1, <1>2, <2>4, <3>2
        <4>2. parent[m] # n
          <5>1. parent[m] <= size BY <1>2 DEF Parents
          <5> QED BY <1>2, <1>3, <4>1, <5>1
        <4>3. depth[m] = depth[parent[m]] + 1 BY <2>1, <2>4, <4>1 DEF Level
        <4> QED BY <2>3, <3>2, <4>1, <4>2, <4>3
      <3> QED BY <3>1, <3>2
    <2>5. Level(deep, parent') BY <2>4 DEF Level
    <2> QED BY <2>2, <2>5 DEF Levels
  <1> QED BY <1>5, <1>6, <1>7, <1>8, <1>9 DEF NodeInv

\* The elements of the lists after a step are elements of the lists before it.
Fewer(kids2) ==
  \A q \in Nodes : \A x \in DOMAIN kids2[q] :
    \E y \in DOMAIN kids[q] : kids[q][y] = kids2[q][x]

\* A step that makes no node, and gives none a new parent.
LEMMA QuietNodes ==
  ASSUME NodeInv, UNCHANGED <<name, path, parent, size>>, ShapeInv', Fewer(kids'), CursorPath'
  PROVE  NodeInv'
  <1>1. Parents /\ LprojBelow /\ Levels BY DEF NodeInv
  <1>2. Parents' /\ Levels' BY <1>1 DEF Parents, Levels
  <1>3. LprojBelow'
    <2> SUFFICES ASSUME NEW q \in Nodes, NEW x \in DOMAIN kids'[q]
                 PROVE  /\ name[q] \in Lproj \/ Under(path[q]) => Under(path[kids'[q][x]])
                        /\ name[kids'[q][x]] \in Lproj => ~Under(path[q])
      BY DEF LprojBelow
    <2>1. PICK y \in DOMAIN kids[q] : kids[q][y] = kids'[q][x] BY DEF Fewer
    <2> QED BY <1>1, <2>1 DEF LprojBelow
  <1> QED BY <1>2, <1>3 DEF NodeInv

LEMMA SameFewer == ASSUME kids' = kids PROVE Fewer(kids')
  BY DEF Fewer

\* The steps that add nothing to the tree.
LEMMA AddStepNodes ==
  ASSUME NodeInv, AddAbsolute \/ AddUp \/ AddExisting \/ FileAdded \/ AllAdded
  PROVE  NodeInv'
  <1>1. UNCHANGED <<files, name, path, parent, kids, size>>
    BY DEF AddAbsolute, AddUp, AddExisting, FileAdded, AllAdded, AddsTo, fields
  <1>2. ShapeInv /\ CursorPath /\ i \in Nat /\ k \in Nat \ {0} BY DEF NodeInv, ShapeInv, TypeOK
  <1>3. ShapeInv'
    BY <1>2, AddAbsoluteShape, AddUpShape, AddExistingShape, FileAddedShape, AllAddedShape
  <1>4. CursorPath'
    <2>1. CASE AddAbsolute \/ AllAdded \/ FileAdded
      BY <2>1 DEF AddAbsolute, AllAdded, FileAdded, CursorPath
    <2>2. CASE AddUp
      <3>1. pc = "add" /\ k <= Len(files) /\ i' = i + 1
            /\ UNCHANGED <<files, k, cur, path, pc>>
        BY <2>2 DEF AddUp, AddsTo, fields
      <3>2. 0 .. i \subseteq 0 .. i + 1 BY <1>2
      <3> QED BY <1>2, <3>1, <3>2 DEF CursorPath
    <2>3. CASE AddExisting
      <3>1. pc = "add" /\ k <= Len(files) /\ i' = i + 1 /\ UNCHANGED <<files, k, path>>
            /\ path[cur'] = Prefix
        BY <2>3 DEF AddExisting, AddsTo, fields, Found
      <3>2. i + 1 \in 0 .. i + 1 BY <1>2
      <3> QED BY <3>1, <3>2 DEF CursorPath, Prefix
    <2> QED BY <2>1, <2>2, <2>3
  <1> QED BY <1>1, <1>3, <1>4, SameFewer, QuietNodes

\* The steps of the traversals but for the regrouping.
LEMMA TraversalNodes ==
  ASSUME NodeInv, StartPass \/ VisitLeaf \/ VisitBranch \/ Return \/ EndPass
  PROVE  NodeInv'
  <1>1. /\ UNCHANGED <<name, path, parent, size>> /\ ShapeInv /\ pc \in {"start", "walk"}
        /\ pc' # "add"
    BY DEF StartPass, VisitLeaf, VisitBranch, HasNext, Return, EndPass, Onnode, fields, NodeInv
  <1>2. ShapeInv'
    BY <1>1, StartPassShape, VisitLeafShape, VisitBranchShape, ReturnShape, EndPassShape
  <1>3. CursorPath' BY <1>1 DEF CursorPath
  <1>4. Fewer(kids')
    <2>1. CASE Return \/ EndPass BY <2>1, SameFewer DEF Return, EndPass, fields
    <2>2. CASE StartPass
      <3>1. Root \in Nodes OBVIOUS
      <3>2. \/ kids' = kids
            \/ \E t \in Arrangements(kids[Root]) : kids' = [kids EXCEPT ![Root] = t]
        BY <2>2 DEF StartPass, fields
      <3>3. Sublists(kids') BY <1>1, <3>1, <3>2, ArrangedSublists
      <3> QED BY <3>3 DEF Sublists, Fewer
    <2>3. CASE VisitLeaf \/ VisitBranch
      <3>1. /\ HasNext
            /\ \/ kids' = kids
               \/ \E t \in Arrangements(kids[Current]) : kids' = [kids EXCEPT ![Current] = t]
        BY <2>3 DEF VisitLeaf, VisitBranch, Onnode
      <3>2. Current \in Nodes BY <1>1, <3>1, CurrentChild
      <3>3. Sublists(kids') BY <1>1, <3>1, <3>2, ArrangedSublists
      <3> QED BY <3>3 DEF Sublists, Fewer
    <2> QED BY <2>1, <2>2, <2>3
  <1> QED BY <1>1, <1>2, <1>3, <1>4, QuietNodes

\* What the step that moves a file into its group changes.
LEMMA RegroupIntoEffect ==
  ASSUME ShapeInv, RegroupInto
  PROVE  LET d == Top.node
             p == parent[d]
         IN
         /\ pc = "regroup" /\ pc' = pc /\ j' = j + 1
         /\ d \in Nodes /\ p \in Nodes /\ p # d /\ name[d] \in Lproj /\ name[p] \notin Lproj
         /\ \E x \in DOMAIN kids[p] : kids[p][x] = d
         /\ j \in DOMAIN kids[d] /\ Moved = kids[d][j] /\ Moved \in 2 .. size /\ Moved \in Nodes
         /\ parent[Moved] = d /\ Moved # d
         /\ Group \in 2 .. size /\ Group \in Nodes /\ Group # d /\ parent[Group] = p
         /\ Group # Moved
         /\ name'[Moved] \in Names \ Lproj /\ parent'[Moved] = Group
         /\ \A n \in Nodes : n # Moved => name'[n] = name[n] /\ parent'[n] = parent[n]
         /\ \A q \in Nodes : q # Group => kids'[q] = kids[q]
         /\ \A q \in Nodes : \A x \in DOMAIN kids'[q] :
              \/ x \in DOMAIN kids[q] /\ kids'[q][x] = kids[q][x]
              \/ q = Group /\ x = Len(kids[Group]) + 1 /\ kids'[q][x] = Moved
         /\ \A q \in Nodes : \A x \in DOMAIN kids[q] :
              x \in DOMAIN kids'[q] /\ kids'[q][x] = kids[q][x] /\ kids[q][x] \in Nodes
         /\ UNCHANGED <<files, path, size, pass, frames, visits>>
  <1> DEFINE d == Top.node
             p == parent[d]
             m == Moved
             g == Group
  <1>1. /\ pc = "regroup" /\ pc' = pc /\ Regroups /\ g # Nil /\ j' = j + 1
        /\ name' = [name EXCEPT ![m] = Lang[name[d]]]
        /\ kids' = [kids EXCEPT ![g] = Append(@, m)]
        /\ parent' = [parent EXCEPT ![m] = g]
        /\ UNCHANGED <<files, path, size, pass, frames, visits>>
    BY DEF RegroupInto, Regroups, insert
  <1>2. /\ d \in Nodes /\ name[d] \in Lproj /\ p \in Nodes /\ p # d /\ name[p] \notin Lproj
        /\ \E x \in DOMAIN kids[p] : kids[p][x] = d
    BY <1>1, RegroupFacts
  <1>3. /\ j \in DOMAIN kids[d] /\ m = kids[d][j] /\ m \in 2 .. size /\ m \in Nodes
        /\ parent[m] = d /\ m # d /\ name[m] \in Names \ Lproj
        /\ Lang[name[d]] \in Names \ Lproj
    BY <1>1, MovedFacts
  <1>4. g \in 2 .. size /\ g \in Nodes /\ g # d BY <1>1, GroupFacts
  <1>5. /\ Made /\ NamedChild /\ kids \in [Nodes -> Seq(Nodes)] /\ size \in Nodes
        /\ name \in [Nodes -> Names \cup {Nil}] /\ parent \in [Nodes -> Nodes \cup {Nil}]
    BY DEF ShapeInv, TypeOK
  <1>6. parent[g] = p BY <1>1, <1>2, <1>3, <1>5 DEF NamedChild, Group
  <1>7. g # m BY <1>2, <1>3, <1>6
  <1> HIDE DEF m, g
  <1>8. /\ \A q \in Nodes : q # g => kids'[q] = kids[q]
        /\ \A q \in Nodes : \A x \in DOMAIN kids'[q] :
             \/ x \in DOMAIN kids[q] /\ kids'[q][x] = kids[q][x]
             \/ q = g /\ x = Len(kids[g]) + 1 /\ kids'[q][x] = m
        /\ \A q \in Nodes : \A x \in DOMAIN kids[q] :
             x \in DOMAIN kids'[q] /\ kids'[q][x] = kids[q][x]
    <2>1. /\ kids \in [Nodes -> Seq(Nodes)] /\ g \in Nodes /\ m \in Nodes
          /\ kids' = [kids EXCEPT ![g] = Append(@, m)]
      BY <1>1, <1>3, <1>4, <1>5
    <2> HIDE DEF Nodes
    <2> QED BY <2>1, InsertKids
  <1>9. /\ name'[m] = Lang[name[d]] /\ parent'[m] = g
        /\ \A n \in Nodes : n # m => name'[n] = name[n] /\ parent'[n] = parent[n]
    BY <1>1, <1>3, <1>5
  <1>10. \A q \in Nodes : \A x \in DOMAIN kids[q] : kids[q][x] \in Nodes
    BY <1>5, SMTT(30) DEF Made
  <1> HIDE DEF Nodes
  <1>11. \A q \in Nodes : \A x \in DOMAIN kids[q] :
           x \in DOMAIN kids'[q] /\ kids'[q][x] = kids[q][x] /\ kids[q][x] \in Nodes
    BY <1>8, <1>10
  <1>12. name'[m] \in Names \ Lproj BY <1>3, <1>9
  <1> QED BY <1>1, <1>2, <1>3, <1>4, <1>6, <1>7, <1>8, <1>9, <1>11, <1>12 DEF m, g

LEMMA RegroupIntoNodes == ASSUME NodeInv, RegroupInto PROVE NodeInv'
  <1> DEFINE d == Top.node
             p == parent[d]
             m == Moved
             g == Group
  <1>1. ShapeInv /\ Parents /\ LprojBelow /\ Levels /\ size \in Nodes
        /\ parent \in [Nodes -> Nodes \cup {Nil}]
    BY DEF NodeInv, ShapeInv, TypeOK
  <1>2. /\ pc = "regroup" /\ pc' = pc
        /\ d \in Nodes /\ p \in Nodes /\ p # d /\ name[d] \in Lproj /\ name[p] \notin Lproj
        /\ j \in DOMAIN kids[d] /\ m = kids[d][j] /\ m \in 2 .. size /\ m \in Nodes
        /\ parent[m] = d /\ m # d
        /\ g \in 2 .. size /\ g \in Nodes /\ g # d /\ parent[g] = p /\ g # m
        /\ name'[m] \in Names \ Lproj /\ parent'[m] = g
        /\ \A n \in Nodes : n # m => name'[n] = name[n] /\ parent'[n] = parent[n]
        /\ \A q \in Nodes : \A x \in DOMAIN kids'[q] :
             \/ x \in DOMAIN kids[q] /\ kids'[q][x] = kids[q][x]
             \/ q = g /\ x = Len(kids[g]) + 1 /\ kids'[q][x] = m
        /\ \A q \in Nodes : \A x \in DOMAIN kids[q] : kids[q][x] \in Nodes
        /\ UNCHANGED <<path, size>>
    BY <1>1, RegroupIntoEffect
  <1>3. m # Root /\ Root \in Nodes BY <1>2
  <1>4. g <= size BY <1>1, <1>2
  <1> HIDE DEF d, p, m, g, Nodes, Root
  <1>5. ShapeInv' BY <1>1, RegroupIntoShape
  <1>6. Parents' BY <1>1, <1>2, <1>3, <1>4 DEF Parents
  <1>7. Under(path[m]) BY <1>1, <1>2 DEF LprojBelow
  <1>8. LprojBelow'
    <2> SUFFICES ASSUME NEW q \in Nodes, NEW x \in DOMAIN kids'[q]
                 PROVE  /\ name'[q] \in Lproj \/ Under(path[q]) => Under(path[kids'[q][x]])
                        /\ name'[kids'[q][x]] \in Lproj => ~Under(path[q])
      BY <1>2 DEF LprojBelow
    <2>1. CASE kids'[q][x] = m BY <1>2, <1>7, <2>1
    <2>2. CASE kids'[q][x] # m
      <3>1. x \in DOMAIN kids[q] /\ kids'[q][x] = kids[q][x] /\ kids[q][x] \in Nodes
        BY <1>2, <2>2
      <3>2. name'[kids[q][x]] = name[kids[q][x]] BY <1>2, <2>2, <3>1
      <3>3. name'[q] \in Lproj => name[q] \in Lproj BY <1>2
      <3> QED BY <1>1, <3>1, <3>2, <3>3 DEF LprojBelow
    <2> QED BY <2>1, <2>2
  <1>9. CursorPath' BY <1>2 DEF CursorPath
  <1>10. Levels'
    <2>1. PICK depth \in [Nodes -> Nat] : Level(depth, parent) BY <1>1 DEF Levels
    <2>2. depth[m] = depth[g] + 1
      <3>1. d # Nil /\ p # Nil BY <1>2 DEF Nodes
      <3>2. parent[d] = p BY DEF p
      <3>3. depth[m] = depth[d] + 1 /\ depth[d] = depth[p] + 1 /\ depth[g] = depth[p] + 1
        BY <1>2, <2>1, <3>1, <3>2 DEF Level
      <3> QED BY <3>3
    <2>3. ASSUME NEW n \in Nodes, parent'[n] # Nil PROVE depth[n] = depth[parent'[n]] + 1
      <3>1. CASE n = m BY <1>2, <2>2, <3>1
      <3>2. CASE n # m
        <4>1. parent'[n] = parent[n] BY <1>2, <3>2
        <4> QED BY <2>1, <2>3, <4>1 DEF Level
      <3> QED BY <3>1, <3>2
    <2>4. Level(depth, parent') BY <2>3 DEF Level
    <2> QED BY <2>1, <2>4 DEF Levels
  <1> QED BY <1>5, <1>6, <1>8, <1>9, <1>10 DEF NodeInv

\* What the step that makes a group changes.
LEMMA RegroupNewEffect ==
  ASSUME ShapeInv, RegroupNew
  PROVE  LET d == Top.node
             p == parent[d]
             g == size + 1
         IN
         /\ pc = "regroup" /\ pc' = pc /\ j' = j + 1
         /\ d \in Nodes /\ p \in Nodes /\ p # d /\ name[d] \in Lproj /\ name[p] \notin Lproj
         /\ p \in 1 .. size
         /\ \E x \in DOMAIN kids[p] : kids[p][x] = d
         /\ j \in DOMAIN kids[d] /\ Moved = kids[d][j] /\ Moved \in 2 .. size /\ Moved \in Nodes
         /\ parent[Moved] = d /\ Moved # d
         /\ size' = g /\ g \in Nodes /\ g # Moved /\ g # p /\ g # d /\ g # Root
         /\ name'[g] \in Names \ Lproj /\ parent'[g] = p
         /\ name'[Moved] \in Names \ Lproj /\ parent'[Moved] = g
         /\ \A n \in Nodes : n # Moved /\ n # g => name'[n] = name[n] /\ parent'[n] = parent[n]
         /\ \A q \in Nodes : q # g /\ q # p => kids'[q] = kids[q]
         /\ \A q \in Nodes : \A x \in DOMAIN kids'[q] :
              \/ q # g /\ x \in DOMAIN kids[q] /\ kids'[q][x] = kids[q][x]
              \/ q = p /\ x = Len(kids[p]) + 1 /\ kids'[q][x] = g
              \/ q = g /\ x = 1 /\ kids'[q][x] = Moved
         /\ \A q \in Nodes : \A x \in DOMAIN kids[q] :
              kids[q][x] \in Nodes /\ kids[q][x] # g /\ q # g
         /\ UNCHANGED <<files, path, pass, frames, visits>>
  <1> DEFINE d == Top.node
             m == Moved
             p == parent[d]
             g == size + 1
  <1>1. /\ pc = "regroup" /\ pc' = pc /\ Regroups /\ j' = j + 1 /\ size < MaxNodes /\ size' = g
        /\ name' = [name EXCEPT ![g] = name[m], ![m] = Lang[name[d]]]
        /\ kids' = [kids EXCEPT ![p] = Append(@, g), ![g] = <<m>>]
        /\ parent' = [parent EXCEPT ![g] = p, ![m] = g]
        /\ UNCHANGED <<files, path, pass, frames, visits>>
    BY DEF RegroupNew, Regroups
  <1>2. /\ d \in Nodes /\ name[d] \in Lproj
        /\ p \in Nodes /\ p # d /\ p \in 1 .. size /\ name[p] \notin Lproj
        /\ \E x \in DOMAIN kids[p] : kids[p][x] = d
    BY <1>1, RegroupFacts
  <1>3. /\ j \in DOMAIN kids[d] /\ m = kids[d][j] /\ m \in 2 .. size /\ m \in Nodes
        /\ parent[m] = d /\ m # d /\ name[m] \in Names \ Lproj
        /\ Lang[name[d]] \in Names \ Lproj
    BY <1>1, MovedFacts
  <1>4. /\ Made /\ kids \in [Nodes -> Seq(Nodes)] /\ size \in Nodes
        /\ name \in [Nodes -> Names \cup {Nil}] /\ parent \in [Nodes -> Nodes \cup {Nil}]
    BY DEF ShapeInv, TypeOK
  <1>5. /\ g \in Nodes /\ g # m /\ g # p /\ g > size /\ g # Root
        /\ \A n \in 2 .. size : n \in Nodes /\ n # g
    <2>1. size \in Nat \ {0} /\ size < MaxNodes /\ m \in 2 .. size /\ p \in 1 .. size
      BY <1>1, <1>2, <1>3, <1>4
    <2> HIDE DEF m, p
    <2> QED BY <2>1
  <1>6. /\ Len(kids[g]) = 0
        /\ \A q \in Nodes : DOMAIN kids[q] = 1 .. Len(kids[q]) /\ Len(kids[q]) \in Nat
    <2>1. Len(kids[g]) = 0 BY <1>4, <1>5 DEF Made
    <2>2. \A q \in Nodes : kids[q] \in Seq(Nodes) BY <1>4
    <2> HIDE DEF Nodes
    <2> QED BY <2>1, <2>2, SeqDomain
  <1> HIDE DEF g
  <1>7. \A q \in Nodes : \A x \in DOMAIN kids[q] : q # g BY <1>5, <1>6
  <1>8. g # d BY <1>2, <1>3, <1>7
  <1> HIDE DEF d, m, p, Nodes
  <1>9. /\ \A q \in Nodes : q # g /\ q # p => kids'[q] = kids[q]
        /\ \A q \in Nodes : \A x \in DOMAIN kids'[q] :
             \/ q # g /\ x \in DOMAIN kids[q] /\ kids'[q][x] = kids[q][x]
             \/ q = p /\ x = Len(kids[p]) + 1 /\ kids'[q][x] = g
             \/ q = g /\ x = 1 /\ kids'[q][x] = m
    <2>1. kids[p] \in Seq(Nodes) /\ DOMAIN kids[p] = 1 .. Len(kids[p]) /\ Len(kids[p]) \in Nat
      BY <1>2, <1>4, <1>6
    <2>2. /\ DOMAIN Append(kids[p], g) = 1 .. Len(kids[p]) + 1
          /\ \A x \in 1 .. Len(kids[p]) : Append(kids[p], g)[x] = kids[p][x]
          /\ Append(kids[p], g)[Len(kids[p]) + 1] = g
      BY <1>5, <2>1, AppendProps
    <2>3. DOMAIN <<m>> = {1} /\ <<m>>[1] = m OBVIOUS
    <2>4. /\ kids'[p] = Append(kids[p], g) /\ kids'[g] = <<m>>
          /\ \A q \in Nodes : q # p /\ q # g => kids'[q] = kids[q]
      BY <1>1, <1>2, <1>4, <1>5
    <2>5. \A x \in 1 .. Len(kids[p]) + 1 : x = Len(kids[p]) + 1 \/ x \in 1 .. Len(kids[p])
      BY <2>1
    <2>6. ASSUME NEW q \in Nodes, NEW x \in DOMAIN kids'[q]
          PROVE  \/ q # g /\ x \in DOMAIN kids[q] /\ kids'[q][x] = kids[q][x]
                 \/ q = p /\ x = Len(kids[p]) + 1 /\ kids'[q][x] = g
                 \/ q = g /\ x = 1 /\ kids'[q][x] = m
      <3>1. CASE q = p BY <1>5, <2>1, <2>2, <2>4, <2>5, <3>1
      <3>2. CASE q = g BY <2>3, <2>4, <3>2
      <3>3. CASE q # p /\ q # g BY <2>4, <3>3
      <3> QED BY <3>1, <3>2, <3>3
    <2> QED BY <2>4, <2>6
  <1>10. /\ name'[g] = name[m] /\ name'[m] = Lang[name[d]] /\ parent'[g] = p /\ parent'[m] = g
         /\ \A n \in Nodes : n # m /\ n # g => name'[n] = name[n] /\ parent'[n] = parent[n]
    BY <1>1, <1>3, <1>4, <1>5
  <1>11. \A q \in Nodes : \A x \in DOMAIN kids[q] :
           kids[q][x] \in Nodes /\ kids[q][x] # g /\ q # g
    BY <1>4, <1>5, <1>7 DEF Made
  <1>12. name'[g] \in Names \ Lproj /\ name'[m] \in Names \ Lproj BY <1>3, <1>10
  <1> QED BY <1>1, <1>2, <1>3, <1>5, <1>8, <1>9, <1>10, <1>11, <1>12 DEF d, m, p, g

LEMMA RegroupNewNodes == ASSUME NodeInv, RegroupNew PROVE NodeInv'
  <1> DEFINE d == Top.node
             p == parent[d]
             m == Moved
             g == size + 1
  <1>1. ShapeInv /\ Parents /\ LprojBelow /\ Levels /\ size \in Nodes
        /\ parent \in [Nodes -> Nodes \cup {Nil}]
    BY DEF NodeInv, ShapeInv, TypeOK
  <1>2. /\ pc = "regroup" /\ pc' = pc
        /\ d \in Nodes /\ p \in Nodes /\ p # d /\ name[d] \in Lproj /\ name[p] \notin Lproj
        /\ p \in 1 .. size
        /\ \E x \in DOMAIN kids[p] : kids[p][x] = d
        /\ j \in DOMAIN kids[d] /\ m = kids[d][j] /\ m \in 2 .. size /\ m \in Nodes
        /\ parent[m] = d /\ m # d
        /\ size' = g /\ g \in Nodes /\ g # m /\ g # p /\ g # d /\ g # Root
        /\ name'[g] \in Names \ Lproj /\ parent'[g] = p
        /\ name'[m] \in Names \ Lproj /\ parent'[m] = g
        /\ \A n \in Nodes : n # m /\ n # g => name'[n] = name[n] /\ parent'[n] = parent[n]
        /\ \A q \in Nodes : \A x \in DOMAIN kids'[q] :
             \/ q # g /\ x \in DOMAIN kids[q] /\ kids'[q][x] = kids[q][x]
             \/ q = p /\ x = Len(kids[p]) + 1 /\ kids'[q][x] = g
             \/ q = g /\ x = 1 /\ kids'[q][x] = m
        /\ \A q \in Nodes : \A x \in DOMAIN kids[q] :
             kids[q][x] \in Nodes /\ kids[q][x] # g /\ q # g
        /\ path' = path
    BY <1>1, RegroupNewEffect
  <1>3. m # Root /\ Root \in Nodes /\ size <= g /\ size # g /\ p <= g /\ size \in Nat /\ g \in Nat
    BY <1>1, <1>2
  <1>g. \A n \in Nodes : parent[n] # g
    <2>1. \A n \in Nodes : parent[n] <= size BY <1>1 DEF Parents
    <2> QED BY <1>1, <2>1
  <1>h. \A q \in Nodes : \A x \in DOMAIN kids[q] : kids[q][x] # g BY <1>2
  <1> HIDE DEF d, p, m, g
  <1>4. ShapeInv' BY <1>1, RegroupNewShape
  <1>5. Parents'
    <2>1. ASSUME NEW n \in Nodes PROVE parent'[n] <= g
      <3>1. CASE n = m \/ n = g BY <1>2, <1>3, <3>1
      <3>2. CASE n # m /\ n # g
        <4>1. parent'[n] = parent[n] /\ parent[n] <= size /\ parent[n] \in Nat
          BY <1>1, <1>2, <3>2 DEF Parents
        <4> QED BY <1>3, <4>1
      <3> QED BY <3>1, <3>2
    <2>2. parent'[Root] = Nil /\ path'[Root] = << >> BY <1>1, <1>2, <1>3 DEF Parents
    <2> QED BY <1>2, <2>1, <2>2 DEF Parents
  <1> HIDE DEF Nodes, Root
  <1>6. Under(path[m]) BY <1>1, <1>2 DEF LprojBelow
  <1>7. ~Under(path[p]) BY <1>1, <1>2 DEF LprojBelow
  <1>8. LprojBelow'
    <2> SUFFICES ASSUME NEW q \in Nodes, NEW x \in DOMAIN kids'[q]
                 PROVE  /\ name'[q] \in Lproj \/ Under(path[q]) => Under(path[kids'[q][x]])
                        /\ name'[kids'[q][x]] \in Lproj => ~Under(path[q])
      BY <1>2 DEF LprojBelow
    <2>1. CASE kids'[q][x] = m BY <1>2, <1>6, <2>1
    <2>2. CASE kids'[q][x] = g
      <3>1. q = p
        <4>1. CASE x \in DOMAIN kids[q] /\ kids'[q][x] = kids[q][x]
          <5>1. kids[q][x] # g BY <1>h, <4>1
          <5> QED BY <2>2, <4>1, <5>1
        <4>2. CASE q = p BY <4>2
        <4>3. CASE kids'[q][x] = m BY <1>2, <2>2, <4>3
        <4> QED BY <1>2, <4>1, <4>2, <4>3
      <3>2. name'[q] \notin Lproj BY <1>2, <3>1
      <3> QED BY <1>2, <1>7, <2>2, <3>1, <3>2
    <2>3. CASE kids'[q][x] # m /\ kids'[q][x] # g
      <3>1. /\ x \in DOMAIN kids[q] /\ kids'[q][x] = kids[q][x] /\ kids[q][x] \in Nodes
            /\ q # g
        BY <1>2, <2>3
      <3>2. name'[kids[q][x]] = name[kids[q][x]] BY <1>2, <2>3, <3>1
      <3>3. name'[q] \in Lproj => name[q] \in Lproj BY <1>2, <3>1
      <3> QED BY <1>1, <3>1, <3>2, <3>3 DEF LprojBelow
    <2> QED BY <2>1, <2>2, <2>3
  <1>9. CursorPath' BY <1>2 DEF CursorPath
  <1>10. Levels'
    <2>1. PICK depth \in [Nodes -> Nat] : Level(depth, parent) BY <1>1 DEF Levels
    <2> DEFINE deep == [depth EXCEPT ![g] = depth[p] + 1]
    <2>2. deep \in [Nodes -> Nat] BY <1>2, <2>1
    <2>3. deep[g] = depth[p] + 1 /\ \A n \in Nodes : n # g => deep[n] = depth[n]
      BY <1>2, <2>1
    <2> HIDE DEF deep
    <2>4. depth[m] = depth[d] + 1 /\ depth[d] = depth[p] + 1
      <3>1. d # Nil /\ p # Nil BY <1>2 DEF Nodes
      <3>2. parent[d] = p BY DEF p
      <3> QED BY <1>2, <2>1, <3>1, <3>2 DEF Level
    <2>5. ASSUME NEW n \in Nodes, parent'[n] # Nil PROVE deep[n] = deep[parent'[n]] + 1
      <3>1. CASE n = g BY <1>2, <2>3, <3>1
      <3>2. CASE n = m BY <1>2, <2>3, <2>4, <3>2
      <3>3. CASE n # m /\ n # g
        <4>1. parent'[n] = parent[n] /\ parent[n] \in Nodes /\ parent[n] # g
          BY <1>1, <1>2, <1>g, <2>5, <3>3
        <4>2. depth[n] = depth[parent[n]] + 1 BY <2>1, <2>5, <4>1 DEF Level
        <4> QED BY <2>3, <3>3, <4>1, <4>2
      <3> QED BY <3>1, <3>2, <3>3
    <2>6. Level(deep, parent') BY <2>5 DEF Level
    <2> QED BY <2>2, <2>6 DEF Levels
  <1> QED BY <1>4, <1>5, <1>8, <1>9, <1>10 DEF NodeInv

LEMMA RegroupDoneNodes == ASSUME NodeInv, RegroupDone PROVE NodeInv'
  <1> DEFINE d == Top.node
             p == parent[d]
  <1>1. /\ pc = "regroup" /\ pc' = "walk"
        /\ kids' = [kids EXCEPT ![p] = Without(@, d), ![d] = << >>]
        /\ UNCHANGED <<name, path, parent, size>>
    BY DEF RegroupDone, remove
  <1>2. ShapeInv /\ InListOnce /\ kids \in [Nodes -> Seq(Nodes)]
    BY DEF NodeInv, ShapeInv, TypeOK
  <1>3. d \in Nodes /\ p \in Nodes /\ p # d /\ \E x \in DOMAIN kids[p] : kids[p][x] = d
    BY <1>1, <1>2, RegroupFacts
  <1> HIDE DEF d, p
  <1>4. /\ \A x \in DOMAIN Without(kids[p], d) : \E y \in DOMAIN kids[p] :
             kids[p][y] = Without(kids[p], d)[x]
    <2>1. kids[p] \in Seq(Nodes) BY <1>2, <1>3
    <2>2. \A x, y \in DOMAIN kids[p] : kids[p][x] = kids[p][y] => x = y
      BY <1>2, <1>3 DEF InListOnce
    <2> QED BY <1>3, <2>1, <2>2, WithoutProps, SMTT(30)
  <1>5. Fewer(kids')
    <2>1. /\ kids'[p] = Without(kids[p], d) /\ kids'[d] = << >>
          /\ \A q \in Nodes : q # p /\ q # d => kids'[q] = kids[q]
      BY <1>1, <1>2, <1>3
    <2>2. DOMAIN << >> = {} OBVIOUS
    <2> SUFFICES ASSUME NEW q \in Nodes, NEW x \in DOMAIN kids'[q]
                 PROVE  \E y \in DOMAIN kids[q] : kids[q][y] = kids'[q][x]
      BY DEF Fewer
    <2>3. CASE q = p BY <1>4, <2>1, <2>3
    <2>4. CASE q = d BY <2>1, <2>2, <2>4
    <2>5. CASE q # p /\ q # d BY <2>1, <2>5
    <2> QED BY <2>3, <2>4, <2>5
  <1>6. ShapeInv' BY <1>2, RegroupDoneShape
  <1>7. CursorPath' BY <1>1 DEF CursorPath
  <1> QED BY <1>1, <1>5, <1>6, <1>7, QuietNodes

LEMMA InitNodes == Init => NodeInv
  <1> SUFFICES ASSUME Init PROVE NodeInv OBVIOUS
  <1>1. ShapeInv BY InitShape
  <1>2. /\ parent = [n \in Nodes |-> Nil] /\ path = [n \in Nodes |-> << >>] /\ size = 1
        /\ kids = [n \in Nodes |-> << >>] /\ cur = Root
    BY DEF Init
  <1>3. Parents BY <1>2 DEF Parents
  <1>4. LprojBelow
    <2>1. \A p \in Nodes : DOMAIN kids[p] = {} BY <1>2
    <2> QED BY <2>1 DEF LprojBelow
  <1>5. CursorPath BY <1>2 DEF CursorPath
  <1>6. Levels
    <2> DEFINE depth == [n \in Nodes |-> 0]
    <2>1. depth \in [Nodes -> Nat] OBVIOUS
    <2>2. \A n \in Nodes : parent[n] = Nil BY <1>2
    <2> HIDE DEF depth
    <2>3. Level(depth, parent) BY <2>2 DEF Level
    <2> QED BY <2>1, <2>3 DEF Levels
  <1> QED BY <1>1, <1>3, <1>4, <1>5, <1>6 DEF NodeInv

LEMMA StepNodes == ASSUME NodeInv, [Next]_vars PROVE NodeInv'
  <1>1. CASE UNCHANGED vars
    <2>1. UNCHANGED <<files, k, i, cur, name, path, parent, kids, size, pc>>
      BY <1>1 DEF vars, fields
    <2>2. ShapeInv' BY StepShape DEF NodeInv
    <2>3. CursorPath' BY <2>1 DEF NodeInv, CursorPath
    <2> QED BY <2>1, <2>2, <2>3, SameFewer, QuietNodes
  <1>2. CASE Next
    BY <1>2, AddStepNodes, AddNewNodes, TraversalNodes, RegroupIntoNodes, RegroupNewNodes,
       RegroupDoneNodes DEF Next
  <1> QED BY <1>1, <1>2

\* The frames of a traversal.
LEMMA FrameFacts ==
  ASSUME ShapeInv
  PROVE  /\ Len(frames) \in Nat
         /\ \A l \in 1 .. Len(frames) : /\ frames[l].node \in Nodes
                                        /\ frames[l].i \in Nat /\ frames[l].i >= 1
         /\ \A p \in Nodes : /\ Len(kids[p]) \in Nat /\ DOMAIN kids[p] = 1 .. Len(kids[p])
                             /\ \A x \in DOMAIN kids[p] : /\ kids[p][x] \in Nodes
                                                          /\ kids[p][x] # Root
  <1>1. frames \in Seq(Frame) /\ kids \in [Nodes -> Seq(Nodes)] /\ Made /\ size \in Nodes
    BY DEF ShapeInv, TypeOK, Frame
  <1>2. /\ Len(frames) \in Nat
        /\ \A l \in 1 .. Len(frames) : frames[l].node \in Nodes /\ frames[l].i \in Nat \ {0}
    <2>1. Len(frames) \in Nat /\ \A l \in 1 .. Len(frames) : frames[l] \in Frame
      BY <1>1, SeqDomain
    <2> QED BY <2>1 DEF Frame
  <1>3. \A p \in Nodes : Len(kids[p]) \in Nat /\ DOMAIN kids[p] = 1 .. Len(kids[p])
    <2> HIDE DEF Nodes
    <2> QED BY <1>1, SeqDomain
  <1>4. \A p \in Nodes : \A x \in DOMAIN kids[p] : kids[p][x] \in Nodes /\ kids[p][x] # Root
    BY <1>1, SMTT(30) DEF Made
  <1> QED BY <1>2, <1>3, <1>4

\* The steps before the traversals.
LEMMA AddStepVisits ==
  ASSUME VisitInv, NodeInv',
         AddAbsolute \/ AddUp \/ AddExisting \/ AddNew \/ FileAdded \/ AllAdded
  PROVE  VisitInv'
  <1>1. /\ ShapeInv /\ Counted /\ Stack /\ VisitedBelow /\ size \in Nodes
        /\ Len(frames) \in Nat
    BY FrameFacts DEF VisitInv, NodeInv, ShapeInv, TypeOK
  <1>2. /\ pc = "add" /\ pc' \in {"add", "start", "overflow"}
        /\ UNCHANGED <<pass, frames, j, visits>>
    BY DEF AddAbsolute, AddUp, AddExisting, AddNew, AddsTo, FileAdded, AllAdded, walk
  <1>3. pass = "sort" /\ Len(frames) = 0 BY <1>1, <1>2 DEF Stack, Walking
  <1>4. /\ size' \in Nat /\ size' >= size
        /\ \A q \in Nodes : \A x \in DOMAIN kids'[q] :
             \/ x \in DOMAIN kids[q] /\ kids'[q][x] = kids[q][x]
             \/ kids'[q][x] = size + 1 /\ size + 1 \in Nodes
    <2>1. CASE AddNew BY <1>1, <2>1, AddNewEffect
    <2>2. CASE ~AddNew
      <3>1. UNCHANGED <<size, kids>>
        BY <2>2 DEF AddAbsolute, AddUp, AddExisting, AddsTo, FileAdded, AllAdded, fields
      <3> QED BY <1>1, <3>1
    <2> QED BY <2>1, <2>2
  <1>5. Counted' BY <1>1, <1>2, <1>4 DEF Counted
  <1>6. Stack' BY <1>2, <1>3 DEF Stack, Walking
  <1>7. Ahead' /\ Behind' BY <1>2, <1>3 DEF Ahead, Behind
  <1>8. VisitedBelow'
    <2>1. size + 1 \in Nodes => visits[size + 1] = 0 BY <1>1 DEF Counted
    <2> HIDE DEF Nodes
    <2>2. visits' = visits BY <1>2
    <2> SUFFICES ASSUME NEW p \in Nodes \ {Root}, NEW x \in DOMAIN kids'[p],
                        visits[kids'[p][x]] = 1
                 PROVE  visits[p] = 1
      BY <2>2 DEF VisitedBelow
    <2>3. x \in DOMAIN kids[p] /\ kids'[p][x] = kids[p][x] BY <1>4, <2>1
    <2> QED BY <1>1, <2>3 DEF VisitedBelow
  <1>9. Explored' /\ VisitedHang'
    BY <1>2, <1>3 DEF Explored, VisitedHang, Started, Walking
  <1> QED BY <1>5, <1>6, <1>7, <1>8, <1>9 DEF VisitInv

\* A traversal begins at the root.
LEMMA StartPassVisits == ASSUME VisitInv, NodeInv', StartPass PROVE VisitInv'
  <1>1. /\ pc = "start" /\ pc' = "walk" /\ frames' = <<[node |-> Root, i |-> 1]>>
        /\ \/ visits' = [n \in Nodes |-> 0]
           \/ visits' = [n \in Nodes |-> IF n = Root THEN 1 ELSE 0]
        /\ pass' = pass
    BY DEF StartPass, fields
  <1>2. /\ Root \in Nodes /\ size' \in Nat /\ size' >= 1
        /\ \A p \in Nodes : \A x \in DOMAIN kids'[p] : kids'[p][x] \in Nodes /\ kids'[p][x] # Root
    <2>1. ShapeInv' BY DEF NodeInv
    <2>2. size' \in Nodes BY <2>1 DEF ShapeInv, TypeOK
    <2>3. \A p \in Nodes : \A x \in DOMAIN kids'[p] : kids'[p][x] \in 2 .. size'
      BY <2>1 DEF ShapeInv, Made
    <2> QED BY <2>2, <2>3
  <1>3. Len(frames') = 1 /\ frames'[1].node = Root /\ frames'[1].i = 1 BY <1>1
  <1>4. /\ visits' \in [Nodes -> {0, 1}]
        /\ \A n \in Nodes : n # Root => visits'[n] = 0
    BY <1>1
  <1>5. Counted' BY <1>2, <1>4 DEF Counted
  <1>6. Stack' BY <1>1, <1>3 DEF Stack, Walking
  <1>7. Ahead' /\ Behind'
    <2>1. \A l \in 1 .. Len(frames') : l = 1 BY <1>3
    <2>2. ASSUME NEW x \in DOMAIN kids'[Root] PROVE visits'[kids'[Root][x]] = 0
      BY <1>2, <1>4
    <2>3. ASSUME NEW x \in DOMAIN kids'[Root] PROVE ~(x < 1)
      <3>1. Root \in Nodes /\ \A p \in Nodes : DOMAIN kids'[p] = 1 .. Len(kids'[p])
        BY <1>2, SeqDomain DEF NodeInv, ShapeInv, TypeOK
      <3> QED BY <3>1
    <2>4. Ahead' BY <1>3, <2>1, <2>2 DEF Ahead
    <2>5. Behind' BY <1>3, <2>1, <2>3 DEF Behind
    <2> QED BY <2>4, <2>5
  <1>8. VisitedBelow' BY <1>2, <1>4 DEF VisitedBelow
  <1>9. Explored'
    <2>1. Root \in FrameNodes' BY <1>3 DEF FrameNodes
    <2> QED BY <1>4, <2>1 DEF Explored, MayHaveMoved
  <1>10. VisitedHang' BY <1>4 DEF VisitedHang
  <1> QED BY <1>5, <1>6, <1>7, <1>8, <1>9, <1>10 DEF VisitInv

\* The node a traversal comes to was not visited; it hangs where the loop over
\* its siblings stands, and nowhere else.
LEMMA VisitFacts ==
  ASSUME VisitInv, HasNext
  PROVE  LET c == Current
             N == Len(frames)
         IN
         /\ pc = "walk" /\ N \in Nat /\ N >= 1 /\ frames[N].node \in Nodes
         /\ c \in Nodes /\ c \in 2 .. size /\ c # Root /\ visits[c] = 0
         /\ frames[N].i \in DOMAIN kids[frames[N].node]
         /\ c = kids[frames[N].node][frames[N].i] /\ parent[c] = frames[N].node
         /\ \A q \in Nodes : \A x \in DOMAIN kids[q] :
              kids[q][x] = c => q = frames[N].node /\ x = frames[N].i
         /\ \A l \in 1 .. N : frames[l].node # c
         /\ \A l \in 2 .. N : visits[frames[l].node] = 1
         /\ frames[1].node = Root
  <1> DEFINE c == Current
             N == Len(frames)
  <1>1. /\ ShapeInv /\ Made /\ InListOnce /\ InListOfParent /\ Counted /\ Stack /\ Ahead
    BY DEF VisitInv, NodeInv, ShapeInv
  <1>2. pc = "walk" /\ Dissolving = {} BY DEF HasNext, Dissolving
  <1>3. /\ N > 0 /\ Top.i \in DOMAIN kids[Top.node] /\ c \in Nodes /\ c = kids[Top.node][Top.i]
        /\ Top.node \in Nodes
    BY <1>1, CurrentChild
  <1>4. Top = frames[N] BY DEF Top
  <1>5. N \in Nat /\ N >= 1 BY <1>1, <1>3, FrameFacts
  <1> HIDE DEF c, N
  <1>6. c \in 2 .. size /\ c # Root BY <1>1, <1>3 DEF Made
  <1>7. \A q \in Nodes : \A x \in DOMAIN kids[q] : parent[kids[q][x]] = q
    BY <1>1, <1>2 DEF InListOfParent
  <1> HIDE DEF Nodes, Root
  <1>8. parent[c] = frames[N].node BY <1>3, <1>4, <1>7
  <1>9. ASSUME NEW q \in Nodes, NEW x \in DOMAIN kids[q], kids[q][x] = c
        PROVE  q = frames[N].node /\ x = frames[N].i
    <2>1. parent[c] = q BY <1>7, <1>9
    <2>2. q = Top.node BY <1>4, <1>8, <2>1
    <2>3. kids[q][x] = kids[q][Top.i] /\ Top.i \in DOMAIN kids[q] BY <1>3, <1>9, <2>2
    <2>4. x = Top.i BY <1>1, <2>3, <1>9 DEF InListOnce
    <2> QED BY <1>4, <2>2, <2>4
  <1>10. visits[c] = 0
    <2>1. N \in 1 .. N /\ ~(N < N) BY <1>5
    <2>2. frames[N].i \in DOMAIN kids[frames[N].node] /\ c = kids[frames[N].node][frames[N].i]
      BY <1>3, <1>4
    <2>3. frames[N].i >= frames[N].i BY <1>1, <2>1, FrameFacts DEF N
    <2> QED BY <1>1, <2>1, <2>2, <2>3 DEF Ahead, N
  <1>11. \A l \in 2 .. N : visits[frames[l].node] = 1 BY <1>1 DEF Stack, N
  <1>12. frames[1].node = Root BY <1>1, <1>3 DEF Stack, N
  <1>13. \A l \in 1 .. N : frames[l].node # c
    <2> SUFFICES ASSUME NEW l \in 1 .. N, frames[l].node = c PROVE FALSE OBVIOUS
    <2>1. l = 1 \/ l \in 2 .. N BY <1>5
    <2> QED BY <1>6, <1>10, <1>11, <1>12, <2>1
  <1> QED BY <1>2, <1>3, <1>4, <1>5, <1>6, <1>8, <1>9, <1>10, <1>11, <1>12, <1>13 DEF c, N

\* The call of onnode counts a visit, and arranges the children of that node.
LEMMA OnnodeFacts ==
  ASSUME VisitInv, NEW c \in Nodes, visits[c] = 0, Onnode(c)
  PROVE  /\ visits' \in [Nodes -> {0, 1}] /\ visits'[c] = 1
         /\ \A n \in Nodes : n # c => visits'[n] = visits[n]
         /\ \A q \in Nodes : q # c => kids'[q] = kids[q]
         /\ \A x \in DOMAIN kids'[c] : \E y \in DOMAIN kids[c] : kids[c][y] = kids'[c][x]
         /\ Len(kids[c]) = 0 => DOMAIN kids'[c] = {}
         /\ UNCHANGED <<path, parent, size>>
  <1>1. /\ visits \in [Nodes -> {0, 1}] /\ kids \in [Nodes -> Seq(Nodes)] /\ InListOnce
    BY DEF VisitInv, Counted, NodeInv, ShapeInv, TypeOK
  <1>2. /\ visits' = [visits EXCEPT ![c] = @ + 1] /\ UNCHANGED <<path, parent, size>>
        /\ \/ kids' = kids
           \/ \E t \in Arrangements(kids[c]) : kids' = [kids EXCEPT ![c] = t]
    BY DEF Onnode
  <1> HIDE DEF Nodes
  <1>3. /\ visits' \in [Nodes -> {0, 1}] /\ visits'[c] = 1
        /\ \A n \in Nodes : n # c => visits'[n] = visits[n]
    BY <1>1, <1>2
  <1>4. kids[c] \in Seq(Nodes) /\ \A x, y \in DOMAIN kids[c] : kids[c][x] = kids[c][y] => x = y
    BY <1>1 DEF InListOnce
  <1>5. DOMAIN kids[c] = 1 .. Len(kids[c]) BY <1>4, SeqDomain
  <1>6. CASE kids' = kids BY <1>2, <1>3, <1>5, <1>6
  <1>7. CASE \E t \in Arrangements(kids[c]) : kids' = [kids EXCEPT ![c] = t]
    <2>1. PICK t \in Arrangements(kids[c]) : kids' = [kids EXCEPT ![c] = t] BY <1>7
    <2>2. DOMAIN t = DOMAIN kids[c] /\ \A x \in DOMAIN t : \E y \in DOMAIN kids[c] : kids[c][y] = t[x]
      BY <1>4, ArrangementProps
    <2>3. kids'[c] = t /\ \A q \in Nodes : q # c => kids'[q] = kids[q] BY <1>1, <2>1
    <2> QED BY <1>2, <1>3, <1>5, <2>2, <2>3
  <1> QED BY <1>2, <1>6, <1>7

\* What a visit leaves true, wherever the traversal goes on.
LEMMA VisitKeeps ==
  ASSUME VisitInv, HasNext, Onnode(Current), pass' = pass, Walking'
  PROVE  Counted' /\ VisitedBelow' /\ VisitedHang'
  <1> DEFINE c == Current
             d == frames[Len(frames)].node
  <1>1. /\ pc = "walk" /\ Len(frames) \in Nat /\ Len(frames) >= 1 /\ d \in Nodes
        /\ c \in Nodes /\ c \in 2 .. size /\ c # Root /\ visits[c] = 0
        /\ frames[Len(frames)].i \in DOMAIN kids[d] /\ c = kids[d][frames[Len(frames)].i]
        /\ parent[c] = d
        /\ \A q \in Nodes : \A x \in DOMAIN kids[q] : kids[q][x] = c => q = d
        /\ d # c
        /\ \A l \in 2 .. Len(frames) : visits[frames[l].node] = 1
        /\ frames[1].node = Root
    <2>1. Len(frames) \in Nat /\ Len(frames) >= 1 => Len(frames) \in 1 .. Len(frames) OBVIOUS
    <2> QED BY <2>1, VisitFacts
  <1>2. Onnode(c) OBVIOUS
  <1> HIDE DEF c, d
  <1>3. /\ visits' \in [Nodes -> {0, 1}] /\ visits'[c] = 1
        /\ \A n \in Nodes : n # c => visits'[n] = visits[n]
        /\ \A q \in Nodes : q # c => kids'[q] = kids[q]
        /\ \A x \in DOMAIN kids'[c] : \E y \in DOMAIN kids[c] : kids[c][y] = kids'[c][x]
        /\ UNCHANGED <<parent, size>>
    BY <1>1, <1>2, OnnodeFacts
  <1>4. /\ Counted /\ VisitedBelow /\ VisitedHang /\ size \in Nodes
        /\ \A q \in Nodes : \A x \in DOMAIN kids[q] : kids[q][x] \in Nodes
    BY FrameFacts DEF VisitInv, NodeInv, ShapeInv, TypeOK
  <1>5. Counted'
    <2>1. c <= size BY <1>1
    <2> QED BY <1>3, <1>4, <2>1 DEF Counted
  <1>6. d # Root => visits[d] = 1
    <2>1. Len(frames) \in Nat /\ Len(frames) >= 1 BY <1>1
    <2>2. Len(frames) = 1 \/ Len(frames) \in 2 .. Len(frames)
      <3>1. \A l \in Nat : l >= 1 => l = 1 \/ l \in 2 .. l OBVIOUS
      <3> QED BY <2>1, <3>1, Zenon
    <2> QED BY <1>1, <2>2 DEF d
  <1>d. d # Nil BY <1>1
  <1> HIDE DEF Nodes, Root, Nil
  <1>7. VisitedBelow'
    <2> SUFFICES ASSUME NEW q \in Nodes \ {Root}, NEW x \in DOMAIN kids'[q],
                        visits'[kids'[q][x]] = 1
                 PROVE  visits'[q] = 1
      BY DEF VisitedBelow
    <2>1. CASE q = c BY <1>3, <2>1
    <2>2. CASE q # c
      <3>1. x \in DOMAIN kids[q] /\ kids'[q][x] = kids[q][x] /\ kids[q][x] \in Nodes
            /\ visits'[q] = visits[q]
        BY <1>3, <1>4, <2>2
      <3>2. CASE kids[q][x] = c BY <1>1, <1>6, <3>1, <3>2
      <3>3. CASE kids[q][x] # c
        <4>1. visits[kids[q][x]] = 1 BY <1>3, <3>1, <3>3
        <4> QED BY <1>4, <3>1, <4>1 DEF VisitedBelow
      <3> QED BY <3>2, <3>3
    <2> QED BY <2>1, <2>2
  <1>8. VisitedHang'
    <2> SUFFICES ASSUME pass = "list", NEW n \in Nodes \ {Root}, visits'[n] = 1
                 PROVE  parent[n] # Nil /\ \E x \in DOMAIN kids'[parent[n]] : kids'[parent[n]][x] = n
      BY <1>3 DEF VisitedHang, Hangs
    <2>1. kids' = kids BY <1>2 DEF Onnode
    <2>2. CASE n = c BY <1>1, <1>d, <2>1, <2>2
    <2>3. CASE n # c
      <3>1. visits[n] = 1 BY <1>3, <2>3
      <3> QED BY <1>1, <1>4, <2>1, <3>1 DEF VisitedHang, Walking, Hangs
    <2> QED BY <2>2, <2>3
  <1> QED BY <1>5, <1>7, <1>8

\* dochildren goes on in the innermost call only.
LEMMA AdvanceMeaning ==
  ASSUME NEW fs \in Seq(Frame), Len(fs) > 0, NEW n
  PROVE  /\ Len(Advance(fs, n)) = Len(fs) /\ Len(fs) \in Nat
         /\ \A l \in 1 .. Len(fs) : Advance(fs, n)[l].node = fs[l].node
         /\ \A l \in 1 .. Len(fs) : l < Len(fs) => Advance(fs, n)[l].i = fs[l].i
         /\ LET f == fs[Len(fs)]
            IN Advance(fs, n)[Len(fs)].i
                 = IF f.i <= Len(kids[f.node]) /\ kids[f.node][f.i] = n THEN f.i + 1 ELSE f.i
  <1>1. Len(fs) \in Nat /\ \A l \in 1 .. Len(fs) : fs[l] \in Frame BY SeqDomain
  <1> DEFINE N == Len(fs)
             f == fs[N]
             up == [fs EXCEPT ![N].i = @ + 1]
             on == f.i <= Len(kids[f.node]) /\ kids[f.node][f.i] = n
  <1>2. Advance(fs, n) = IF on THEN up ELSE fs BY DEF Advance
  <1>3. N \in 1 .. N BY <1>1
  <1>4. /\ Len(up) = N /\ up[N] = [fs[N] EXCEPT !.i = @ + 1]
        /\ \A l \in 1 .. N : l # N => up[l] = fs[l]
    BY <1>1, <1>3
  <1>5. up[N].node = f.node /\ up[N].i = f.i + 1
    BY <1>1, <1>3, <1>4 DEF Frame
  <1>6. N \in Nat /\ \A l \in 1 .. N : l < N => l # N BY <1>1
  <1> HIDE DEF up, on, Frame, Nodes
  <1>7. CASE on
    <2>1. Advance(fs, n) = up BY <1>2, <1>7
    <2>2. \A l \in 1 .. N : up[l].node = fs[l].node BY <1>4, <1>5
    <2>3. \A l \in 1 .. N : l < N => up[l].i = fs[l].i BY <1>4, <1>6
    <2> QED BY <1>4, <1>5, <1>6, <1>7, <2>1, <2>2, <2>3 DEF on
  <1>8. CASE ~on
    <2>1. Advance(fs, n) = fs BY <1>2, <1>8
    <2> QED BY <1>6, <1>8, <2>1 DEF on
  <1> QED BY <1>7, <1>8

LEMMA VisitLeafVisits == ASSUME VisitInv, NodeInv', VisitLeaf PROVE VisitInv'
  <1> DEFINE c == Current
             N == Len(frames)
             d == frames[N].node
             x0 == frames[N].i
  <1>1. /\ HasNext /\ Len(kids[c]) = 0 /\ Onnode(c) /\ frames' = Advance(frames, c)
        /\ pc = "walk" /\ pc' = "walk" /\ pass' = pass /\ j' = j
    BY DEF VisitLeaf, HasNext
  <1>2. /\ N \in Nat /\ N >= 1 /\ d \in Nodes
        /\ c \in Nodes /\ c # Root /\ visits[c] = 0
        /\ x0 \in DOMAIN kids[d] /\ c = kids[d][x0] /\ parent[c] = d
        /\ \A q \in Nodes : \A x \in DOMAIN kids[q] : kids[q][x] = c => q = d /\ x = x0
        /\ \A l \in 1 .. N : frames[l].node # c
    BY <1>1, VisitFacts
  <1>3. /\ Stack /\ Ahead /\ Behind /\ Explored /\ frames \in Seq(Frame) /\ ShapeInv
    BY DEF VisitInv, NodeInv, ShapeInv, TypeOK, Frame
  <1>4. /\ N \in 1 .. N
        /\ \A l \in 1 .. N : frames[l].node \in Nodes /\ frames[l].i \in Nat /\ frames[l].i >= 1
        /\ \A q \in Nodes : /\ Len(kids[q]) \in Nat /\ DOMAIN kids[q] = 1 .. Len(kids[q])
                            /\ \A x \in DOMAIN kids[q] : kids[q][x] \in Nodes
    <2>1. N \in 1 .. N BY <1>2
    <2> QED BY <1>3, <2>1, FrameFacts
  <1>5. /\ visits'[c] = 1 /\ \A n \in Nodes : n # c => visits'[n] = visits[n]
        /\ \A q \in Nodes : q # c => kids'[q] = kids[q]
        /\ DOMAIN kids'[c] = {} /\ UNCHANGED <<path, parent>>
    <2>1. c \in Nodes /\ visits[c] = 0 /\ Onnode(c) /\ Len(kids[c]) = 0 BY <1>1, <1>2
    <2> HIDE DEF c, Nodes
    <2> QED BY <2>1, OnnodeFacts
  <1>6. /\ Len(frames') = N
        /\ \A l \in 1 .. N : frames'[l].node = frames[l].node
        /\ \A l \in 1 .. N : l < N => frames'[l].i = frames[l].i
        /\ frames'[N].i = x0 + 1
    <2>1. x0 <= Len(kids[d]) BY <1>2, <1>4
    <2>2. Len(frames) > 0 BY <1>2
    <2>3. kids[d][x0] = c BY <1>2
    <2> HIDE DEF c
    <2>4. /\ Len(Advance(frames, c)) = Len(frames)
          /\ \A l \in 1 .. Len(frames) : Advance(frames, c)[l].node = frames[l].node
          /\ \A l \in 1 .. Len(frames) : l < Len(frames) => Advance(frames, c)[l].i = frames[l].i
          /\ Advance(frames, c)[N].i
               = IF x0 <= Len(kids[d]) /\ kids[d][x0] = c THEN x0 + 1 ELSE x0
      BY <1>3, <2>2, AdvanceMeaning
    <2> QED BY <1>1, <2>1, <2>3, <2>4
  <1> HIDE DEF c, N, d, x0, Nodes, Root
  <1>d. d = frames[N].node /\ x0 = frames[N].i BY DEF d, x0
  <1>7. Counted' /\ VisitedBelow' /\ VisitedHang' BY <1>1, VisitKeeps DEF Walking, c
  <1>8. \A l \in 1 .. N : kids'[frames[l].node] = kids[frames[l].node] BY <1>2, <1>4, <1>5
  <1>9. Stack'
    <2>1. Len(frames') > 0 /\ frames'[1].node = Root
      <3>1. 1 \in 1 .. N /\ N > 0 BY <1>2
      <3> QED BY <1>3, <1>6, <3>1 DEF Stack, N
    <2>2. ASSUME NEW l \in 2 .. N
          PROVE  /\ frames'[l].node # Root /\ visits'[frames'[l].node] = 1
                 /\ parent'[frames'[l].node] = frames'[l - 1].node
                 /\ \A x \in DOMAIN kids'[frames'[l - 1].node] :
                      kids'[frames'[l - 1].node][x] = frames'[l].node => x = frames'[l - 1].i
      <3>1. l \in 1 .. N /\ l - 1 \in 1 .. N /\ l - 1 < N BY <1>2
      <3>2. /\ frames'[l].node = frames[l].node /\ frames'[l - 1].node = frames[l - 1].node
            /\ frames'[l - 1].i = frames[l - 1].i
            /\ kids'[frames[l - 1].node] = kids[frames[l - 1].node]
            /\ visits'[frames[l].node] = visits[frames[l].node]
        BY <1>2, <1>4, <1>5, <1>6, <1>8, <3>1
      <3>3. /\ frames[l].node # Root /\ visits[frames[l].node] = 1
            /\ parent[frames[l].node] = frames[l - 1].node
            /\ \A x \in DOMAIN kids[frames[l - 1].node] :
                 kids[frames[l - 1].node][x] = frames[l].node => x = frames[l - 1].i
        BY <1>3 DEF Stack, N
      <3>4. parent' = parent BY <1>5
      <3> QED BY <3>2, <3>3, <3>4
    <2>3. \A l, m \in 1 .. N : frames'[l].node = frames'[m].node => l = m
      BY <1>3, <1>6 DEF Stack, N
    <2> QED BY <1>1, <1>3, <1>6, <2>1, <2>2, <2>3 DEF Stack, Walking
  <1>10. ASSUME NEW l \in 1 .. N, NEW x \in DOMAIN kids[frames[l].node]
         PROVE  /\ kids[frames[l].node][x] \in Nodes
                /\ kids[frames[l].node][x] = c => l = N /\ x = x0
    <2>1. frames[l].node \in Nodes BY <1>4
    <2>2. ASSUME frames[l].node = d PROVE l = N BY <1>3, <1>4, <1>d, <2>2 DEF Stack, N
    <2> QED BY <1>2, <1>4, <2>1, <2>2
  <1>11. Ahead'
    <2> SUFFICES ASSUME NEW l \in 1 .. N, NEW x \in DOMAIN kids[frames[l].node],
                        x >= frames'[l].i
                 PROVE  \/ visits'[kids[frames[l].node][x]] = 0
                        \/ l < N /\ kids[frames[l].node][x] = frames'[l + 1].node
      BY <1>6, <1>8 DEF Ahead
    <2>1. x \in Nat /\ frames[l].i \in Nat /\ x0 \in Nat BY <1>4, <1>d
    <2>2. CASE l = N
      <3>1. x >= x0 + 1 BY <1>6, <2>2
      <3>2. x >= frames[l].i /\ x # x0 BY <1>d, <2>1, <2>2, <3>1
      <3>3. visits[kids[frames[l].node][x]] = 0 BY <1>2, <1>3, <2>2, <3>2 DEF Ahead, N
      <3> QED BY <1>5, <1>10, <3>2, <3>3
    <2>3. CASE l < N
      <3>1. x >= frames[l].i /\ l # N /\ l + 1 \in 1 .. N BY <1>2, <1>6, <2>3
      <3>2. frames'[l + 1].node = frames[l + 1].node BY <1>6, <3>1
      <3>3. \/ visits[kids[frames[l].node][x]] = 0
            \/ kids[frames[l].node][x] = frames[l + 1].node
        BY <1>3, <3>1 DEF Ahead, N
      <3> QED BY <1>5, <1>10, <2>3, <3>1, <3>2, <3>3
    <2>4. l = N \/ l < N BY <1>2
    <2> QED BY <2>2, <2>3, <2>4
  <1>12. Behind'
    <2> SUFFICES ASSUME NEW l \in 1 .. N, NEW x \in DOMAIN kids[frames[l].node],
                        x < frames'[l].i
                 PROVE  visits'[kids[frames[l].node][x]] = 1
      BY <1>6, <1>8 DEF Behind
    <2>1. x \in Nat /\ frames[l].i \in Nat /\ x0 \in Nat BY <1>4, <1>d
    <2>2. CASE x < frames[l].i
      <3>1. visits[kids[frames[l].node][x]] = 1 BY <1>3, <2>2 DEF Behind, N
      <3> QED BY <1>5, <1>10, <3>1
    <2>3. CASE ~(x < frames[l].i)
      <3>1. l = N BY <1>2, <1>6, <2>3
      <3>2. x = x0 BY <1>6, <1>d, <2>1, <2>3, <3>1
      <3> QED BY <1>2, <1>5, <1>d, <3>1, <3>2
    <2> QED BY <2>2, <2>3
  <1>13. Explored'
    <2> SUFFICES ASSUME NEW q \in Nodes \ FrameNodes, q = Root \/ visits'[q] = 1,
                        NEW x \in DOMAIN kids'[q]
                 PROVE  visits'[kids'[q][x]] = 1 \/ MayHaveMoved(kids'[q][x])
      <3>1. FrameNodes' = FrameNodes BY <1>6 DEF FrameNodes, N
      <3>2. Moving' <=> Moving BY <1>1 DEF Moving, Walking
      <3>9. name' = name BY DEF VisitLeaf, Onnode
      <3> QED BY <1>5, <3>1, <3>2, <3>9 DEF Explored, MayHaveMoved
    <2>1. q # c BY <1>5
    <2>2. kids'[q] = kids[q] /\ kids[q][x] \in Nodes BY <1>4, <1>5, <2>1
    <2>3. q = Root \/ visits[q] = 1 BY <1>5, <2>1
    <2>4. Started BY <1>1 DEF Started, Walking
    <2>5. visits[kids[q][x]] = 1 \/ MayHaveMoved(kids[q][x])
      BY <1>3, <2>2, <2>3, <2>4 DEF Explored, MayHaveMoved
    <2> QED BY <1>5, <2>2, <2>5
  <1> QED BY <1>7, <1>9, <1>11, <1>12, <1>13 DEF VisitInv

LEMMA VisitBranchVisits == ASSUME VisitInv, NodeInv', VisitBranch PROVE VisitInv'
  <1> DEFINE c == Current
             N == Len(frames)
             d == frames[N].node
             x0 == frames[N].i
             M == N + 1
  <1>1. /\ HasNext /\ Onnode(c) /\ frames' = Append(frames, [node |-> c, i |-> 1])
        /\ pc = "walk" /\ pc' \in {"walk", "regroup"} /\ pass' = pass
        /\ pc' = "regroup" => pass = "localize"
    BY DEF VisitBranch, HasNext, Localized
  <1>2. /\ N \in Nat /\ N >= 1 /\ d \in Nodes
        /\ c \in Nodes /\ c # Root /\ visits[c] = 0
        /\ x0 \in DOMAIN kids[d] /\ c = kids[d][x0] /\ parent[c] = d
        /\ \A q \in Nodes : \A x \in DOMAIN kids[q] : kids[q][x] = c => q = d /\ x = x0
        /\ \A l \in 1 .. N : frames[l].node # c
    BY <1>1, VisitFacts
  <1>3. /\ Stack /\ Ahead /\ Behind /\ Explored /\ frames \in Seq(Frame) /\ ShapeInv
        /\ VisitedBelow /\ Counted
    BY DEF VisitInv, NodeInv, ShapeInv, TypeOK, Frame
  <1>4. /\ N \in 1 .. N
        /\ \A l \in 1 .. N : frames[l].node \in Nodes /\ frames[l].i \in Nat /\ frames[l].i >= 1
        /\ \A q \in Nodes : /\ Len(kids[q]) \in Nat /\ DOMAIN kids[q] = 1 .. Len(kids[q])
                            /\ \A x \in DOMAIN kids[q] : kids[q][x] \in Nodes
    <2>1. N \in 1 .. N BY <1>2
    <2> QED BY <1>3, <2>1, FrameFacts
  <1>5. /\ visits'[c] = 1 /\ \A n \in Nodes : n # c => visits'[n] = visits[n]
        /\ \A q \in Nodes : q # c => kids'[q] = kids[q]
        /\ \A x \in DOMAIN kids'[c] : \E y \in DOMAIN kids[c] : kids[c][y] = kids'[c][x]
        /\ UNCHANGED <<path, parent>>
    <2>1. c \in Nodes /\ visits[c] = 0 /\ Onnode(c) BY <1>1, <1>2
    <2> HIDE DEF c, Nodes
    <2> QED BY <2>1, OnnodeFacts
  <1>6. /\ Len(frames') = M
        /\ \A l \in 1 .. N : frames'[l] = frames[l]
        /\ frames'[M].node = c /\ frames'[M].i = 1
    <2>1. [node |-> c, i |-> 1] \in Frame BY <1>2 DEF Frame
    <2> DEFINE e == [node |-> c, i |-> 1]
    <2>2. e.node = c /\ e.i = 1 OBVIOUS
    <2> HIDE DEF e, c, Frame
    <2>3. /\ Len(Append(frames, e)) = Len(frames) + 1
          /\ \A l \in 1 .. Len(frames) : Append(frames, e)[l] = frames[l]
          /\ Append(frames, e)[Len(frames) + 1] = e
      BY <1>3, <2>1 DEF e
    <2> QED BY <1>1, <2>2, <2>3 DEF e
  <1>m. /\ M \in 1 .. M /\ ~(M < M) /\ M > 1 /\ M - 1 = N /\ M \in Nat
        /\ \A l \in 1 .. M : l = M \/ l \in 1 .. N
        /\ \A l \in 1 .. N : l # M /\ l < M /\ l \in 1 .. M
        /\ \A l \in 2 .. M : l = M \/ l \in 2 .. N
        /\ \A l \in 2 .. N : l \in 1 .. N /\ l - 1 \in 1 .. N /\ l - 1 # N
        /\ \A l \in 1 .. N : l = N \/ (l < N /\ l + 1 \in 1 .. N)
    BY <1>2
  <1> HIDE DEF c, N, d, x0, M, Nodes, Root
  <1>d. d = frames[N].node /\ x0 = frames[N].i /\ M = N + 1 BY DEF d, x0, M
  <1>7. Counted' /\ VisitedBelow' /\ VisitedHang' BY <1>1, VisitKeeps DEF Walking, c
  <1>8. \A l \in 1 .. N : kids'[frames[l].node] = kids[frames[l].node] BY <1>2, <1>4, <1>5
  <1>9. Stack'
    <2>1. Len(frames') > 0 /\ Len(frames') > 1 /\ frames'[1].node = Root
      <3>1. 1 \in 1 .. N /\ N > 0 BY <1>2
      <3> QED BY <1>3, <1>6, <1>m, <3>1 DEF Stack, N
    <2>2. ASSUME NEW l \in 2 .. M
          PROVE  /\ frames'[l].node # Root /\ visits'[frames'[l].node] = 1
                 /\ parent'[frames'[l].node] = frames'[l - 1].node
                 /\ \A x \in DOMAIN kids'[frames'[l - 1].node] :
                      kids'[frames'[l - 1].node][x] = frames'[l].node => x = frames'[l - 1].i
      <3>1. CASE l = M
        <4>1. l - 1 = N /\ frames'[N].node = d /\ frames'[N].i = x0 BY <1>4, <1>6, <1>d, <1>m, <3>1
        <4>2. kids'[d] = kids[d] BY <1>4, <1>8, <1>d
        <4>3. frames'[l].node = c /\ frames'[l - 1].node = d /\ frames'[l - 1].i = x0
          BY <1>6, <3>1, <4>1
        <4>4. c # Root /\ visits'[c] = 1 /\ parent'[c] = d BY <1>2, <1>5
        <4>5. \A x \in DOMAIN kids'[d] : kids'[d][x] = c => x = x0 BY <1>2, <4>2
        <4>6. /\ frames'[l].node # Root /\ visits'[frames'[l].node] = 1
              /\ parent'[frames'[l].node] = frames'[l - 1].node
          BY <4>3, <4>4
        <4>7. \A x \in DOMAIN kids'[frames'[l - 1].node] :
                kids'[frames'[l - 1].node][x] = frames'[l].node => x = frames'[l - 1].i
          BY <4>3, <4>5
        <4> QED BY <4>6, <4>7
      <3>2. CASE l \in 2 .. N
        <4>1. l \in 1 .. N /\ l - 1 \in 1 .. N BY <1>m, <3>2
        <4>2. /\ frames'[l].node = frames[l].node /\ frames'[l - 1].node = frames[l - 1].node
              /\ frames'[l - 1].i = frames[l - 1].i
              /\ kids'[frames[l - 1].node] = kids[frames[l - 1].node]
              /\ visits'[frames[l].node] = visits[frames[l].node]
          BY <1>2, <1>4, <1>5, <1>6, <1>8, <4>1
        <4>3. /\ frames[l].node # Root /\ visits[frames[l].node] = 1
              /\ parent[frames[l].node] = frames[l - 1].node
              /\ \A x \in DOMAIN kids[frames[l - 1].node] :
                   kids[frames[l - 1].node][x] = frames[l].node => x = frames[l - 1].i
          BY <1>3, <3>2 DEF Stack, N
        <4>4. parent' = parent BY <1>5
        <4> QED BY <4>2, <4>3, <4>4
      <3> QED BY <1>m, <3>1, <3>2
    <2>3. ASSUME NEW l \in 1 .. M, NEW m \in 1 .. M, frames'[l].node = frames'[m].node
          PROVE  l = m
      <3>1. CASE l \in 1 .. N /\ m \in 1 .. N BY <1>3, <1>6, <2>3, <3>1 DEF Stack, N
      <3>2. CASE l = M \/ m = M BY <1>2, <1>6, <1>m, <2>3, <3>2
      <3> QED BY <1>m, <3>1, <3>2
    <2>4. Top'.i = 1 BY <1>6 DEF Top
    <2> QED BY <1>1, <1>3, <1>6, <2>1, <2>2, <2>3, <2>4 DEF Stack, Walking
  <1>10. ASSUME NEW l \in 1 .. N, NEW x \in DOMAIN kids[frames[l].node]
         PROVE  /\ kids[frames[l].node][x] \in Nodes
                /\ kids[frames[l].node][x] = c => l = N /\ x = x0
    <2>1. frames[l].node \in Nodes BY <1>4
    <2>2. ASSUME frames[l].node = d PROVE l = N BY <1>3, <1>4, <1>d, <2>2 DEF Stack, N
    <2> QED BY <1>2, <1>4, <2>1, <2>2
  <1>11. Ahead'
    <2> SUFFICES ASSUME NEW l \in 1 .. M, NEW x \in DOMAIN kids'[frames'[l].node],
                        x >= frames'[l].i
                 PROVE  \/ visits'[kids'[frames'[l].node][x]] = 0
                        \/ l < M /\ kids'[frames'[l].node][x] = frames'[l + 1].node
      BY <1>6 DEF Ahead
    <2>1. CASE l = M
      <3>1. PICK y \in DOMAIN kids[c] : kids[c][y] = kids'[c][x] BY <1>5, <1>6, <2>1
      <3>2. kids[c][y] \in Nodes /\ kids[c][y] # c
        <4>1. d # c BY <1>2, <1>4, <1>d
        <4> QED BY <1>2, <1>4, <4>1
      <3>3. visits[kids[c][y]] # 1 BY <1>2, <1>3 DEF VisitedBelow
      <3>4. visits[kids[c][y]] = 0 BY <1>3, <3>2, <3>3 DEF Counted
      <3> QED BY <1>5, <1>6, <2>1, <3>1, <3>2, <3>4
    <2>2. CASE l \in 1 .. N
      <3>1. /\ frames'[l] = frames[l] /\ kids'[frames'[l].node] = kids[frames[l].node]
            /\ x \in DOMAIN kids[frames[l].node] /\ x >= frames[l].i /\ l < M
        BY <1>6, <1>8, <1>m, <2>2
      <3> DEFINE y == kids[frames[l].node][x]
      <3>2. visits[y] = 0 \/ (l < N /\ y = frames[l + 1].node)
        BY <1>3, <2>2, <3>1 DEF Ahead, N
      <3>3. y \in Nodes /\ (y = c => l = N) BY <1>10, <2>2, <3>1
      <3> HIDE DEF y
      <3>4. CASE y = c BY <1>6, <1>d, <3>1, <3>3, <3>4 DEF y
      <3>5. CASE y # c /\ visits[y] = 0 BY <1>5, <3>1, <3>3, <3>5 DEF y
      <3>6. CASE l < N /\ y = frames[l + 1].node
        <4>1. l + 1 \in 1 .. N BY <1>m, <2>2, <3>6, <1>4, <1>2
        <4> QED BY <1>6, <3>1, <3>6, <4>1 DEF y
      <3> QED BY <3>2, <3>4, <3>5, <3>6
    <2> QED BY <1>m, <2>1, <2>2
  <1>12. Behind'
    <2> SUFFICES ASSUME NEW l \in 1 .. M, NEW x \in DOMAIN kids'[frames'[l].node],
                        x < frames'[l].i
                 PROVE  visits'[kids'[frames'[l].node][x]] = 1
      BY <1>6 DEF Behind
    <2>1. CASE l = M
      <3>1. x \in DOMAIN kids'[c] /\ x < 1 BY <1>6, <2>1
      <3>2. DOMAIN kids'[c] = 1 .. Len(kids'[c])
        <4>1. kids' \in [Nodes -> Seq(Nodes)] BY DEF NodeInv, ShapeInv, TypeOK
        <4> QED BY <1>2, <4>1, SeqDomain
      <3> QED BY <3>1, <3>2
    <2>2. CASE l \in 1 .. N
      <3>1. /\ frames'[l] = frames[l] /\ kids'[frames'[l].node] = kids[frames[l].node]
            /\ x \in DOMAIN kids[frames[l].node] /\ x < frames[l].i
        BY <1>6, <1>8, <2>2
      <3>2. visits[kids[frames[l].node][x]] = 1 BY <1>3, <2>2, <3>1 DEF Behind, N
      <3> QED BY <1>5, <1>10, <2>2, <3>1, <3>2
    <2> QED BY <1>m, <2>1, <2>2
  <1>13. Explored'
    <2> SUFFICES ASSUME NEW q \in Nodes \ FrameNodes', q = Root \/ visits'[q] = 1,
                        NEW x \in DOMAIN kids'[q]
                 PROVE  visits'[kids'[q][x]] = 1 \/ MayHaveMoved(kids'[q][x])
      <3>2. Moving' <=> Moving BY <1>1 DEF Moving, Walking
      <3>9. name' = name BY DEF VisitBranch, Onnode
      <3> QED BY <1>5, <3>2, <3>9 DEF Explored, MayHaveMoved
    <2>f. q \notin FrameNodes /\ q # c
      <3>1. \A l \in 1 .. N : frames'[l].node = frames[l].node /\ l \in 1 .. M BY <1>6, <1>m
      <3>2. c \in FrameNodes' BY <1>6, <1>m DEF FrameNodes
      <3>3. FrameNodes \subseteq FrameNodes' BY <1>6, <3>1 DEF FrameNodes, N
      <3> QED BY <3>2, <3>3
    <2>2. kids'[q] = kids[q] /\ kids[q][x] \in Nodes BY <1>4, <1>5, <2>f
    <2>3. q = Root \/ visits[q] = 1 BY <1>5, <2>f
    <2>4. Started BY <1>1 DEF Started, Walking
    <2>5. visits[kids[q][x]] = 1 \/ MayHaveMoved(kids[q][x])
      BY <1>3, <2>2, <2>3, <2>4, <2>f DEF Explored, MayHaveMoved
    <2> QED BY <1>5, <2>2, <2>5
  <1> QED BY <1>7, <1>9, <1>11, <1>12, <1>13 DEF VisitInv

LEMMA ReturnVisits == ASSUME VisitInv, NodeInv', Return PROVE VisitInv'
  <1> DEFINE N == Len(frames)
             M == N - 1
             d == frames[N].node
             f == frames[M]
             on == f.i <= Len(kids[f.node]) /\ kids[f.node][f.i] = d
  <1>1. /\ pc = "walk" /\ pc' = "walk" /\ pass' = pass /\ N > 1 /\ frames[N].i > Len(kids[d])
        /\ frames' = Advance(Rest, d)
        /\ UNCHANGED <<path, parent, kids, visits, size>>
    BY DEF Return, Top, fields
  <1>2. /\ Counted /\ Stack /\ Ahead /\ Behind /\ VisitedBelow /\ Explored /\ VisitedHang
        /\ frames \in Seq(Frame) /\ ShapeInv
    BY DEF VisitInv, NodeInv, ShapeInv, TypeOK, Frame
  <1>3. /\ N \in Nat
        /\ \A l \in 1 .. N : frames[l].node \in Nodes /\ frames[l].i \in Nat /\ frames[l].i >= 1
        /\ \A q \in Nodes : /\ Len(kids[q]) \in Nat /\ DOMAIN kids[q] = 1 .. Len(kids[q])
                            /\ \A x \in DOMAIN kids[q] : kids[q][x] \in Nodes
    BY <1>2, FrameFacts
  <1>4. /\ M \in Nat /\ M >= 1 /\ M < N /\ M \in 1 .. M /\ M \in 1 .. N /\ N \in 1 .. N
        /\ N \in 2 .. N /\ M + 1 = N /\ N - 1 = M /\ ~(N < N)
        /\ \A l \in 1 .. M : l \in 1 .. N /\ l < N /\ (l = M \/ (l < M /\ l + 1 \in 1 .. M))
        /\ \A l \in 2 .. M : l \in 2 .. N /\ l \in 1 .. M /\ l - 1 \in 1 .. M /\ l - 1 < M
        /\ \A l \in 1 .. N : l = N \/ l \in 1 .. M
        /\ \A l \in 2 .. N : l \in 1 .. N
    BY <1>1, <1>3
  <1>5. Rest \in Seq(Frame) /\ Len(Rest) = M /\ \A l \in 1 .. M : Rest[l] = frames[l]
    <2>1. /\ Len(frames) > 0 /\ M \in Nat
          /\ \A l \in 1 .. M : frames[l] \in Frame
      <3>1. \A l \in 1 .. N : frames[l] \in Frame BY <1>2, SeqDomain
      <3>2. Len(frames) > 0 BY <1>1, <1>3
      <3> HIDE DEF N, M, Frame
      <3>3. M \in Nat /\ \A l \in 1 .. M : l \in 1 .. N BY <1>4
      <3> QED BY <3>1, <3>2, <3>3
    <2>2. Rest = SubSeq(frames, 1, M) BY DEF Rest
    <2> HIDE DEF M, Frame
    <2> QED BY <2>1, <2>2, SubSeqProperties
  <1> HIDE DEF N, M, d, f, on, Nodes, Root
  <1>6. /\ Len(frames') = M
        /\ \A l \in 1 .. M : frames'[l].node = frames[l].node
        /\ \A l \in 1 .. M : l < M => frames'[l].i = frames[l].i
        /\ frames'[M].i = IF on THEN f.i + 1 ELSE f.i
    <2>1. Len(Rest) > 0 /\ Rest[M] = f BY <1>4, <1>5 DEF f
    <2>2. /\ Len(Advance(Rest, d)) = Len(Rest)
          /\ \A l \in 1 .. Len(Rest) : Advance(Rest, d)[l].node = Rest[l].node
          /\ \A l \in 1 .. Len(Rest) : l < Len(Rest) => Advance(Rest, d)[l].i = Rest[l].i
          /\ Advance(Rest, d)[M].i
               = IF f.i <= Len(kids[f.node]) /\ kids[f.node][f.i] = d THEN f.i + 1 ELSE f.i
      BY <1>5, <2>1, AdvanceMeaning
    <2>3. /\ Len(frames') = M /\ \A l \in 1 .. M : frames'[l].node = Rest[l].node
          /\ \A l \in 1 .. M : l < M => frames'[l].i = Rest[l].i
          /\ frames'[M].i = IF on THEN f.i + 1 ELSE f.i
      BY <1>1, <1>5, <2>2 DEF on
    <2> QED BY <1>5, <2>3
  <1>7. /\ visits[d] = 1 /\ d \in Nodes /\ f.node \in Nodes /\ f.i \in Nat /\ f.i >= 1
        /\ \A x \in DOMAIN kids[f.node] : kids[f.node][x] = d => x = f.i
    BY <1>2, <1>3, <1>4 DEF Stack, N, d, f
  <1>8. \A x \in DOMAIN kids[f.node] : kids[f.node][x] = d => x = f.i /\ on
    <2>1. DOMAIN kids[f.node] = 1 .. Len(kids[f.node]) /\ Len(kids[f.node]) \in Nat BY <1>3, <1>7
    <2> QED BY <1>7, <2>1 DEF on
  <1>9. Counted' /\ VisitedBelow' /\ VisitedHang'
    BY <1>1, <1>2 DEF Counted, VisitedBelow, VisitedHang, Walking, Hangs
  <1>10. Stack'
    <2>1. Len(frames') > 0 /\ frames'[1].node = Root
      <3>1. 1 \in 1 .. M /\ N > 0 BY <1>4
      <3> QED BY <1>2, <1>4, <1>6, <3>1 DEF Stack, N
    <2>2. ASSUME NEW l \in 2 .. M
          PROVE  /\ frames'[l].node # Root /\ visits[frames'[l].node] = 1
                 /\ parent[frames'[l].node] = frames'[l - 1].node
                 /\ \A x \in DOMAIN kids[frames'[l - 1].node] :
                      kids[frames'[l - 1].node][x] = frames'[l].node => x = frames'[l - 1].i
      <3>1. l \in 2 .. N /\ l \in 1 .. M /\ l - 1 \in 1 .. M /\ l - 1 < M BY <1>4
      <3>2. /\ frames'[l].node = frames[l].node /\ frames'[l - 1].node = frames[l - 1].node
            /\ frames'[l - 1].i = frames[l - 1].i
        BY <1>6, <3>1
      <3>3. /\ frames[l].node # Root /\ visits[frames[l].node] = 1
            /\ parent[frames[l].node] = frames[l - 1].node
            /\ \A x \in DOMAIN kids[frames[l - 1].node] :
                 kids[frames[l - 1].node][x] = frames[l].node => x = frames[l - 1].i
        BY <1>2, <3>1 DEF Stack, N
      <3> QED BY <3>2, <3>3
    <2>3. \A l, m \in 1 .. M : frames'[l].node = frames'[m].node => l = m
      BY <1>2, <1>4, <1>6 DEF Stack, N
    <2> QED BY <1>1, <1>6, <2>1, <2>2, <2>3 DEF Stack, Walking
  <1>11. Ahead'
    <2> SUFFICES ASSUME NEW l \in 1 .. M, NEW x \in DOMAIN kids[frames[l].node],
                        x >= frames'[l].i
                 PROVE  \/ visits[kids[frames[l].node][x]] = 0
                        \/ l < M /\ kids[frames[l].node][x] = frames'[l + 1].node
      BY <1>1, <1>6 DEF Ahead
    <2>0. l \in 1 .. N /\ frames[l].node \in Nodes /\ x \in Nat BY <1>3, <1>4
    <2>1. CASE l = M
      <3>1. frames[l] = f BY <2>1 DEF f
      <3>2. frames'[l].i >= f.i /\ (on => frames'[l].i > f.i) /\ frames'[l].i \in Nat
        BY <1>6, <1>7, <2>1
      <3>3. x >= f.i /\ (on => x # f.i) BY <1>7, <2>0, <3>2
      <3>4. kids[f.node][x] # d BY <1>8, <3>1, <3>3
      <3>5. visits[kids[f.node][x]] = 0 \/ kids[f.node][x] = d
        BY <1>2, <1>4, <2>0, <2>1, <3>1, <3>3 DEF Ahead, N, d
      <3> QED BY <3>1, <3>4, <3>5
    <2>2. CASE l < M /\ l + 1 \in 1 .. M
      <3>1. frames'[l].i = frames[l].i /\ frames'[l + 1].node = frames[l + 1].node
        BY <1>6, <2>2
      <3> QED BY <1>2, <2>0, <2>2, <3>1 DEF Ahead, N
    <2> QED BY <1>4, <2>1, <2>2
  <1>12. Behind'
    <2> SUFFICES ASSUME NEW l \in 1 .. M, NEW x \in DOMAIN kids[frames[l].node],
                        x < frames'[l].i
                 PROVE  visits[kids[frames[l].node][x]] = 1
      BY <1>1, <1>6 DEF Behind
    <2>0. l \in 1 .. N /\ frames[l].node \in Nodes /\ x \in Nat BY <1>3, <1>4
    <2>1. CASE x < frames[l].i BY <1>2, <2>0, <2>1 DEF Behind, N
    <2>2. CASE ~(x < frames[l].i)
      <3>1. l = M BY <1>4, <1>6, <2>2
      <3>2. frames[l] = f BY <3>1 DEF f
      <3>3. on BY <1>6, <2>2, <3>1, <3>2
      <3>4. x = f.i BY <1>6, <1>7, <2>0, <2>2, <3>1, <3>2, <3>3
      <3> QED BY <1>7, <3>2, <3>3, <3>4 DEF on
    <2> QED BY <2>1, <2>2
  <1>13. Explored'
    <2> SUFFICES ASSUME NEW q \in Nodes \ FrameNodes', q = Root \/ visits[q] = 1,
                        NEW x \in DOMAIN kids[q]
                 PROVE  visits[kids[q][x]] = 1 \/ MayHaveMoved(kids[q][x])
      <3>2. Moving' <=> Moving BY <1>1 DEF Moving, Walking
      <3>9. name' = name BY DEF Return, fields
      <3> QED BY <1>1, <3>2, <3>9 DEF Explored, MayHaveMoved
    <2>1. CASE q = d
      <3>1. x < frames[N].i
        <4>1. x <= Len(kids[d]) /\ x \in Nat /\ Len(kids[d]) \in Nat /\ frames[N].i \in Nat
          BY <1>3, <1>4, <2>1
        <4> QED BY <1>1, <4>1
      <3> QED BY <1>2, <1>4, <2>1, <3>1 DEF Behind, N, d
    <2>2. CASE q # d
      <3>1. q \notin FrameNodes
        <4>1. \A l \in 1 .. M : frames'[l].node # q BY <1>6 DEF FrameNodes
        <4>2. \A l \in 1 .. N : frames[l].node # q BY <1>4, <1>6, <2>2, <4>1 DEF d
        <4> QED BY <4>2 DEF FrameNodes, N
      <3>2. Started BY <1>1 DEF Started, Walking
      <3> QED BY <1>2, <3>1, <3>2 DEF Explored, MayHaveMoved
    <2> QED BY <2>1, <2>2
  <1> QED BY <1>9, <1>10, <1>11, <1>12, <1>13 DEF VisitInv

\* A traversal has come back to the root, and has been at all its children.
LEMMA EndPassVisits == ASSUME VisitInv, NodeInv', EndPass PROVE VisitInv'
  <1>1. /\ pc = "walk" /\ Len(frames) = 1 /\ Top.i > Len(kids[Top.node])
        /\ frames' = << >> /\ UNCHANGED <<path, parent, kids, visits, size>>
        /\ \/ pass = "list" /\ pc' = "done" /\ pass' = pass
           \/ pass = "sort" /\ pc' = "start" /\ pass' = "localize"
           \/ pass = "localize" /\ pc' = "start" /\ pass' = "list"
    BY DEF EndPass, NextPass, fields, VisitInv, NodeInv, ShapeInv, TypeOK
  <1>2. /\ Counted /\ Stack /\ Behind /\ VisitedBelow /\ Explored /\ VisitedHang /\ ShapeInv
    BY DEF VisitInv, NodeInv
  <1>3. frames[1].node = Root /\ Top = frames[1] BY <1>1, <1>2 DEF Stack, Top
  <1>4. Counted' /\ VisitedBelow' BY <1>1, <1>2 DEF Counted, VisitedBelow
  <1>5. VisitedHang' BY <1>1, <1>2 DEF VisitedHang, Walking, Hangs
  <1>6. Len(frames') = 0 BY <1>1
  <1>7. Stack' BY <1>1, <1>6 DEF Stack, Walking
  <1>8. Ahead' /\ Behind' BY <1>6 DEF Ahead, Behind
  <1>9. Explored'
    <2> SUFFICES ASSUME NEW q \in Nodes, q = Root \/ visits[q] = 1,
                        NEW x \in DOMAIN kids[q]
                 PROVE  visits[kids[q][x]] = 1 \/ MayHaveMoved(kids[q][x])
      <3>1. Moving => Moving' BY <1>1 DEF Moving, Walking
      <3>9. name' = name BY DEF EndPass, fields
      <3> QED BY <1>1, <3>1, <3>9 DEF Explored, MayHaveMoved
    <2>1. CASE q = Root
      <3>1. 1 \in 1 .. Len(frames) BY <1>1
      <3>2. x < frames[1].i
        <4>1. /\ x \in Nat /\ x <= Len(kids[Root]) /\ Len(kids[Root]) \in Nat
              /\ frames[1].i \in Nat
          BY <1>2, <2>1, <3>1, FrameFacts
        <4> QED BY <1>1, <1>3, <4>1
      <3> QED BY <1>2, <1>3, <2>1, <3>1, <3>2 DEF Behind
    <2>2. CASE q # Root
      <3>1. q \notin FrameNodes BY <1>1, <1>3, <2>2 DEF FrameNodes
      <3>2. Started BY <1>1 DEF Started, Walking
      <3> QED BY <1>2, <3>1, <3>2 DEF Explored, MayHaveMoved
    <2> QED BY <2>1, <2>2
  <1> QED BY <1>4, <1>5, <1>7, <1>8, <1>9 DEF VisitInv

\* The directory that dissolves is in the innermost call, its parent in the one
\* around it, and nothing in it was visited.
LEMMA DissolvingFacts ==
  ASSUME VisitInv, pc = "regroup"
  PROVE  LET N == Len(frames)
             d == frames[N].node
         IN
         /\ Top = frames[N] /\ N \in Nat /\ N > 1 /\ frames[N].i = 1 /\ pass = "localize"
         /\ parent[d] = frames[N - 1].node /\ d # Root
         /\ \A x \in DOMAIN kids[parent[d]] : kids[parent[d]][x] = d => x = frames[N - 1].i
         /\ \A x \in DOMAIN kids[d] : visits[kids[d][x]] = 0
         /\ \A n \in Nodes : visits[n] = 0 /\ n # Root => \A l \in 1 .. N : frames[l].node # n
  <1> DEFINE N == Len(frames)
             d == frames[N].node
  <1>1. /\ Stack /\ Ahead /\ ShapeInv BY DEF VisitInv, NodeInv
  <1>2. Top = frames[N] /\ N > 1 /\ frames[N].i = 1 /\ pass = "localize"
    BY <1>1 DEF Stack, Top
  <1>3. N \in Nat /\ N \in 1 .. N /\ N \in 2 .. N /\ d \in Nodes
    <2>1. N \in Nat BY <1>1, FrameFacts
    <2>2. N \in 1 .. N /\ N \in 2 .. N BY <1>2, <2>1
    <2> QED BY <1>1, <2>1, <2>2, FrameFacts
  <1> HIDE DEF N
  <1>4. /\ parent[d] = frames[N - 1].node /\ d # Root
        /\ \A x \in DOMAIN kids[frames[N - 1].node] :
             kids[frames[N - 1].node][x] = d => x = frames[N - 1].i
    BY <1>1, <1>3 DEF Stack, N
  <1>5. ASSUME NEW x \in DOMAIN kids[d] PROVE visits[kids[d][x]] = 0
    <2>1. DOMAIN kids[d] = 1 .. Len(kids[d]) /\ Len(kids[d]) \in Nat BY <1>1, <1>3, FrameFacts
    <2>2. x >= frames[N].i /\ ~(N < N) BY <1>2, <1>3, <2>1
    <2> QED BY <1>1, <1>3, <2>2 DEF Ahead, N
  <1>6. ASSUME NEW n \in Nodes, visits[n] = 0, n # Root, NEW l \in 1 .. N PROVE frames[l].node # n
    <2>1. l = 1 \/ l \in 2 .. N BY <1>3
    <2>2. frames[1].node = Root BY <1>1, <1>2 DEF Stack, N
    <2> QED BY <1>1, <1>6, <2>1, <2>2 DEF Stack, N
  <1> QED BY <1>2, <1>3, <1>4, <1>5, <1>6 DEF N

LEMMA RegroupIntoVisits == ASSUME VisitInv, NodeInv', RegroupInto PROVE VisitInv'
  <1> DEFINE N == Len(frames)
             d == frames[N].node
             p == parent[d]
             m == Moved
             g == Group
  <1>1. /\ Counted /\ Stack /\ Ahead /\ Behind /\ VisitedBelow /\ Explored /\ ShapeInv
        /\ LprojBelow
    BY DEF VisitInv, NodeInv
  <1>2. pc = "regroup" BY DEF RegroupInto, Regroups
  <1>3. /\ Top = frames[N] /\ N \in Nat /\ N > 1 /\ frames[N].i = 1 /\ pass = "localize"
        /\ p = frames[N - 1].node
        /\ \A x \in DOMAIN kids[d] : visits[kids[d][x]] = 0
        /\ \A n \in Nodes : visits[n] = 0 /\ n # Root => \A l \in 1 .. N : frames[l].node # n
    BY <1>2, DissolvingFacts
  <1>t. Top.node = d BY <1>3
  <1>4. /\ pc' = "regroup" /\ d \in Nodes /\ name[d] \in Lproj
        /\ j \in DOMAIN kids[d] /\ m = kids[d][j] /\ m \in Nodes /\ m # Root
        /\ parent[m] = d
        /\ g \in Nodes /\ g # Root /\ g # d /\ parent[g] = p /\ g # m
        /\ \A n \in Nodes : n # m => parent'[n] = parent[n]
        /\ \A q \in Nodes : q # g => kids'[q] = kids[q]
        /\ \A q \in Nodes : \A x \in DOMAIN kids'[q] :
             \/ x \in DOMAIN kids[q] /\ kids'[q][x] = kids[q][x]
             \/ q = g /\ kids'[q][x] = m
        /\ UNCHANGED <<path, size, pass, frames, visits>>
    <2>1. m \in 2 .. size => m # Root OBVIOUS
    <2>2. g \in 2 .. size => g # Root OBVIOUS
    <2> HIDE DEF m, g, Nodes, Root
    <2> QED BY <1>1, <1>2, <1>t, <2>1, <2>2, RegroupIntoEffect DEF m, g
  <1>5. \A l \in 1 .. N : frames[l].node \in Nodes BY <1>1, FrameFacts
  <1>n. /\ N - 1 \in 1 .. N /\ N \in 1 .. N /\ N - 1 # N /\ (N - 1) + 1 = N
        /\ \A l \in 2 .. N : l \in 1 .. N /\ l - 1 \in 1 .. N /\ (l - 1 = N - 1 => l = N)
        /\ \A l \in 1 .. N : l = 1 \/ l \in 2 .. N
    BY <1>3
  <1> HIDE DEF N, d, p, m, g, Nodes, Root
  <1>6. visits[m] = 0 /\ \A l \in 1 .. N : frames[l].node # m BY <1>3, <1>4
  <1>7. ASSUME NEW l \in 1 .. N PROVE frames[l].node # g
    <2> SUFFICES ASSUME frames[l].node = g PROVE FALSE OBVIOUS
    <2>1. l # 1 BY <1>1, <1>3, <1>4 DEF Stack, N
    <2>2. l \in 2 .. N /\ l - 1 \in 1 .. N BY <1>n, <2>1
    <2>3. parent[g] = frames[l - 1].node BY <1>1, <2>2 DEF Stack, N
    <2>4. l - 1 = N - 1
      <3>1. frames[l - 1].node = frames[N - 1].node BY <1>3, <1>4, <2>3
      <3>2. \A a, b \in 1 .. N : frames[a].node = frames[b].node => a = b
        BY <1>1 DEF Stack, N
      <3>3. N - 1 \in 1 .. N BY <1>n
      <3> QED BY <2>2, <3>1, <3>2, <3>3, Zenon
    <2>5. l = N BY <1>n, <2>2, <2>4
    <2> QED BY <1>4, <2>5 DEF d
  <1>r. \A n \in Nodes : name[n] \notin Lproj => name'[n] \notin Lproj
    BY <1>1, RegroupIntoEffect
  <1>8. Counted' BY <1>1, <1>4 DEF Counted
  <1>9. \A l \in 1 .. N : kids'[frames[l].node] = kids[frames[l].node] BY <1>4, <1>5, <1>7
  <1>10. Stack'
    <2>1. \A l \in 2 .. N : parent'[frames[l].node] = parent[frames[l].node]
      BY <1>4, <1>5, <1>6, <1>n
    <2>2. \A l \in 2 .. N : kids'[frames[l - 1].node] = kids[frames[l - 1].node] BY <1>9, <1>n
    <2>3. Top' = Top BY <1>4 DEF Top
    <2>4. ASSUME NEW l \in 2 .. N
          PROVE  /\ frames[l].node # Root /\ visits[frames[l].node] = 1
                 /\ parent'[frames[l].node] = frames[l - 1].node
                 /\ \A x \in DOMAIN kids'[frames[l - 1].node] :
                      kids'[frames[l - 1].node][x] = frames[l].node => x = frames[l - 1].i
      BY <1>1, <2>1, <2>2 DEF Stack, N
    <2>5. /\ Len(frames) > 0 /\ frames[1].node = Root /\ Len(frames) > 1 /\ Top.i = 1
          /\ \A l, n \in 1 .. N : frames[l].node = frames[n].node => l = n
      BY <1>1, <1>2, <1>3 DEF Stack, N
    <2> QED BY <1>3, <1>4, <2>3, <2>4, <2>5 DEF Stack, Walking, N
  <1>11. Ahead' BY <1>1, <1>4, <1>9 DEF Ahead, N
  <1>12. Behind' BY <1>1, <1>4, <1>9 DEF Behind, N
  <1>13. VisitedBelow'
    <2> SUFFICES ASSUME NEW q \in Nodes \ {Root}, NEW x \in DOMAIN kids'[q],
                        visits[kids'[q][x]] = 1
                 PROVE  visits[q] = 1
      BY <1>4 DEF VisitedBelow
    <2>1. x \in DOMAIN kids[q] /\ kids'[q][x] = kids[q][x] BY <1>4, <1>6
    <2> QED BY <1>1, <2>1 DEF VisitedBelow
  <1>14. Explored'
    <2> SUFFICES ASSUME NEW q \in Nodes \ FrameNodes, q = Root \/ visits[q] = 1,
                        NEW x \in DOMAIN kids'[q]
                 PROVE  visits[kids'[q][x]] = 1 \/ MayHaveMoved(kids'[q][x])
      <3>1. FrameNodes' = FrameNodes BY <1>4 DEF FrameNodes
      <3>2. Moving' <=> Moving BY <1>2, <1>4 DEF Moving, Walking
      <3>3. \A n \in Nodes : \A y \in DOMAIN kids'[n] : kids'[n][y] \in Nodes
        <4>1. kids' \in [Nodes -> Seq(Nodes)] BY DEF NodeInv, ShapeInv, TypeOK
        <4> QED BY <4>1, SeqDomain
      <3> QED BY <1>4, <1>r, <3>1, <3>2, <3>3 DEF Explored, MayHaveMoved
    <2>1. CASE x \in DOMAIN kids[q] /\ kids'[q][x] = kids[q][x]
      <3>1. Started BY <1>2 DEF Started, Walking
      <3> QED BY <1>1, <2>1, <3>1 DEF Explored, MayHaveMoved
    <2>2. CASE kids'[q][x] = m
      <3>1. Under(path[m]) BY <1>1, <1>4 DEF LprojBelow
      <3>2. Moving BY <1>2, <1>3 DEF Moving, Walking
      <3>3. name[m] \notin Lproj BY <1>1, <1>2, <1>4 DEF ShapeInv, NoNestedLproj
      <3> QED BY <2>2, <3>1, <3>2, <3>3 DEF MayHaveMoved
    <2> QED BY <1>4, <2>1, <2>2
  <1>15. VisitedHang' BY <1>3, <1>4 DEF VisitedHang
  <1> QED BY <1>8, <1>10, <1>11, <1>12, <1>13, <1>14, <1>15 DEF VisitInv

LEMMA RegroupNewVisits == ASSUME VisitInv, NodeInv', RegroupNew PROVE VisitInv'
  <1> DEFINE N == Len(frames)
             d == frames[N].node
             p == parent[d]
             m == Moved
             g == size + 1
  <1>1. /\ Counted /\ Stack /\ Ahead /\ Behind /\ VisitedBelow /\ Explored /\ ShapeInv
        /\ size \in Nat
    <2>1. size \in Nodes BY DEF VisitInv, NodeInv, ShapeInv, TypeOK
    <2>2. size \in Nat BY <2>1
    <2> QED BY <2>2 DEF VisitInv, NodeInv
  <1>2. pc = "regroup" BY DEF RegroupNew, Regroups
  <1>3. /\ Top = frames[N] /\ N \in Nat /\ N > 1 /\ frames[N].i = 1 /\ pass = "localize"
        /\ p = frames[N - 1].node
        /\ \A x \in DOMAIN kids[p] : kids[p][x] = d => x = frames[N - 1].i
        /\ \A x \in DOMAIN kids[d] : visits[kids[d][x]] = 0
        /\ \A n \in Nodes : visits[n] = 0 /\ n # Root => \A l \in 1 .. N : frames[l].node # n
    BY <1>2, DissolvingFacts
  <1>t. Top.node = d BY <1>3
  <1>4. /\ pc' = "regroup" /\ d \in Nodes /\ p \in Nodes /\ p # d
        /\ \E x \in DOMAIN kids[p] : kids[p][x] = d
        /\ j \in DOMAIN kids[d] /\ m = kids[d][j] /\ m \in Nodes /\ m # Root
        /\ size' = g /\ g \in Nodes /\ g # Root /\ g # m /\ g # p /\ g # d
        /\ \A n \in Nodes : n # m /\ n # g => parent'[n] = parent[n]
        /\ \A q \in Nodes : q # g /\ q # p => kids'[q] = kids[q]
        /\ \A q \in Nodes : \A x \in DOMAIN kids'[q] :
             \/ q # g /\ x \in DOMAIN kids[q] /\ kids'[q][x] = kids[q][x]
             \/ q = p /\ x = Len(kids[p]) + 1 /\ kids'[q][x] = g
             \/ q = g /\ x = 1 /\ kids'[q][x] = m
        /\ UNCHANGED <<path, pass, frames, visits>>
    <2>1. m \in 2 .. size => m # Root OBVIOUS
    <2> HIDE DEF m, g, Nodes, Root
    <2> QED BY <1>1, <1>2, <1>t, <2>1, RegroupNewEffect DEF m, g
  <1>5. /\ \A l \in 1 .. N : frames[l].node \in Nodes /\ frames[l].i \in Nat
        /\ \A q \in Nodes : Len(kids[q]) \in Nat /\ DOMAIN kids[q] = 1 .. Len(kids[q])
    BY <1>1, FrameFacts
  <1>n. /\ N - 1 \in 1 .. N /\ N \in 1 .. N
        /\ \A l \in 2 .. N : l \in 1 .. N /\ l - 1 \in 1 .. N
    BY <1>3
  <1>6. visits[g] = 0 /\ g > size
    <2>1. g > size BY <1>1
    <2> HIDE DEF g
    <2> QED BY <1>1, <1>4, <2>1 DEF Counted
  <1> HIDE DEF N, d, p, m, g, Root
  <1>8. Counted' BY <1>1, <1>4, <1>6 DEF Counted
  <1> HIDE DEF Nodes
  <1>r. \A n \in Nodes : name[n] \notin Lproj => name'[n] \notin Lproj
    BY <1>1, RegroupNewEffect
  <1>7. /\ visits[m] = 0 /\ \A l \in 1 .. N : frames[l].node # m
        /\ \A l \in 1 .. N : frames[l].node # g
    BY <1>3, <1>4, <1>6
  <1>9. ASSUME NEW l \in 1 .. N, NEW x \in DOMAIN kids'[frames[l].node]
        PROVE  \/ x \in DOMAIN kids[frames[l].node] /\ kids'[frames[l].node][x] = kids[frames[l].node][x]
               \/ x > frames[l].i /\ kids'[frames[l].node][x] = g
    <2>1. frames[l].node \in Nodes /\ frames[l].node # g BY <1>5, <1>7
    <2>2. CASE x \in DOMAIN kids[frames[l].node] /\ kids'[frames[l].node][x] = kids[frames[l].node][x]
      BY <2>2
    <2>3. CASE /\ frames[l].node = p /\ x = Len(kids[p]) + 1
               /\ kids'[frames[l].node][x] = g
      <3>1. l = N - 1
        <4>1. \A a, b \in 1 .. N : frames[a].node = frames[b].node => a = b
          BY <1>1 DEF Stack, N
        <4>2. N - 1 \in 1 .. N /\ frames[l].node = frames[N - 1].node BY <1>3, <1>n, <2>3
        <4> QED BY <4>1, <4>2, Zenon
      <3>2. PICK y \in DOMAIN kids[p] : kids[p][y] = d BY <1>4
      <3>3. y = frames[l].i BY <1>3, <3>1, <3>2
      <3>4. y \in 1 .. Len(kids[p]) /\ Len(kids[p]) \in Nat BY <1>4, <1>5, <3>2
      <3>5. x > y BY <2>3, <3>4
      <3> QED BY <2>3, <3>3, <3>5
    <2> QED BY <1>4, <2>1, <2>2, <2>3
  <1>10. Stack'
    <2>1. \A l \in 2 .. N : parent'[frames[l].node] = parent[frames[l].node]
      BY <1>4, <1>5, <1>7, <1>n
    <2>3. Top' = Top BY <1>4 DEF Top
    <2>4. ASSUME NEW l \in 2 .. N
          PROVE  /\ frames[l].node # Root /\ visits[frames[l].node] = 1
                 /\ parent'[frames[l].node] = frames[l - 1].node
                 /\ \A x \in DOMAIN kids'[frames[l - 1].node] :
                      kids'[frames[l - 1].node][x] = frames[l].node => x = frames[l - 1].i
      <3>1. ASSUME NEW x \in DOMAIN kids'[frames[l - 1].node],
                   kids'[frames[l - 1].node][x] = frames[l].node
            PROVE  x = frames[l - 1].i
        <4>1. l \in 1 .. N /\ l - 1 \in 1 .. N BY <1>n
        <4>2. frames[l].node # g BY <1>7, <4>1
        <4>3. /\ x \in DOMAIN kids[frames[l - 1].node]
              /\ kids'[frames[l - 1].node][x] = kids[frames[l - 1].node][x]
          BY <1>9, <3>1, <4>1, <4>2
        <4> QED BY <1>1, <3>1, <4>3 DEF Stack, N
      <3> QED BY <1>1, <2>1, <3>1 DEF Stack, N
    <2>5. /\ Len(frames) > 0 /\ frames[1].node = Root /\ Len(frames) > 1 /\ Top.i = 1
          /\ \A l, n \in 1 .. N : frames[l].node = frames[n].node => l = n
      BY <1>1, <1>2, <1>3 DEF Stack, N
    <2> QED BY <1>3, <1>4, <2>3, <2>4, <2>5 DEF Stack, Walking, N
  <1>11. Ahead'
    <2> SUFFICES ASSUME NEW l \in 1 .. N, NEW x \in DOMAIN kids'[frames[l].node],
                        x >= frames[l].i
                 PROVE  \/ visits[kids'[frames[l].node][x]] = 0
                        \/ l < N /\ kids'[frames[l].node][x] = frames[l + 1].node
      BY <1>4 DEF Ahead, N
    <2>1. CASE kids'[frames[l].node][x] = g BY <1>6, <2>1
    <2>2. CASE x \in DOMAIN kids[frames[l].node]
               /\ kids'[frames[l].node][x] = kids[frames[l].node][x]
      BY <1>1, <2>2 DEF Ahead, N
    <2> QED BY <1>9, <2>1, <2>2
  <1>12. Behind'
    <2> SUFFICES ASSUME NEW l \in 1 .. N, NEW x \in DOMAIN kids'[frames[l].node],
                        x < frames[l].i
                 PROVE  visits[kids'[frames[l].node][x]] = 1
      BY <1>4 DEF Behind, N
    <2>1. CASE x > frames[l].i
      <3>1. frames[l].i \in Nat /\ frames[l].node \in Nodes BY <1>5
      <3>2. x \in Nat
        <4>1. kids' \in [Nodes -> Seq(Nodes)] BY DEF NodeInv, ShapeInv, TypeOK
        <4>2. DOMAIN kids'[frames[l].node] = 1 .. Len(kids'[frames[l].node])
          BY <3>1, <4>1, SeqDomain
        <4> QED BY <4>2
      <3> QED BY <2>1, <3>1, <3>2
    <2>2. CASE x \in DOMAIN kids[frames[l].node]
               /\ kids'[frames[l].node][x] = kids[frames[l].node][x]
      BY <1>1, <2>2 DEF Behind, N
    <2> QED BY <1>9, <2>1, <2>2
  <1>13. VisitedBelow'
    <2> SUFFICES ASSUME NEW q \in Nodes \ {Root}, NEW x \in DOMAIN kids'[q],
                        visits[kids'[q][x]] = 1
                 PROVE  visits[q] = 1
      BY <1>4 DEF VisitedBelow
    <2>1. x \in DOMAIN kids[q] /\ kids'[q][x] = kids[q][x] BY <1>4, <1>6, <1>7
    <2> QED BY <1>1, <2>1 DEF VisitedBelow
  <1>14. Explored'
    <2> SUFFICES ASSUME NEW q \in Nodes \ FrameNodes, q = Root \/ visits[q] = 1,
                        NEW x \in DOMAIN kids'[q]
                 PROVE  visits[kids'[q][x]] = 1 \/ MayHaveMoved(kids'[q][x])
      <3>1. FrameNodes' = FrameNodes BY <1>4 DEF FrameNodes
      <3>2. Moving' <=> Moving BY <1>2, <1>4 DEF Moving, Walking
      <3>3. \A n \in Nodes : \A y \in DOMAIN kids'[n] : kids'[n][y] \in Nodes
        <4>1. kids' \in [Nodes -> Seq(Nodes)] BY DEF NodeInv, ShapeInv, TypeOK
        <4> QED BY <4>1, SeqDomain
      <3> QED BY <1>4, <1>r, <3>1, <3>2, <3>3 DEF Explored, MayHaveMoved
    <2>1. q # p BY <1>3, <1>n DEF FrameNodes, N
    <2>2. q # g BY <1>4, <1>6
    <2>3. x \in DOMAIN kids[q] /\ kids'[q][x] = kids[q][x] BY <1>4, <2>1, <2>2
    <2>4. Started BY <1>2 DEF Started, Walking
    <2> QED BY <1>1, <2>3, <2>4 DEF Explored, MayHaveMoved
  <1>15. VisitedHang' BY <1>3, <1>4 DEF VisitedHang
  <1> QED BY <1>8, <1>10, <1>11, <1>12, <1>13, <1>14, <1>15 DEF VisitInv

\* Without an element, what was behind it is one position further in front.
LEMMA WithoutPlaces ==
  ASSUME NEW S, NEW s \in Seq(S), NEW n, NEW m \in DOMAIN s, s[m] = n,
         \A x, y \in DOMAIN s : s[x] = s[y] => x = y
  PROVE  \A x \in DOMAIN Without(s, n) :
           /\ Without(s, n)[x] # n
           /\ \/ x < m /\ x \in DOMAIN s /\ Without(s, n)[x] = s[x]
              \/ x >= m /\ x + 1 \in DOMAIN s /\ Without(s, n)[x] = s[x + 1]
  <1>1. Len(s) \in Nat /\ DOMAIN s = 1 .. Len(s) BY SeqDomain
  <1>2. (CHOOSE l \in DOMAIN s : s[l] = n) = m OBVIOUS
  <1>3. Without(s, n) = [x \in 1 .. Len(s) - 1 |-> s[IF x < m THEN x ELSE x + 1]]
    BY <1>2 DEF Without
  <1>4. \A x \in DOMAIN Without(s, n) :
          \/ x < m /\ x \in DOMAIN s /\ Without(s, n)[x] = s[x]
          \/ x >= m /\ x + 1 \in DOMAIN s /\ Without(s, n)[x] = s[x + 1]
    BY <1>1, <1>3
  <1>5. \A x \in DOMAIN Without(s, n) : Without(s, n)[x] # n BY WithoutProps
  <1> QED BY <1>4, <1>5

LEMMA RegroupDoneVisits == ASSUME VisitInv, NodeInv', RegroupDone PROVE VisitInv'
  <1> DEFINE N == Len(frames)
             d == frames[N].node
             p == parent[d]
             f == frames[N - 1]
  <1>1. /\ Counted /\ Stack /\ Ahead /\ Behind /\ VisitedBelow /\ Explored /\ ShapeInv
        /\ InListOnce /\ kids \in [Nodes -> Seq(Nodes)]
    BY DEF VisitInv, NodeInv, ShapeInv, TypeOK
  <1>2. pc = "regroup" BY DEF RegroupDone
  <1>3. /\ Top = frames[N] /\ N \in Nat /\ N > 1 /\ pass = "localize"
        /\ p = f.node
        /\ \A x \in DOMAIN kids[p] : kids[p][x] = d => x = f.i
    BY <1>2, DissolvingFacts
  <1>t. Top.node = d BY <1>3
  <1>4. /\ pc' = "walk" /\ d \in Nodes /\ p \in Nodes /\ p # d
        /\ \E x \in DOMAIN kids[p] : kids[p][x] = d
        /\ kids' = [kids EXCEPT ![p] = Without(@, d), ![d] = << >>]
        /\ UNCHANGED <<path, pass, frames, visits, size, parent>>
    <2>1. /\ pc' = "walk" /\ kids' = [kids EXCEPT ![p] = Without(@, d), ![d] = << >>]
          /\ UNCHANGED <<path, pass, frames, visits, size, parent>>
      BY <1>t DEF RegroupDone, remove, walk
    <2> QED BY <1>1, <1>2, <1>t, <2>1, RegroupFacts
  <1>5. \A l \in 1 .. N : frames[l].node \in Nodes /\ frames[l].i \in Nat
    BY <1>1, FrameFacts
  <1>n. /\ N - 1 \in 1 .. N /\ N \in 1 .. N /\ (N - 1) + 1 = N
        /\ \A l \in 2 .. N : l \in 1 .. N /\ l - 1 \in 1 .. N /\ l - 1 # N
             /\ (l - 1 = N - 1 => l = N)
    BY <1>3
  <1>u. visits' = visits /\ frames' = frames /\ parent' = parent /\ Len(frames') = N BY <1>4
  <1> HIDE DEF N, d, p, f, Nodes, Root
  <1>6. f.i \in DOMAIN kids[p] /\ kids[p][f.i] = d BY <1>3, <1>4
  <1>7. /\ kids'[p] = Without(kids[p], d) /\ DOMAIN kids'[d] = {}
        /\ \A q \in Nodes : q # p /\ q # d => kids'[q] = kids[q]
    <2>1. DOMAIN << >> = {} OBVIOUS
    <2> QED BY <1>1, <1>4, <2>1
  <1>8. \A x \in DOMAIN kids'[p] :
          /\ kids'[p][x] # d
          /\ \/ x < f.i /\ x \in DOMAIN kids[p] /\ kids'[p][x] = kids[p][x]
             \/ x >= f.i /\ x + 1 \in DOMAIN kids[p] /\ kids'[p][x] = kids[p][x + 1]
    <2>1. kids[p] \in Seq(Nodes) /\ \A x, y \in DOMAIN kids[p] : kids[p][x] = kids[p][y] => x = y
      BY <1>1, <1>4 DEF InListOnce
    <2>2. \A x \in DOMAIN Without(kids[p], d) :
            /\ Without(kids[p], d)[x] # d
            /\ \/ x < f.i /\ x \in DOMAIN kids[p] /\ Without(kids[p], d)[x] = kids[p][x]
               \/ x >= f.i /\ x + 1 \in DOMAIN kids[p] /\ Without(kids[p], d)[x] = kids[p][x + 1]
      BY <1>6, <2>1, WithoutPlaces
    <2> QED BY <1>7, <2>2
  <1>9. \A q \in Nodes : \A x \in DOMAIN kids'[q] :
          \E y \in DOMAIN kids[q] : kids'[q][x] = kids[q][y]
    BY <1>7, <1>8
  <1>c. \A l \in 1 .. N : \/ l = N \/ l = N - 1
                          \/ kids'[frames[l].node] = kids[frames[l].node]
    <2> SUFFICES ASSUME NEW l \in 1 .. N, l # N, l # N - 1
                 PROVE  kids'[frames[l].node] = kids[frames[l].node]
      OBVIOUS
    <2>1. \A a, b \in 1 .. N : frames[a].node = frames[b].node => a = b BY <1>1 DEF Stack, N
    <2>2. frames[l].node # frames[N].node /\ frames[l].node # frames[N - 1].node
      BY <1>n, <2>1, Zenon
    <2>3. frames[l].node # d /\ frames[l].node # p BY <1>3, <2>2 DEF d, f
    <2> QED BY <1>5, <1>7, <2>3
  <1>10. Counted' BY <1>1, <1>4 DEF Counted
  <1>11. Stack'
    <2>1. ASSUME NEW l \in 2 .. N
          PROVE  /\ frames[l].node # Root /\ visits[frames[l].node] = 1
                 /\ parent[frames[l].node] = frames[l - 1].node
                 /\ \A x \in DOMAIN kids'[frames[l - 1].node] :
                      kids'[frames[l - 1].node][x] = frames[l].node => x = frames[l - 1].i
      <3>1. CASE l - 1 = N - 1
        <4>1. l = N /\ frames[l].node = d /\ frames[l - 1].node = p
          BY <1>3, <1>n, <3>1 DEF d, f
        <4> QED BY <1>1, <1>8, <4>1 DEF Stack, N
      <3>2. CASE l - 1 # N - 1
        <4>1. kids'[frames[l - 1].node] = kids[frames[l - 1].node] BY <1>c, <1>n, <3>2
        <4> QED BY <1>1, <4>1 DEF Stack, N
      <3> QED BY <3>1, <3>2
    <2>2. /\ Len(frames) > 0 /\ frames[1].node = Root
          /\ \A l, n \in 1 .. N : frames[l].node = frames[n].node => l = n
      BY <1>1, <1>2, <1>3 DEF Stack, N
    <2>3. ASSUME NEW l \in 2 .. N
          PROVE  /\ frames'[l].node # Root /\ visits'[frames'[l].node] = 1
                 /\ parent'[frames'[l].node] = frames'[l - 1].node
                 /\ \A x \in DOMAIN kids'[frames'[l - 1].node] :
                      kids'[frames'[l - 1].node][x] = frames'[l].node => x = frames'[l - 1].i
      BY <1>u, <2>1
    <2>4. /\ Walking' <=> Len(frames') > 0
          /\ pc' # "regroup" /\ pc' # "add" /\ pc' # "done"
      BY <1>4, <1>u, <2>2 DEF Walking
    <2>5. /\ Len(frames') > 0 => frames'[1].node = Root
          /\ \A l, n \in 1 .. N : frames'[l].node = frames'[n].node => l = n
      BY <1>u, <2>2
    <2> QED BY <1>u, <2>3, <2>4, <2>5 DEF Stack
  <1>12. Ahead'
    <2> SUFFICES ASSUME NEW l \in 1 .. N, NEW x \in DOMAIN kids'[frames[l].node],
                        x >= frames[l].i
                 PROVE  \/ visits[kids'[frames[l].node][x]] = 0
                        \/ l < N /\ kids'[frames[l].node][x] = frames[l + 1].node
      BY <1>u DEF Ahead
    <2>1. CASE l = N BY <1>7, <2>1 DEF d
    <2>2. CASE l = N - 1
      <3>1. frames[l] = f /\ f.node = p /\ f.i \in Nat /\ l \in Nat /\ l + 1 = N
        BY <1>3, <1>5, <1>n, <2>2 DEF f
      <3>2. x >= f.i /\ kids'[p][x] # d BY <1>8, <3>1
      <3>3. PICK y \in DOMAIN kids[p] : y >= f.i /\ kids'[p][x] = kids[p][y]
        <4>1. CASE x \in DOMAIN kids[p] /\ kids'[p][x] = kids[p][x] BY <3>2, <4>1
        <4>2. CASE x + 1 \in DOMAIN kids[p] /\ kids'[p][x] = kids[p][x + 1]
          <5>1. DOMAIN kids'[p] = 1 .. Len(kids'[p])
            <6>1. kids' \in [Nodes -> Seq(Nodes)] BY DEF NodeInv, ShapeInv, TypeOK
            <6> QED BY <1>4, <6>1, SeqDomain
          <5>2. x \in Nat BY <3>1, <5>1
          <5>3. x + 1 >= f.i BY <3>1, <3>2, <5>2
          <5> QED BY <4>2, <5>3
        <4> QED BY <1>8, <3>1, <4>1, <4>2
      <3>4. visits[kids[p][y]] = 0 \/ (l < N /\ kids[p][y] = frames[l + 1].node)
        BY <1>1, <3>1, <3>3 DEF Ahead, N
      <3>5. frames[l + 1].node = d BY <3>1 DEF d
      <3> QED BY <3>1, <3>2, <3>3, <3>4, <3>5
    <2>3. CASE kids'[frames[l].node] = kids[frames[l].node] BY <1>1, <2>3 DEF Ahead, N
    <2> QED BY <1>c, <2>1, <2>2, <2>3
  <1>13. Behind'
    <2> SUFFICES ASSUME NEW l \in 1 .. N, NEW x \in DOMAIN kids'[frames[l].node],
                        x < frames[l].i
                 PROVE  visits[kids'[frames[l].node][x]] = 1
      BY <1>u DEF Behind
    <2>1. CASE l = N BY <1>7, <2>1 DEF d
    <2>2. CASE l = N - 1
      <3>1. frames[l] = f /\ f.node = p /\ f.i \in Nat BY <1>3, <1>5, <2>2 DEF f
      <3>2. x \in Nat
        <4>1. kids' \in [Nodes -> Seq(Nodes)] BY DEF NodeInv, ShapeInv, TypeOK
        <4>2. DOMAIN kids'[p] = 1 .. Len(kids'[p]) BY <1>4, <4>1, SeqDomain
        <4> QED BY <3>1, <4>2
      <3>3. x < f.i /\ ~(x >= f.i) BY <3>1, <3>2
      <3>4. x \in DOMAIN kids[p] /\ kids'[p][x] = kids[p][x] BY <1>8, <3>1, <3>3
      <3> QED BY <1>1, <3>1, <3>3, <3>4 DEF Behind, N
    <2>3. CASE kids'[frames[l].node] = kids[frames[l].node] BY <1>1, <2>3 DEF Behind, N
    <2> QED BY <1>c, <2>1, <2>2, <2>3
  <1>14. VisitedBelow'
    <2> SUFFICES ASSUME NEW q \in Nodes \ {Root}, NEW x \in DOMAIN kids'[q],
                        visits[kids'[q][x]] = 1
                 PROVE  visits[q] = 1
      BY <1>u DEF VisitedBelow
    <2>1. PICK y \in DOMAIN kids[q] : kids'[q][x] = kids[q][y] BY <1>9
    <2> QED BY <1>1, <2>1 DEF VisitedBelow
  <1>15. Explored'
    <2> SUFFICES ASSUME NEW q \in Nodes \ FrameNodes, q = Root \/ visits[q] = 1,
                        NEW x \in DOMAIN kids'[q]
                 PROVE  visits[kids'[q][x]] = 1 \/ MayHaveMoved(kids'[q][x])
      <3>1. FrameNodes' = FrameNodes BY <1>4 DEF FrameNodes
      <3>2. Moving' <=> Moving BY <1>2, <1>4 DEF Moving, Walking
      <3>9. name' = name BY DEF RegroupDone
      <3> QED BY <1>4, <3>1, <3>2, <3>9 DEF Explored, MayHaveMoved
    <2>1. PICK y \in DOMAIN kids[q] : kids'[q][x] = kids[q][y] BY <1>9
    <2>2. Started BY <1>2 DEF Started, Walking
    <2> QED BY <1>1, <2>1, <2>2 DEF Explored, MayHaveMoved
  <1>16. VisitedHang' BY <1>3, <1>4 DEF VisitedHang
  <1> QED BY <1>10, <1>11, <1>12, <1>13, <1>14, <1>15, <1>16 DEF VisitInv

LEMMA InitVisits == Init => VisitInv
  <1> SUFFICES ASSUME Init PROVE VisitInv OBVIOUS
  <1>1. NodeInv BY InitNodes
  <1>2. /\ pc = "add" /\ pass = "sort" /\ frames = << >> /\ visits = [n \in Nodes |-> 0]
    BY DEF Init
  <1>3. visits \in [Nodes -> {0, 1}] /\ \A n \in Nodes : visits[n] = 0 BY <1>2
  <1>4. \A p \in Nodes : \A x \in DOMAIN kids[p] : kids[p][x] \in Nodes
    BY <1>1, FrameFacts DEF NodeInv
  <1>5. Len(frames) = 0 BY <1>2
  <1> HIDE DEF Nodes, Root
  <1>6. Counted BY <1>3 DEF Counted
  <1>7. Stack BY <1>2, <1>5 DEF Stack, Walking
  <1>8. Ahead /\ Behind BY <1>5 DEF Ahead, Behind
  <1>9. VisitedBelow BY <1>3, <1>4 DEF VisitedBelow
  <1>10. Explored /\ VisitedHang BY <1>2 DEF Explored, Started, VisitedHang, Walking
  <1> QED BY <1>1, <1>6, <1>7, <1>8, <1>9, <1>10 DEF VisitInv

LEMMA StepVisits == VisitInv /\ [Next]_vars => VisitInv'
  <1> SUFFICES ASSUME VisitInv, [Next]_vars PROVE VisitInv' OBVIOUS
  <1>1. NodeInv' BY StepNodes DEF VisitInv
  <1>2. CASE UNCHANGED vars
    <2>1. UNCHANGED <<name, path, parent, kids, size, pc, pass, frames, visits>>
      BY <1>2 DEF vars, fields, walk
    <2>2. Counted' /\ VisitedBelow' BY <2>1 DEF VisitInv, Counted, VisitedBelow
    <2>3. Walking' = Walking /\ Top' = Top /\ FrameNodes' = FrameNodes /\ Moving' = Moving
          /\ Started' = Started
      BY <2>1 DEF Walking, Top, FrameNodes, Moving, Started
    <2>4. Stack' BY <2>1, <2>3 DEF VisitInv, Stack
    <2>5. Ahead' /\ Behind' BY <2>1 DEF VisitInv, Ahead, Behind
    <2>6. Explored' BY <2>1, <2>3 DEF VisitInv, Explored, MayHaveMoved
    <2>7. VisitedHang' BY <2>1, <2>3 DEF VisitInv, VisitedHang, Hangs
    <2> QED BY <1>1, <2>2, <2>4, <2>5, <2>6, <2>7 DEF VisitInv
  <1>3. CASE Next
    BY <1>1, <1>3, AddStepVisits, StartPassVisits, VisitLeafVisits, VisitBranchVisits,
       ReturnVisits, EndPassVisits, RegroupIntoVisits, RegroupNewVisits, RegroupDoneVisits
       DEF Next
  <1> QED BY <1>2, <1>3

LEMMA VisitInvariant == Spec => []VisitInv
  BY InitVisits, StepVisits, PTL DEF Spec

\* A node hangs in the tree if it hangs in its parent's list and that does.
InTreeStep(n, T) == n = Root \/ (parent[n] # Nil /\ Hangs(n, parent[n]) /\ parent[n] \in T)

LEMMA InTreeMeaning ==
  ASSUME parent \in [Nodes -> Nodes \cup {Nil}]
  PROVE  \A n \in Nodes : InTree[n] <=>
           n = Root \/ (parent[n] # Nil /\ Hangs(n, parent[n]) /\ InTree[parent[n]])
  <1> DEFINE Closed(T) == \A n \in T : InTreeStep(n, T)
             S == {n \in Nodes : \E T \in SUBSET Nodes : n \in T /\ Closed(T)}
             S2 == {n \in Nodes : InTreeStep(n, S)}
             f == [n \in Nodes |-> n \in S]
             Body(g, n) ==
               n = Root \/ (parent[n] # Nil /\ Hangs(n, parent[n]) /\ g[parent[n]])
             tree == CHOOSE g : g = [n \in Nodes |-> Body(g, n)]
  <1> HIDE DEF Nodes, Root, Nil
  <1>1. \A n \in Nodes : parent[n] # Nil => parent[n] \in Nodes OBVIOUS
  <1>2. ASSUME NEW A, NEW B, A \subseteq B, NEW n, InTreeStep(n, A) PROVE InTreeStep(n, B)
    BY <1>2 DEF InTreeStep
  <1>3. Closed(S)
    <2> SUFFICES ASSUME NEW n \in S PROVE InTreeStep(n, S) OBVIOUS
    <2>1. PICK T \in SUBSET Nodes : n \in T /\ Closed(T) OBVIOUS
    <2>2. T \subseteq S BY <2>1
    <2>3. InTreeStep(n, T) BY <2>1
    <2> HIDE DEF S
    <2> QED BY <1>2, <2>2, <2>3
  <1>4. S2 \subseteq S
    <2>1. S \subseteq S2
      <3>1. S \subseteq Nodes OBVIOUS
      <3> HIDE DEF S
      <3> QED BY <1>3, <3>1
    <2>2. Closed(S2)
      <3> HIDE DEF S
      <3>1. \A n \in S2 : InTreeStep(n, S) OBVIOUS
      <3> HIDE DEF S2
      <3> QED BY <1>2, <2>1, <3>1
    <2>3. S2 \in SUBSET Nodes OBVIOUS
    <2> HIDE DEF S2, Closed
    <2> QED BY <2>2, <2>3
  <1>5. \A n \in Nodes : n \in S <=> InTreeStep(n, S)
    <2> HIDE DEF S
    <2> QED BY <1>3, <1>4
  <1> HIDE DEF S
  <1>6. ASSUME NEW n \in Nodes PROVE f[n] = Body(f, n)
    <2>1. f[n] <=> InTreeStep(n, S) BY <1>5
    <2>2. InTreeStep(n, S) <=> Body(f, n)
      <3>1. CASE parent[n] # Nil
        <4>1. f[parent[n]] <=> parent[n] \in S BY <1>1, <3>1
        <4> HIDE DEF f
        <4> QED BY <4>1 DEF InTreeStep
      <3>2. CASE parent[n] = Nil BY <3>2 DEF InTreeStep
      <3> QED BY <3>1, <3>2
    <2>3. f[n] \in BOOLEAN OBVIOUS
    <2>4. Body(f, n) \in BOOLEAN OBVIOUS
    <2> HIDE DEF f, Body
    <2> QED BY <2>1, <2>2, <2>3, <2>4
  <1>7. f = [n \in Nodes |-> Body(f, n)]
    <2>1. f = [n \in Nodes |-> f[n]] OBVIOUS
    <2> HIDE DEF f, Body
    <2> QED BY <1>6, <2>1
  <1>8. tree = [n \in Nodes |-> Body(tree, n)]
    <2>1. \E g : g = [n \in Nodes |-> Body(g, n)]
      <3> HIDE DEF f, Body
      <3> QED BY <1>7
    <2> HIDE DEF Body
    <2> QED BY <2>1
  <1>9. InTree = tree BY DEF InTree, Nodes, Root, Nil
  <1> HIDE DEF tree
  <1>10. \A n \in Nodes : InTree[n] = Body(InTree, n)
    <2> HIDE DEF Body
    <2> QED BY <1>8, <1>9
  <1> QED BY <1>10

\* Going from a node to its parent again and again ends.
LEMMA AncestryEnds ==
  ASSUME Levels, NEW Bad \in SUBSET Nodes, \A n \in Bad : parent[n] \in Bad
  PROVE  Bad = {}
  <1> SUFFICES ASSUME Bad # {} PROVE FALSE OBVIOUS
  <1>1. PICK depth \in [Nodes -> Nat] : Level(depth, parent) BY DEF Levels
  <1> DEFINE T == {depth[n] : n \in Bad}
  <1>d. \A n \in Nodes : depth[n] \in Nat BY <1>1
  <1> HIDE DEF Nodes
  <1>2. T \in SUBSET Nat /\ T # {} BY <1>d
  <1>3. PICK l \in T : \A m \in T : l <= m
    <2> HIDE DEF T
    <2> QED BY <1>2, LeastNatural
  <1>4. PICK n \in Bad : depth[n] = l BY <1>3
  <1>5. parent[n] \in Bad /\ parent[n] \in Nodes /\ parent[n] # Nil /\ n \in Nodes
    <2>1. \A m \in Nodes : m # Nil BY DEF Nodes
    <2> QED BY <2>1
  <1>6. depth[parent[n]] \in T BY <1>5
  <1>7. depth[n] = depth[parent[n]] + 1 /\ depth[parent[n]] \in Nat
    BY <1>1, <1>d, <1>5 DEF Level
  <1>8. l <= depth[parent[n]] BY <1>3, <1>6
  <1> QED BY <1>4, <1>7, <1>8

\* For every list of files: no traversal calls back twice for a node while the
\* callback inserts and removes nodes (tree.traverse, tree.remove), nor misses
\* one that it did not move, and the last one lists what is in the tree.
THEOREM TraversalsVisitOnce == Spec => []VisitedOnce
  <1>1. VisitInv => VisitedOnce
    <2> SUFFICES ASSUME VisitInv PROVE VisitedOnce OBVIOUS
    <2>1. /\ Counted /\ Stack /\ Explored /\ VisitedBelow /\ VisitedHang /\ Levels /\ LprojBelow
          /\ parent \in [Nodes -> Nodes \cup {Nil}] /\ size \in Nodes
      BY DEF VisitInv, NodeInv, ShapeInv, TypeOK
    <2>2. \A n \in 2 .. size : n \in Nodes /\ n # Root BY <2>1
    <2>3. \A n \in Nodes : visits[n] \in {0, 1} BY <2>1 DEF Counted
    <2>4. \A n \in Nodes : InTree[n] <=>
            n = Root \/ (parent[n] # Nil /\ Hangs(n, parent[n]) /\ InTree[parent[n]])
      BY <2>1, InTreeMeaning
    <2>5. \A n \in Nodes : parent[n] # Nil => parent[n] \in Nodes BY <2>1
    <2>a. \A n \in Nodes : visits[n] <= 1 BY <2>3
    <2> HIDE DEF Nodes, Root, Nil
    <2>6. ASSUME pc = "done" \/ (pc = "start" /\ pass # "sort"),
                 NEW n \in 2 .. size, ~Relocated(n), InTree[n]
          PROVE  visits[n] = 1
      <3> DEFINE Bad == {m \in Nodes \ {Root} : /\ InTree[m] /\ visits[m] # 1
                                                /\ ~(Moving /\ Under(path[m]))}
      <3>1. Started /\ FrameNodes = {}
        <4>1. ~Walking BY <2>6 DEF Walking
        <4>2. Len(frames) \in Nat BY FrameFacts DEF VisitInv, NodeInv
        <4>3. Len(frames) = 0 BY <2>1, <4>1, <4>2 DEF Stack
        <4> QED BY <2>6, <4>3 DEF Started, FrameNodes
      <3>2. Moving /\ Under(path[n]) => Relocated(n)
        BY <2>6 DEF Moving, Walking, Under, Relocated
      <3>3. ASSUME NEW m \in Bad PROVE parent[m] \in Bad
        <4> DEFINE p == parent[m]
        <4>1. p # Nil /\ Hangs(m, p) /\ InTree[p] /\ p \in Nodes BY <2>4, <2>5
        <4>2. PICK x \in DOMAIN kids[p] : kids[p][x] = m BY <4>1 DEF Hangs
        <4>3. ~(p = Root \/ visits[p] = 1) BY <2>1, <3>1, <4>1, <4>2 DEF Explored, MayHaveMoved
        <4>4. ~(Moving /\ Under(path[p])) BY <2>1, <4>1, <4>2 DEF LprojBelow
        <4> QED BY <4>1, <4>3, <4>4
      <3>4. Bad = {}
        <4>1. Bad \in SUBSET Nodes OBVIOUS
        <4> HIDE DEF Bad
        <4> QED BY <2>1, <3>3, <4>1, AncestryEnds
      <3> QED BY <2>2, <2>6, <3>2, <3>4
    <2>7. ASSUME pc = "done", NEW n \in 2 .. size, visits[n] = 1 PROVE InTree[n]
      <3> DEFINE Bad == {m \in Nodes \ {Root} : visits[m] = 1 /\ ~InTree[m]}
      <3>1. pass = "list" BY <2>1, <2>7 DEF Stack
      <3>2. ASSUME NEW m \in Bad PROVE parent[m] \in Bad
        <4> DEFINE p == parent[m]
        <4>1. p # Nil /\ Hangs(m, p) /\ p \in Nodes
          BY <2>1, <2>5, <2>7, <3>1 DEF VisitedHang
        <4>2. ~InTree[p] BY <2>4, <4>1
        <4>3. p # Root BY <2>4, <4>1, <4>2
        <4>4. PICK x \in DOMAIN kids[p] : kids[p][x] = m BY <4>1 DEF Hangs
        <4>5. visits[p] = 1 BY <2>1, <4>1, <4>3, <4>4 DEF VisitedBelow
        <4> QED BY <4>1, <4>2, <4>3, <4>5
      <3>3. Bad = {}
        <4>1. Bad \in SUBSET Nodes OBVIOUS
        <4> HIDE DEF Bad
        <4> QED BY <2>1, <3>2, <4>1, AncestryEnds
      <3> QED BY <2>2, <2>7, <3>3
    <2> QED BY <2>a, <2>6, <2>7 DEF VisitedOnce
  <1> QED BY <1>1, VisitInvariant, PTL

-----------------------------------------------------------------------------

HIDE DEF Nodes, Root, Nil

-----------------------------------------------------------------------------
(* Where a file is shown                                                     *)

\* At most one name of an .lproj directory is on the path.
Lone(s) == \A x, y \in 1 .. Len(s) : s[x] \in Lproj /\ s[y] \in Lproj => x = y

\* The last name, if there is one, is that of another directory or of a file.
EndsOutside(s) == Len(s) > 0 => s[Len(s)] \notin Lproj

LEMMA ShownNames ==
  ASSUME NEW p \in Seq(Names \cup {Up, Slash})
  PROVE  Shown(p) \in Seq(Names) /\ Len(Shown(p)) \in Nat
<1>1. /\ Shown(p) \in Seq(Names \cup {Up, Slash}) /\ Len(Shown(p)) \in Nat
      /\ RangeOf(Shown(p)) = RangeOf(p) \cap Names
  BY FilterRange DEF Shown
<1>2. \A x \in 1 .. Len(Shown(p)) : Shown(p)[x] \in Names BY <1>1 DEF RangeOf
<1> QED BY <1>1, <1>2

LEMMA ShownLone ==
  ASSUME NEW p \in Seq(Names \cup {Up, Slash}), Lone(p)
  PROVE  Lone(Shown(p))
<1> DEFINE t == Shown(p)
<1>1. t \in Seq(Names \cup {Up, Slash}) BY FilterMeaning DEF Shown
<1>2. PICK e : Embeds(t, p, Names, e) BY FilterMeaning DEF Shown
<1>3. Len(t) \in Nat /\ Len(p) \in Nat BY <1>1
<1> HIDE DEF t
<1> SUFFICES ASSUME NEW x \in 1 .. Len(t), NEW y \in 1 .. Len(t), t[x] \in Lproj, t[y] \in Lproj
             PROVE  x = y
  BY DEF Lone, t
<1>4. /\ e[x] \in 1 .. Len(p) /\ e[y] \in 1 .. Len(p) /\ t[x] = p[e[x]] /\ t[y] = p[e[y]]
      /\ x < y => e[x] < e[y]
      /\ y < x => e[y] < e[x]
  BY <1>2 DEF Embeds
<1>5. e[x] = e[y] BY <1>4 DEF Lone
<1> QED BY <1>3, <1>4, <1>5

LEMMA BeginsLone ==
  ASSUME NEW s \in Seq(Names), NEW t \in Seq(Names), Begins(s, t), Lone(t)
  PROVE  Lone(s)
<1>1. Len(s) \in Nat /\ Len(t) \in Nat OBVIOUS
<1> QED BY <1>1 DEF Begins, Lone

LEMMA ByLanguageMeaning ==
  ASSUME NEW s \in Seq(Names), Lone(s)
  PROVE  /\ LprojDirs(s) = {} => ByLanguage(s) = s
         /\ \A d \in LprojDirs(s) : /\ ByLanguage(s) = Swapped(s, d)
                                    /\ d \in 1 .. Len(s) - 1 /\ d \in 1 .. Len(s)
                                    /\ s[d] \in Lproj
<1>1. Len(s) \in Nat OBVIOUS
<1>2. ASSUME NEW d \in LprojDirs(s)
      PROVE  LprojDirs(s) = {d} /\ d \in 1 .. Len(s) - 1 /\ d \in 1 .. Len(s) /\ s[d] \in Lproj
  BY <1>1, <1>2 DEF LprojDirs, Lone
<1>3. ASSUME NEW d \in LprojDirs(s) PROVE (CHOOSE x \in LprojDirs(s) : TRUE) = d
  BY <1>2, <1>3
<1> QED BY <1>2, <1>3 DEF ByLanguage

LEMMA SwappedMeaning ==
  ASSUME NEW s \in Seq(Names), NEW d \in 1 .. Len(s) - 1, s[d] \in Lproj
  PROVE  /\ Swapped(s, d) \in Seq(Names) /\ Len(Swapped(s, d)) = Len(s)
         /\ \A x \in 1 .. Len(s) : Swapped(s, d)[x] = 
              IF x = d THEN s[d + 1] ELSE IF x = d + 1 THEN Lang[s[d]] ELSE s[x]
<1>1. Len(s) \in Nat /\ d + 1 \in 1 .. Len(s) OBVIOUS
<1>2. Lang[s[d]] \in Names OBVIOUS
<1> QED BY <1>1, <1>2 DEF Swapped

LEMMA ByLanguageNames ==
  ASSUME NEW s \in Seq(Names), Lone(s)
  PROVE  ByLanguage(s) \in Seq(Names) /\ Len(ByLanguage(s)) = Len(s)
BY ByLanguageMeaning, SwappedMeaning

\* A name behind a path that ends outside of .lproj directories.
LEMMA ByLanguageAppend ==
  ASSUME NEW s \in Seq(Names), NEW e \in Names, Lone(Append(s, e)), EndsOutside(s)
  PROVE  ByLanguage(Append(s, e)) = Append(ByLanguage(s), e)
<1> DEFINE t == Append(s, e)
           N == Len(s)
<1>1. /\ t \in Seq(Names) /\ Len(t) = N + 1 /\ N \in Nat /\ t[N + 1] = e
      /\ \A x \in 1 .. N : t[x] = s[x]
  BY AppendMeaning
<1>2. Lone(s) BY AppendBegins, BeginsLone, <1>1
<1>l. Lone(t) OBVIOUS
<1> HIDE DEF t
<1>3. LprojDirs(t) = LprojDirs(s)
  <2>1. ASSUME NEW x \in LprojDirs(t) PROVE x \in LprojDirs(s)
    <3>1. x \in 1 .. N /\ t[x] \in Lproj BY <1>1, <2>1 DEF LprojDirs
    <3>2. x # N BY <1>1, <3>1 DEF EndsOutside
    <3> QED BY <1>1, <3>1, <3>2 DEF LprojDirs
  <2>2. ASSUME NEW x \in LprojDirs(s) PROVE x \in LprojDirs(t)
    BY <1>1, <2>2 DEF LprojDirs
  <2> QED BY <2>1, <2>2
<1>4. CASE LprojDirs(s) = {}
  <2>1. ByLanguage(s) = s /\ ByLanguage(t) = t BY <1>1, <1>2, <1>3, <1>4, <1>l, ByLanguageMeaning
  <2> QED BY <2>1 DEF t
<1>5. ASSUME NEW d \in LprojDirs(s) PROVE ByLanguage(t) = Append(ByLanguage(s), e)
  <2>1. /\ ByLanguage(s) = Swapped(s, d) /\ ByLanguage(t) = Swapped(t, d)
        /\ d \in 1 .. N - 1 /\ d \in 1 .. Len(t) - 1 /\ s[d] \in Lproj /\ t[d] = s[d]
        /\ d + 1 \in 1 .. N /\ N + 1 # d /\ N + 1 # d + 1
    <3>1. d \in LprojDirs(t) BY <1>3, <1>5
    <3>2. ByLanguage(t) = Swapped(t, d) /\ d \in 1 .. Len(t) - 1
      BY <1>1, <1>l, <3>1, ByLanguageMeaning
    <3>3. ByLanguage(s) = Swapped(s, d) /\ d \in 1 .. N - 1 /\ s[d] \in Lproj
      BY <1>2, <1>5, ByLanguageMeaning
    <3> QED BY <1>1, <3>2, <3>3
  <2> DEFINE a == Swapped(s, d)
             b == Swapped(t, d)
  <2>2. /\ a \in Seq(Names) /\ Len(a) = N
        /\ \A x \in 1 .. N : a[x] = IF x = d THEN s[d + 1] ELSE IF x = d + 1 THEN Lang[s[d]] ELSE s[x]
    BY <2>1, SwappedMeaning
  <2>3. /\ b \in Seq(Names) /\ Len(b) = N + 1
        /\ \A x \in 1 .. N + 1 :
             b[x] = IF x = d THEN t[d + 1] ELSE IF x = d + 1 THEN Lang[t[d]] ELSE t[x]
    <3> HIDE DEF a, N
    <3>1. t \in Seq(Names) /\ d \in 1 .. Len(t) - 1 /\ t[d] \in Lproj /\ Len(t) = N + 1
      BY <1>1, <2>1
    <3>2. /\ b \in Seq(Names) /\ Len(b) = Len(t)
          /\ \A x \in 1 .. Len(t) :
               b[x] = IF x = d THEN t[d + 1] ELSE IF x = d + 1 THEN Lang[t[d]] ELSE t[x]
      BY <3>1, SwappedMeaning
    <3> HIDE DEF b
    <3> QED BY <3>1, <3>2
  <2> HIDE DEF a, b, N
  <2> DEFINE c == Append(a, e)
  <2>4. /\ c \in Seq(Names) /\ Len(c) = N + 1 /\ c[N + 1] = e
        /\ \A x \in 1 .. N : c[x] = a[x]
    BY <2>2, AppendMeaning
  <2> HIDE DEF c
  <2>5. ASSUME NEW x \in 1 .. N + 1 PROVE b[x] = c[x]
    <3>1. t[d] = s[d] /\ t[d + 1] = s[d + 1] BY <1>1, <2>1
    <3>2. CASE x \in 1 .. N
      <4>1. t[x] = s[x] /\ c[x] = a[x] BY <1>1, <2>4, <3>2
      <4>2. b[x] = IF x = d THEN t[d + 1] ELSE IF x = d + 1 THEN Lang[t[d]] ELSE t[x] BY <2>3
      <4>3. a[x] = IF x = d THEN s[d + 1] ELSE IF x = d + 1 THEN Lang[s[d]] ELSE s[x]
        BY <2>2, <3>2
      <4> QED BY <3>1, <4>1, <4>2, <4>3
    <3>3. CASE x = N + 1
      <4>1. b[x] = IF x = d THEN t[d + 1] ELSE IF x = d + 1 THEN Lang[t[d]] ELSE t[x] BY <2>3
      <4>2. x # d /\ x # d + 1 BY <2>1, <3>3
      <4> QED BY <1>1, <2>4, <3>3, <4>1, <4>2
    <3>4. x \in 1 .. N \/ x = N + 1 BY <1>1
    <3> QED BY <3>2, <3>3, <3>4
  <2>6. b = c BY <2>3, <2>4, <2>5, SameItems
  <2> QED BY <2>1, <2>6 DEF a, b, c
<1> QED BY <1>4, <1>5 DEF t

\* A localized file that is all there is below its .lproj directory.
LEMMA ByLanguageSwap ==
  ASSUME NEW s \in Seq(Names), NEW l \in Lproj, NEW e \in Names,
         Lone(Append(Append(s, l), e))
  PROVE  ByLanguage(Append(Append(s, l), e)) = Append(Append(s, e), Lang[l])
<1> DEFINE t == Append(Append(s, l), e)
           u == Append(Append(s, e), Lang[l])
           N == Len(s)
<1>1. /\ t \in Seq(Names) /\ Len(t) = N + 2 /\ N \in Nat /\ t[N + 1] = l /\ t[N + 2] = e
      /\ \A x \in 1 .. N : t[x] = s[x]
  <2>1. l \in Names OBVIOUS
  <2> DEFINE v == Append(s, l)
  <2>2. v \in Seq(Names) /\ Len(v) = N + 1 /\ N \in Nat /\ v[N + 1] = l /\ \A x \in 1 .. N : v[x] = s[x]
    BY <2>1, AppendMeaning
  <2> HIDE DEF v, N
  <2>3. /\ Append(v, e) \in Seq(Names) /\ Len(Append(v, e)) = Len(v) + 1
        /\ Append(v, e)[Len(v) + 1] = e /\ \A x \in 1 .. Len(v) : Append(v, e)[x] = v[x]
    BY <2>2, AppendMeaning
  <2> QED BY <2>2, <2>3 DEF v
<1>2. /\ u \in Seq(Names) /\ Len(u) = N + 2 /\ N \in Nat /\ u[N + 1] = e /\ u[N + 2] = Lang[l]
      /\ \A x \in 1 .. N : u[x] = s[x]
  <2>1. Lang[l] \in Names OBVIOUS
  <2> DEFINE v == Append(s, e)
             g == Lang[l]
  <2>2. v \in Seq(Names) /\ Len(v) = N + 1 /\ N \in Nat /\ v[N + 1] = e /\ \A x \in 1 .. N : v[x] = s[x]
    BY AppendMeaning
  <2> HIDE DEF v, g, N
  <2>3. /\ Append(v, g) \in Seq(Names) /\ Len(Append(v, g)) = Len(v) + 1
        /\ Append(v, g)[Len(v) + 1] = g /\ \A x \in 1 .. Len(v) : Append(v, g)[x] = v[x]
    BY <2>1, <2>2, AppendMeaning DEF g
  <2> QED BY <2>2, <2>3 DEF v, g
<1>l. Lone(t) OBVIOUS
<1> HIDE DEF t, u, N
<1>3. N + 1 \in LprojDirs(t) /\ N + 1 \in 1 .. Len(t) - 1 /\ (N + 1) + 1 = N + 2
  BY <1>1 DEF LprojDirs
<1>4. ByLanguage(t) = Swapped(t, N + 1) BY <1>1, <1>3, <1>l, ByLanguageMeaning
<1>5. /\ Swapped(t, N + 1) \in Seq(Names) /\ Len(Swapped(t, N + 1)) = N + 2
      /\ \A x \in 1 .. N + 2 : Swapped(t, N + 1)[x] =
           IF x = N + 1 THEN e ELSE IF x = N + 2 THEN Lang[l] ELSE t[x]
  BY <1>1, <1>3, SwappedMeaning
<1>6. \A x \in 1 .. N + 2 : x \in 1 .. N \/ x = N + 1 \/ x = N + 2 BY <1>1
<1>7. \A x \in 1 .. N + 2 : Swapped(t, N + 1)[x] = u[x] BY <1>1, <1>2, <1>5, <1>6
<1>8. Swapped(t, N + 1) = u BY <1>2, <1>5, <1>7, SameItems
<1> QED BY <1>4, <1>8 DEF t, u

\* What begins a path, and ends outside, is shown where the path begins.
LEMMA ByLanguageBegins ==
  ASSUME NEW s \in Seq(Names), NEW t \in Seq(Names), Begins(s, t), Lone(t), EndsOutside(s)
  PROVE  Begins(ByLanguage(s), ByLanguage(t))
<1> DEFINE N == Len(s)
<1>1. N \in Nat /\ Len(t) \in Nat /\ N <= Len(t) /\ \A x \in 1 .. N : t[x] = s[x]
  BY DEF Begins
<1>2. Lone(s) BY BeginsLone
<1>3. Len(ByLanguage(s)) = N /\ Len(ByLanguage(t)) = Len(t) BY <1>2, ByLanguageNames
<1> HIDE DEF N
<1> SUFFICES ASSUME NEW x \in 1 .. N PROVE ByLanguage(t)[x] = ByLanguage(s)[x]
  BY <1>1, <1>3 DEF Begins
<1>x. x \in 1 .. Len(t) /\ t[x] = s[x] BY <1>1
<1>4. CASE LprojDirs(s) = {}
  <2>1. \A y \in 1 .. N : s[y] \notin Lproj
    <3> SUFFICES ASSUME NEW y \in 1 .. N, s[y] \in Lproj PROVE FALSE OBVIOUS
    <3>1. y # N BY <1>1 DEF EndsOutside, N
    <3>2. y \in 1 .. Len(s) - 1 BY <1>1, <3>1 DEF N
    <3> QED BY <1>4, <3>2 DEF LprojDirs
  <2>2. ByLanguage(s) = s BY <1>2, <1>4, ByLanguageMeaning
  <2>3. CASE LprojDirs(t) = {}
    <3>1. ByLanguage(t) = t BY <2>3, ByLanguageMeaning
    <3> QED BY <1>x, <2>2, <3>1
  <2>4. ASSUME NEW d \in LprojDirs(t) PROVE ByLanguage(t)[x] = ByLanguage(s)[x]
    <3>1. ByLanguage(t) = Swapped(t, d) /\ d \in 1 .. Len(t) - 1 /\ t[d] \in Lproj
      BY <2>4, ByLanguageMeaning
    <3>2. ~(d <= N) BY <1>1, <2>1, <3>1
    <3>3. x # d /\ x # d + 1 BY <1>1, <3>1, <3>2
    <3>4. Swapped(t, d)[x] = t[x] BY <1>x, <3>1, <3>3, SwappedMeaning
    <3> QED BY <1>x, <2>2, <3>1, <3>4
  <2> QED BY <2>3, <2>4
<1>5. ASSUME NEW d \in LprojDirs(s) PROVE ByLanguage(t)[x] = ByLanguage(s)[x]
  <2>1. ByLanguage(s) = Swapped(s, d) /\ d \in 1 .. N - 1 /\ s[d] \in Lproj
    BY <1>2, <1>5, ByLanguageMeaning DEF N
  <2>2. d \in 1 .. Len(t) - 1 /\ d \in 1 .. N /\ d + 1 \in 1 .. N BY <1>1, <2>1
  <2>3. t[d] = s[d] /\ t[d + 1] = s[d + 1] BY <1>1, <2>2
  <2>4. ByLanguage(t) = Swapped(t, d)
    <3>1. d \in LprojDirs(t) BY <2>1, <2>2, <2>3 DEF LprojDirs
    <3> QED BY <3>1, ByLanguageMeaning
  <2>5. Swapped(s, d)[x] = IF x = d THEN s[d + 1] ELSE IF x = d + 1 THEN Lang[s[d]] ELSE s[x]
    BY <2>1, SwappedMeaning DEF N
  <2>6. Swapped(t, d)[x] = IF x = d THEN t[d + 1] ELSE IF x = d + 1 THEN Lang[t[d]] ELSE t[x]
    BY <1>x, <2>1, <2>2, <2>3, SwappedMeaning
  <2> QED BY <1>x, <2>1, <2>3, <2>4, <2>5, <2>6
<1> QED BY <1>4, <1>5

-----------------------------------------------------------------------------
(* Where the nodes are                                                       *)

\* The root, or a node that add has made for a path.
Orig(n) == n = Root \/ path[n] # << >>

\* The node is shown where its path says.
InPlace(n) ==
  /\ parent[n] \in Nodes /\ Orig(parent[n])
  /\ Shown(path[n]) = Append(Shown(path[parent[n]]), name[n])

\* The node has come out of the directory l below p, into the group g.
DisplacedFrom(n, g, p, l) ==
  /\ g \in Nodes /\ p \in Nodes /\ l \in Lproj
  /\ parent[n] = g /\ parent[g] = p /\ Orig(p)
  /\ name[g] \in Names \ Lproj /\ name[p] \notin Lproj /\ name[n] = Lang[l]
  /\ Shown(path[n]) = Append(Append(Shown(path[p]), l), name[g])

Displaced(n) == \E g, p \in Nodes : \E l \in Lproj : DisplacedFrom(n, g, p, l)

\* A group that the generator has made, which has no path.
IsGroup(n) == \E m \in 2 .. size : path[m] # << >> /\ parent[m] = n /\ Displaced(m)

Placed ==
  \A n \in 2 .. size :
    IF path[n] = << >> THEN IsGroup(n) ELSE InPlace(n) \/ Displaced(n)

Pathless == \A n \in Nodes : n > size => path[n] = << >>

\* A node was made for a part of the path of a file.
PathsOfFiles ==
  \A n \in Nodes : path[n] # << >> =>
    \E f \in DOMAIN files : \E l \in 0 .. Len(files[f]) : path[n] = SubSeq(files[f], 1, l)

\* The node that add has returned is shown where the path added so far is.
CursorShown ==
  pc = "add" /\ k <= Len(files) =>
    Orig(cur) /\ Shown(path[cur]) = Shown(SubSeq(files[k], 1, i))

\* But for .lproj directories the keyed part knows children by their names.
NamedNow ==
  \A p \in Nodes : name[p] \notin Lproj =>
    \A x \in Names : named[p][x] # Nil => name[named[p][x]] = x

PlaceInv == Placed /\ Pathless /\ PathsOfFiles /\ CursorShown /\ NamedNow

-----------------------------------------------------------------------------
(* What hangs in the tree                                                    *)

\* A node hangs at its parent, unless it is an .lproj directory with nothing in
\* it: one of those may have dissolved.
Hanging ==
  \A n \in 2 .. size :
    name[n] \notin Lproj \/ kids[n] # << >> \/ pc = "add" =>
      parent[n] \in Nodes /\ Hangs(n, parent[n])

\* What the loop over an .lproj directory has behind it has moved out.
MovedOut ==
  pc = "regroup" =>
    \A x \in DOMAIN kids[Top.node] : x < j => parent[kids[Top.node][x]] # Top.node

\* An .lproj directory that the traversal has visited has nothing in it.
Visited(d) ==
  \/ pass = "list"
  \/ pass = "localize" /\ Walking /\ visits[d] = 1 /\ d \notin Dissolving

Emptied == \A d \in Nodes : name[d] \in Lproj /\ Visited(d) => kids[d] = << >>

HangInv == Hanging /\ MovedOut /\ Emptied

-----------------------------------------------------------------------------
(* The nodes of the files                                                    *)

\* The paths of files end in a name, and not in that of an .lproj directory.
PathsPlain ==
  \A list \in Projects : \A f \in DOMAIN list :
    Len(list[f]) > 0 /\ list[f][Len(list[f])] \in Names \ Lproj

\* The node that add has returned for a name was made for the path up to it.
CursorNode ==
  pc = "add" /\ k <= Len(files) /\ i > 0 /\ files[k][i] \in Names =>
    cur # Root /\ path[cur] = SubSeq(files[k], 1, i)

\* A file has a node of its own, or a later file has its path.
FileNodes ==
  /\ cfg \in [Nodes -> Nat]
  /\ \A n \in Nodes : cfg[n] # Nil =>
       n \in 2 .. size /\ cfg[n] < k /\ cfg[n] \in DOMAIN files /\ path[n] = files[cfg[n]]
  /\ \A m, n \in Nodes : cfg[m] # Nil /\ cfg[m] = cfg[n] => m = n
  /\ \A f \in DOMAIN files : f < k =>
       \/ \E n \in 2 .. size : cfg[n] = f
       \/ \E g \in DOMAIN files : f < g /\ files[g] = files[f]

AllIn == pc \notin {"add", "overflow"} => k > Len(files)

FileInv == CursorNode /\ FileNodes /\ AllIn

-----------------------------------------------------------------------------

LEMMA InPlaceStays ==
  ASSUME NEW m \in Nodes, InPlace(m), name'[m] = name[m], parent'[m] = parent[m],
         path'[m] = path[m], path'[parent[m]] = path[parent[m]]
  PROVE  InPlace(m)'
BY DEF InPlace, Orig

LEMMA DisplacedStays ==
  ASSUME NEW m, NEW g, NEW p, NEW l, DisplacedFrom(m, g, p, l),
         name'[m] = name[m], name'[g] = name[g], name'[p] \notin Lproj,
         parent'[m] = parent[m], parent'[g] = parent[g],
         path'[m] = path[m], path'[p] = path[p]
  PROVE  Displaced(m)'
BY DEF DisplacedFrom, Displaced, Orig

\* Where nodes are does not change in a step that makes none and moves none.
LEMMA PlaceKept ==
  ASSUME PlaceInv, UNCHANGED <<files, name, path, parent, named, size>>, CursorShown'
  PROVE  PlaceInv'
<1>1. \A n \in 2 .. size : /\ InPlace(n)' <=> InPlace(n)
                           /\ Displaced(n)' <=> Displaced(n)
                           /\ IsGroup(n)' <=> IsGroup(n)
  BY DEF InPlace, Displaced, DisplacedFrom, IsGroup, Orig
<1>2. Placed' BY <1>1 DEF PlaceInv, Placed
<1>3. Pathless' /\ PathsOfFiles' /\ NamedNow' BY DEF PlaceInv, Pathless, PathsOfFiles, NamedNow
<1> QED BY <1>2, <1>3 DEF PlaceInv

\* The path that is added, and its next component.
LEMMA ComponentFacts ==
  ASSUME ShapeInv, k <= Len(files), i < Len(files[k])
  PROVE  /\ files[k] \in Seq(Names \cup {Up, Slash}) /\ i \in Nat /\ k \in DOMAIN files
         /\ i + 1 \in 0 .. Len(files[k]) /\ Len(files[k]) \in Nat
         /\ SubSeq(files[k], 1, i) \in Seq(Names \cup {Up, Slash})
         /\ Component \in Names \cup {Up, Slash}
         /\ Prefix = Append(SubSeq(files[k], 1, i), Component)
         /\ Prefix \in Seq(Names \cup {Up, Slash}) /\ Prefix # << >>
         /\ Shown(Prefix) = IF Component \in Names
                            THEN Append(Shown(SubSeq(files[k], 1, i)), Component)
                            ELSE Shown(SubSeq(files[k], 1, i))
<1> DEFINE S == Names \cup {Up, Slash}
           s == files[k]
           u == SubSeq(s, 1, i)
           c == s[i + 1]
<1>1. s \in Seq(S) /\ Len(s) \in Nat /\ k \in DOMAIN files BY FileLists
<1>2. i \in Nat /\ i < Len(s) BY DEF ShapeInv, TypeOK
<1> HIDE DEF S, s
<1>3. u \in Seq(S) /\ i + 1 \in 1 .. Len(s) /\ c \in S /\ SubSeq(s, 1, i + 1) = Append(u, c)
  BY <1>1, <1>2, FrontAppend
<1>4. Component = c /\ Prefix = SubSeq(s, 1, i + 1) BY DEF Component, Prefix, s
<1> HIDE DEF u, c
<1>5. Append(u, c) \in Seq(S) /\ Append(u, c) # << >> BY <1>3
<1>6. Filter(Append(u, c), Names) = IF c \in Names THEN Append(Filter(u, Names), c) ELSE Filter(u, Names)
  BY <1>3, FilterAppend
<1>7. Shown(Prefix) = IF c \in Names THEN Append(Shown(u), c) ELSE Shown(u)
  BY <1>3, <1>4, <1>6 DEF Shown
<1> QED BY <1>1, <1>2, <1>3, <1>4, <1>5, <1>7 DEF S, s, u, c

LEMMA AddNewPlace == ASSUME VisitInv, VisitInv', PlaceInv, AddNew PROVE PlaceInv'
<1>s. /\ ShapeInv /\ Parents /\ size \in Nodes /\ parent \in [Nodes -> Nodes \cup {Nil}]
  BY DEF VisitInv, NodeInv, ShapeInv, TypeOK
<1>1. /\ ShapeInv /\ Parents /\ size \in Nat /\ size \in Nodes
      /\ parent \in [Nodes -> Nodes \cup {Nil}]
  BY <1>s DEF Nodes
<1>2. PICK n : n = size + 1 OBVIOUS
<1>3. /\ pc = "add" /\ pc' = "add" /\ k <= Len(files) /\ i < Len(files[k]) /\ i' = i + 1
      /\ cur \in Nodes /\ cur \in 1 .. size /\ Component \in Names
      /\ size' = n /\ n \in Nodes /\ n # cur /\ cur' = n
      /\ name'[n] = Component /\ path'[n] = Prefix /\ parent'[n] = cur
      /\ \A m \in Nodes : m # n => /\ name'[m] = name[m] /\ path'[m] = path[m]
                                   /\ parent'[m] = parent[m]
      /\ UNCHANGED <<files, k, pass, frames, j, visits>>
  BY <1>1, <1>2, AddNewEffect
<1>4. /\ Shown(Prefix) = Append(Shown(SubSeq(files[k], 1, i)), Component) /\ Prefix # << >>
      /\ i + 1 \in 0 .. Len(files[k]) /\ k \in DOMAIN files
  BY <1>1, <1>3, ComponentFacts
<1>5. Orig(cur) /\ Shown(path[cur]) = Shown(SubSeq(files[k], 1, i))
  BY <1>3 DEF PlaceInv, CursorShown
<1>6. PICK c \in Nodes : c = cur BY <1>3
<1>7. InPlace(n)'
  <2>1. Orig(c)' BY <1>3, <1>5, <1>6 DEF Orig
  <2>2. path'[c] = path[c] BY <1>3, <1>6
  <2>3. Shown(path[n])' = Shown(path'[n]) /\ Shown(path[c])' = Shown(path'[c]) BY DEF Shown
  <2> QED BY <1>3, <1>4, <1>5, <1>6, <2>1, <2>2, <2>3 DEF InPlace
<1>8. \A m \in Nodes : m <= size => m # n BY <1>1, <1>2 DEF Nodes
<1>9. \A m \in 2 .. size : m \in Nodes /\ m # n BY <1>1, <1>2 DEF Nodes
<1>10. \A m \in Nodes : parent[m] # n
  BY <1>1, <1>8, <1>3 DEF Parents
<1>11. \A m \in 2 .. size : name'[m] = name[m] /\ path'[m] = path[m] /\ parent'[m] = parent[m]
  BY <1>3, <1>9
<1>12. ASSUME NEW m \in 2 .. size, InPlace(m) PROVE InPlace(m)'
  <2>1. parent[m] \in Nodes BY <1>12 DEF InPlace
  <2>2. path'[parent[m]] = path[parent[m]] BY <1>3, <1>9, <1>10, <2>1
  <2> QED BY <1>9, <1>11, <1>12, <2>2, InPlaceStays
<1>13. ASSUME NEW m \in 2 .. size, Displaced(m) PROVE Displaced(m)'
  <2>1. PICK g \in Nodes, p \in Nodes, l \in Lproj : DisplacedFrom(m, g, p, l)
    BY <1>13 DEF Displaced
  <2>2. g # n /\ p # n /\ name[p] \notin Lproj BY <1>9, <1>10, <2>1 DEF DisplacedFrom
  <2>3. /\ name'[g] = name[g] /\ name'[p] \notin Lproj /\ parent'[g] = parent[g]
        /\ path'[p] = path[p]
    BY <1>3, <2>1, <2>2
  <2> QED BY <1>11, <2>1, <2>3, DisplacedStays
<1>14. \A x \in 2 .. size' : x = n \/ x \in 2 .. size BY <1>1, <1>2, <1>3
<1>15. 2 .. size \subseteq 2 .. size' BY <1>1, <1>2, <1>3
<1>16. ASSUME NEW m \in 2 .. size, IsGroup(m) PROVE IsGroup(m)'
  <2>1. PICK x \in 2 .. size : path[x] # << >> /\ parent[x] = m /\ Displaced(x)
    BY <1>16 DEF IsGroup
  <2>2. Displaced(x)' /\ path'[x] # << >> /\ parent'[x] = m BY <1>11, <1>13, <2>1
  <2> QED BY <1>15, <2>2 DEF IsGroup
<1>17. Placed'
  <2> SUFFICES ASSUME NEW m \in 2 .. size'
               PROVE  IF path'[m] = << >> THEN IsGroup(m)' ELSE InPlace(m)' \/ Displaced(m)'
    BY DEF Placed
  <2>1. CASE m = n BY <1>3, <1>4, <1>7, <2>1
  <2>2. CASE m \in 2 .. size
    BY <1>11, <1>12, <1>13, <1>16, <2>2 DEF PlaceInv, Placed
  <2> QED BY <1>14, <2>1, <2>2
<1>18. Pathless'
  <2> SUFFICES ASSUME NEW m \in Nodes, m > size' PROVE path'[m] = << >> BY DEF Pathless
  <2>1. m # n /\ m > size BY <1>1, <1>2, <1>3 DEF Nodes
  <2> QED BY <1>3, <2>1 DEF PlaceInv, Pathless
<1>19. PathsOfFiles'
  <2> SUFFICES ASSUME NEW m \in Nodes, path'[m] # << >>
               PROVE  \E f \in DOMAIN files : \E l \in 0 .. Len(files[f]) :
                        path'[m] = SubSeq(files[f], 1, l)
    BY <1>3 DEF PathsOfFiles
  <2>1. CASE m = n BY <1>3, <1>4, <2>1 DEF Prefix
  <2>2. CASE m # n
    <3>1. path'[m] = path[m] BY <1>3, <2>2
    <3>2. PathsOfFiles BY DEF PlaceInv
    <3>3. PICK f \in DOMAIN files : \E l \in 0 .. Len(files[f]) : path[m] = SubSeq(files[f], 1, l)
      BY <3>1, <3>2 DEF PathsOfFiles
    <3> QED BY <3>1, <3>3
  <2> QED BY <2>1, <2>2
<1>20. CursorShown'
  <2>1. Orig(n)' BY <1>3, <1>4 DEF Orig
  <2>2. path'[cur'] = SubSeq(files'[k'], 1, i') BY <1>3 DEF Prefix
  <2>3. Orig(cur)' BY <1>3, <2>1 DEF Orig
  <2> QED BY <2>2, <2>3 DEF CursorShown
<1>21. NamedNow' BY <1>3 DEF VisitInv, NodeInv, ShapeInv, NamedExact, NamedNow
<1> QED BY <1>17, <1>18, <1>19, <1>20, <1>21 DEF PlaceInv

\* A node that has not come out of an .lproj directory, and into which none has.
Apart(m) == \A n, g, q, l : DisplacedFrom(n, g, q, l) => n # m /\ g # m

\* What is moved out of an .lproj directory is below it, and is no group.
LEMMA MovedPlace ==
  ASSUME ShapeInv, PlaceInv, Regroups
  PROVE  LET d == Top.node
             p == parent[d]
         IN
         /\ path[Moved] # << >> /\ Orig(p) /\ name[d] \in Lproj
         /\ Shown(path[Moved]) = Append(Append(Shown(path[p]), name[d]), name[Moved])
         /\ ~IsGroup(Moved) /\ ~Displaced(Moved)
         /\ Apart(Moved)
<1> DEFINE d == Top.node
           p == parent[d]
           m == Moved
<1>1. pc = "regroup" BY DEF Regroups
<1>2. d \in Nodes /\ name[d] \in Lproj /\ p \in Nodes BY <1>1, RegroupFacts
<1>3. m \in 2 .. size /\ parent[m] = d BY MovedFacts
<1>4. d \in 2 .. size
  <2>1. Made /\ name[d] # Nil /\ size \in Nodes BY <1>2 DEF ShapeInv, TypeOK
  <2>2. d # Root /\ ~(d > size) BY <1>2, <2>1 DEF Made
  <2> QED BY <1>2, <2>1, <2>2 DEF Nodes, Root
<1> HIDE DEF m, d
<1>5. ASSUME NEW n, NEW g, NEW q, NEW l, DisplacedFrom(n, g, q, l) PROVE n # m /\ g # m
  BY <1>2, <1>3, <1>5 DEF DisplacedFrom
<1>6. ~Displaced(m) BY <1>5 DEF Displaced
<1>7. ~IsGroup(m)
  <2> SUFFICES ASSUME NEW x \in 2 .. size, parent[x] = m, Displaced(x) PROVE FALSE BY DEF IsGroup
  <2>1. PICK g \in Nodes, q \in Nodes, l \in Lproj : DisplacedFrom(x, g, q, l) BY DEF Displaced
  <2>2. g = m BY <2>1 DEF DisplacedFrom
  <2> QED BY <1>5, <2>1, <2>2
<1>8. path[m] # << >> /\ InPlace(m) BY <1>3, <1>6, <1>7 DEF PlaceInv, Placed
<1>9. Orig(d) /\ Shown(path[m]) = Append(Shown(path[d]), name[m]) BY <1>3, <1>8 DEF InPlace
<1>10. path[d] # << >>
  <2>1. d # Root BY <1>4 DEF Root
  <2> QED BY <1>9, <2>1 DEF Orig
<1>11. ~Displaced(d)
  <2> SUFFICES ASSUME Displaced(d) PROVE FALSE OBVIOUS
  <2>1. PICK g \in Nodes, q \in Nodes, l \in Lproj : DisplacedFrom(d, g, q, l) BY DEF Displaced
  <2>2. name[d] = Lang[l] /\ Lang[l] \notin Lproj BY <2>1 DEF DisplacedFrom
  <2> QED BY <1>2, <2>2
<1>12. InPlace(d) BY <1>4, <1>10, <1>11 DEF PlaceInv, Placed
<1>13. Orig(p) /\ Shown(path[d]) = Append(Shown(path[p]), name[d]) BY <1>12 DEF InPlace
<1>14. Apart(m) BY <1>5 DEF Apart
<1> QED BY <1>2, <1>6, <1>7, <1>8, <1>9, <1>13, <1>14 DEF m, d

\* The regrouping leaves the other nodes where they are.
LEMMA RegroupStays ==
  ASSUME ShapeInv, NEW m, path' = path, size \in Nat, size' \in Nat, size <= size',
         \A n \in 1 .. size : n # m => name'[n] = name[n] /\ parent'[n] = parent[n],
         \A q \in Nodes : name[q] \notin Lproj => name'[q] \notin Lproj,
         Apart(m)
  PROVE  /\ \A n \in 2 .. size : n # m /\ InPlace(n) => InPlace(n)'
         /\ \A n \in 2 .. size : Displaced(n) => Displaced(n)'
         /\ \A n \in 2 .. size : IsGroup(n) => IsGroup(n)'
<1>1. Made /\ size \in Nodes BY DEF ShapeInv, TypeOK
<1>2. 2 .. size \subseteq 1 .. size /\ 2 .. size \subseteq Nodes /\ 2 .. size \subseteq 2 .. size'
  BY <1>1 DEF Nodes
<1>3. ASSUME NEW n \in 2 .. size, n # m, InPlace(n) PROVE InPlace(n)'
  <2>1. name'[n] = name[n] /\ parent'[n] = parent[n] BY <1>2, <1>3
  <2> QED BY <1>2, <1>3, <2>1, InPlaceStays
<1>4. ASSUME NEW n \in 2 .. size, Displaced(n) PROVE Displaced(n)'
  <2>1. PICK g \in Nodes, q \in Nodes, l \in Lproj : DisplacedFrom(n, g, q, l)
    BY <1>4 DEF Displaced
  <2>2. n # m /\ g # m BY <2>1 DEF Apart
  <2>3. name[g] # Nil /\ name[q] \notin Lproj /\ g \in Nodes /\ q \in Nodes
    BY <2>1 DEF DisplacedFrom
  <2>4. g \in 1 .. size
    <3>1. ~(g > size) BY <1>1, <2>3 DEF Made
    <3> QED BY <1>1, <2>3, <3>1 DEF Nodes
  <2>5. name'[n] = name[n] /\ parent'[n] = parent[n] /\ name'[g] = name[g] /\ parent'[g] = parent[g]
    BY <1>2, <2>2, <2>4
  <2> QED BY <2>1, <2>3, <2>5, DisplacedStays
<1>5. ASSUME NEW n \in 2 .. size, IsGroup(n) PROVE IsGroup(n)'
  <2>1. PICK x \in 2 .. size : path[x] # << >> /\ parent[x] = n /\ Displaced(x)
    BY <1>5 DEF IsGroup
  <2>2. x # m BY <2>1 DEF Displaced, Apart
  <2>3. parent'[x] = n /\ Displaced(x)' BY <1>2, <1>4, <2>1, <2>2
  <2> QED BY <1>2, <2>1, <2>3 DEF IsGroup
<1> QED BY <1>3, <1>4, <1>5

LEMMA RegroupIntoPlace == ASSUME VisitInv, VisitInv', PlaceInv, RegroupInto PROVE PlaceInv'
<1>1. ShapeInv /\ Made /\ NamedChild /\ size \in Nodes
      /\ name \in [Nodes -> Names \cup {Nil}] /\ named \in [Nodes -> [Names -> Nodes \cup {Nil}]]
  BY DEF VisitInv, NodeInv, ShapeInv, TypeOK
<1>2. PICK d : d = Top.node OBVIOUS
<1>3. PICK p : p = parent[d] OBVIOUS
<1>4. PICK m : m = Moved OBVIOUS
<1>5. PICK g : g = Group OBVIOUS
<1>6. /\ pc = "regroup" /\ pc' = pc
      /\ d \in Nodes /\ p \in Nodes /\ p # d /\ name[d] \in Lproj /\ name[p] \notin Lproj
      /\ m \in 2 .. size /\ m \in Nodes /\ parent[m] = d /\ m # d
      /\ g \in 2 .. size /\ g \in Nodes /\ g # d /\ parent[g] = p /\ g # m
      /\ parent'[m] = g
      /\ \A n \in Nodes : n # m => name'[n] = name[n] /\ parent'[n] = parent[n]
      /\ UNCHANGED <<files, path, size>>
  BY <1>1, <1>2, <1>3, <1>4, <1>5, RegroupIntoEffect
<1>7. Regroups /\ g # Nil BY <1>5 DEF RegroupInto
<1>8. /\ path[m] # << >> /\ Orig(p)
      /\ Shown(path[m]) = Append(Append(Shown(path[p]), name[d]), name[m])
      /\ Apart(m)
      /\ ~Displaced(m)
  BY <1>1, <1>2, <1>3, <1>4, <1>7, MovedPlace
<1>9. name[m] \in Names \ Lproj /\ Lang[name[d]] \in Names \ Lproj
  BY <1>1, <1>2, <1>4, <1>7, MovedFacts
<1>10. /\ name' = [name EXCEPT ![m] = Lang[name[d]]]
       /\ named' = [named EXCEPT ![g][name'[m]] = m]
  BY <1>2, <1>4, <1>5 DEF RegroupInto, insert
<1>11. name'[m] = Lang[name[d]] BY <1>1, <1>6, <1>10
<1>12. NamedNow BY DEF PlaceInv
<1>13. name[g] = name[m]
  <2>1. g = named[p][name[m]] BY <1>2, <1>3, <1>4, <1>5 DEF Group
  <2> QED BY <1>6, <1>7, <1>9, <1>12, <2>1 DEF NamedNow
<1>14. Displaced(m)'
  <2>1. Shown(path[m])' = Shown(path[m]) /\ Shown(path[p])' = Shown(path[p])
    BY <1>6 DEF Shown
  <2>2. name'[g] = name[m] /\ name'[p] \notin Lproj /\ parent'[g] = p
    BY <1>6, <1>9, <1>11, <1>13
  <2>3. Orig(p)' BY <1>6, <1>8 DEF Orig
  <2>4. PICK l \in Lproj : l = name[d] BY <1>6
  <2>5. DisplacedFrom(m, g, p, l)'
    BY <1>6, <1>8, <1>9, <1>11, <2>1, <2>2, <2>3, <2>4 DEF DisplacedFrom
  <2> QED BY <1>6, <2>5 DEF Displaced
<1>15. \A n \in 1 .. size : n # m => name'[n] = name[n] /\ parent'[n] = parent[n]
  BY <1>1, <1>6 DEF Nodes
<1>16. \A q \in Nodes : name[q] \notin Lproj => name'[q] \notin Lproj BY <1>6, <1>9, <1>11
<1>17. /\ \A n \in 2 .. size : n # m /\ InPlace(n) => InPlace(n)'
       /\ \A n \in 2 .. size : Displaced(n) => Displaced(n)'
       /\ \A n \in 2 .. size : IsGroup(n) => IsGroup(n)'
  <2>1. path' = path /\ size \in Nat /\ size' \in Nat /\ size <= size' BY <1>1, <1>6 DEF Nodes
  <2> QED BY <1>1, <1>8, <1>15, <1>16, <2>1, RegroupStays
<1>18. Placed'
  <2> SUFFICES ASSUME NEW n \in 2 .. size
               PROVE  IF path'[n] = << >> THEN IsGroup(n)' ELSE InPlace(n)' \/ Displaced(n)'
    BY <1>6 DEF Placed
  <2>1. CASE n = m BY <1>6, <1>8, <1>14, <2>1
  <2>2. CASE n # m BY <1>6, <1>17, <2>2 DEF PlaceInv, Placed
  <2> QED BY <2>1, <2>2
<1>19. NamedNow'
  <2> SUFFICES ASSUME NEW q \in Nodes, name'[q] \notin Lproj, NEW x \in Names, named'[q][x] # Nil
               PROVE  name'[named'[q][x]] = x
    BY DEF NamedNow
  <2>1. CASE q = g /\ x = name'[m] BY <1>1, <1>6, <1>10, <2>1
  <2>2. CASE ~(q = g /\ x = name'[m])
    <3>1. named'[q][x] = named[q][x] BY <1>1, <1>6, <1>10, <2>2
    <3>2. name[q] \notin Lproj BY <1>6, <1>9
    <3>3. name[named[q][x]] = x BY <1>12, <3>1, <3>2 DEF NamedNow
    <3>4. parent[named[q][x]] = q BY <1>1, <3>1, <3>2 DEF NamedChild
    <3>5. named[q][x] # m BY <1>6, <3>2, <3>4
    <3>6. named[q][x] \in Nodes BY <1>1, <3>1
    <3> QED BY <1>6, <3>1, <3>3, <3>5, <3>6
  <2> QED BY <2>1, <2>2
<1>20. Pathless' BY <1>6 DEF PlaceInv, Pathless
<1>22. PathsOfFiles' BY <1>6 DEF PlaceInv, PathsOfFiles
<1>21. CursorShown' BY <1>6 DEF CursorShown
<1> QED BY <1>18, <1>19, <1>20, <1>21, <1>22 DEF PlaceInv

LEMMA RegroupNewPlace == ASSUME VisitInv, VisitInv', PlaceInv, RegroupNew PROVE PlaceInv'
<1>1. ShapeInv /\ Made /\ NamedChild /\ size \in Nodes
      /\ name \in [Nodes -> Names \cup {Nil}] /\ named \in [Nodes -> [Names -> Nodes \cup {Nil}]]
  BY DEF VisitInv, NodeInv, ShapeInv, TypeOK
<1>2. PICK d : d = Top.node OBVIOUS
<1>3. PICK p : p = parent[d] OBVIOUS
<1>4. PICK m : m = Moved OBVIOUS
<1>5. PICK g : g = size + 1 OBVIOUS
<1>6. /\ pc = "regroup" /\ pc' = pc
      /\ d \in Nodes /\ p \in Nodes /\ p # d /\ name[d] \in Lproj /\ name[p] \notin Lproj
      /\ m \in 2 .. size /\ m \in Nodes /\ parent[m] = d /\ m # d
      /\ size' = g /\ g \in Nodes /\ g # m /\ g # p /\ g # d
      /\ name'[g] \in Names \ Lproj /\ parent'[g] = p /\ parent'[m] = g
      /\ \A n \in Nodes : n # m /\ n # g => name'[n] = name[n] /\ parent'[n] = parent[n]
      /\ UNCHANGED <<files, path>>
  BY <1>1, <1>2, <1>3, <1>4, <1>5, RegroupNewEffect
<1>7. Regroups BY DEF RegroupNew
<1>8. /\ path[m] # << >> /\ Orig(p)
      /\ Shown(path[m]) = Append(Append(Shown(path[p]), name[d]), name[m])
      /\ Apart(m)
  BY <1>1, <1>2, <1>3, <1>4, <1>7, MovedPlace
<1>9. name[m] \in Names \ Lproj /\ Lang[name[d]] \in Names \ Lproj
  BY <1>1, <1>2, <1>4, <1>7, MovedFacts
<1>10. /\ name' = [name EXCEPT ![g] = name[m], ![m] = Lang[name[d]]]
       /\ named' = [named EXCEPT ![p][name[m]] = g, ![g][Lang[name[d]]] = m]
  BY <1>2, <1>3, <1>4, <1>5 DEF RegroupNew
<1>11. name'[m] = Lang[name[d]] /\ name'[g] = name[m] BY <1>1, <1>6, <1>10
<1>12. NamedNow BY DEF PlaceInv
<1>13. g > size /\ size \in Nat /\ g \in Nat /\ 2 .. g = (2 .. size) \cup {g} /\ g \notin 1 .. size
  BY <1>1, <1>5 DEF Nodes
<1>14. Displaced(m)'
  <2>1. Shown(path[m])' = Shown(path[m]) /\ Shown(path[p])' = Shown(path[p])
    BY <1>6 DEF Shown
  <2>2. name'[p] \notin Lproj BY <1>6, <1>9, <1>11
  <2>3. Orig(p)' BY <1>6, <1>8 DEF Orig
  <2>4. PICK l \in Lproj : l = name[d] BY <1>6
  <2>5. DisplacedFrom(m, g, p, l)'
    BY <1>6, <1>8, <1>9, <1>11, <2>1, <2>2, <2>3, <2>4 DEF DisplacedFrom
  <2> QED BY <1>6, <2>5 DEF Displaced
<1>15. \A n \in 1 .. size : n # m => name'[n] = name[n] /\ parent'[n] = parent[n]
  BY <1>1, <1>6, <1>13 DEF Nodes
<1>16. \A q \in Nodes : name[q] \notin Lproj => name'[q] \notin Lproj BY <1>6, <1>9, <1>11
<1>17. /\ \A n \in 2 .. size : n # m /\ InPlace(n) => InPlace(n)'
       /\ \A n \in 2 .. size : Displaced(n) => Displaced(n)'
       /\ \A n \in 2 .. size : IsGroup(n) => IsGroup(n)'
  <2>1. path' = path /\ size \in Nat /\ size' \in Nat /\ size <= size' BY <1>6, <1>13
  <2> QED BY <1>1, <1>8, <1>15, <1>16, <2>1, RegroupStays
<1>18. IsGroup(g)' /\ path'[g] = << >>
  <2>1. m \in 2 .. size' BY <1>6, <1>13
  <2>2. path'[g] = << >> BY <1>6, <1>13 DEF PlaceInv, Pathless
  <2> QED BY <1>6, <1>8, <1>14, <2>1, <2>2 DEF IsGroup
<1>19. Placed'
  <2> SUFFICES ASSUME NEW n \in 2 .. g
               PROVE  IF path'[n] = << >> THEN IsGroup(n)' ELSE InPlace(n)' \/ Displaced(n)'
    BY <1>6 DEF Placed
  <2>1. CASE n = m BY <1>6, <1>8, <1>14, <2>1
  <2>2. CASE n = g BY <1>18, <2>2
  <2>3. CASE n \in 2 .. size /\ n # m BY <1>6, <1>17, <2>3 DEF PlaceInv, Placed
  <2> QED BY <1>13, <2>1, <2>2, <2>3
<1>20. NamedNow'
  <2> SUFFICES ASSUME NEW q \in Nodes, name'[q] \notin Lproj, NEW x \in Names, named'[q][x] # Nil
               PROVE  name'[named'[q][x]] = x
    BY DEF NamedNow
  <2>0. \/ q = p /\ x = name[m] /\ named'[q][x] = g
        \/ q = g /\ x = Lang[name[d]] /\ named'[q][x] = m
        \/ named'[q][x] = named[q][x]
    <3>1. CASE q = p
      <4>1. named'[q] = [named[q] EXCEPT ![name[m]] = g] BY <1>1, <1>6, <1>10, <3>1
      <4>2. named[q] \in [Names -> Nodes \cup {Nil}] BY <1>1
      <4> QED BY <1>9, <3>1, <4>1, <4>2
    <3>2. CASE q = g
      <4>1. named'[q] = [named[q] EXCEPT ![Lang[name[d]]] = m] BY <1>1, <1>6, <1>10, <3>2
      <4>2. named[q] \in [Names -> Nodes \cup {Nil}] BY <1>1
      <4> QED BY <1>9, <3>2, <4>1, <4>2
    <3>3. CASE q # p /\ q # g BY <1>1, <1>6, <1>10, <3>3
    <3> QED BY <3>1, <3>2, <3>3
  <2>1. CASE named'[q][x] # named[q][x] BY <1>11, <2>0, <2>1
  <2>2. CASE named'[q][x] = named[q][x]
    <3>2. name[q] \notin Lproj
      <4>1. CASE q = g
        <5>1. name[g] = Nil BY <1>1, <1>6, <1>13 DEF Made
        <5> QED BY <4>1, <5>1
      <4>2. CASE q # g BY <1>6, <1>9, <4>2
      <4> QED BY <4>1, <4>2
    <3>3. name[named[q][x]] = x BY <1>12, <2>2, <3>2 DEF NamedNow
    <3>4. parent[named[q][x]] = q BY <1>1, <2>2, <3>2 DEF NamedChild
    <3>5. named[q][x] # m BY <1>6, <3>2, <3>4
    <3>6. named[q][x] \in 2 .. size BY <1>1, <2>2 DEF Made
    <3>7. 2 .. size \subseteq 1 .. size OBVIOUS
    <3> QED BY <1>15, <2>2, <3>3, <3>5, <3>6, <3>7
  <2> QED BY <2>1, <2>2
<1>21. Pathless' BY <1>6, <1>13 DEF PlaceInv, Pathless, Nodes
<1>22. PathsOfFiles'
  <2>1. PathsOfFiles /\ files' = files /\ path' = path BY <1>6 DEF PlaceInv
  <2> QED BY <2>1 DEF PathsOfFiles
<1>23. CursorShown' BY <1>6 DEF CursorShown
<1> QED BY <1>19, <1>20, <1>21, <1>22, <1>23 DEF PlaceInv

\* The steps that make no node, and move none.
LEMMA OtherStepsPlace ==
  ASSUME VisitInv, VisitInv', PlaceInv, [Next]_vars, ~AddNew, ~RegroupInto, ~RegroupNew
  PROVE  PlaceInv'
<1>1. UNCHANGED <<files, name, path, parent, named, size>>
  BY DEF Next, vars, fields, AddAbsolute, AddUp, AddExisting, AddsTo, FileAdded, AllAdded,
     StartPass, VisitLeaf, VisitBranch, Onnode, Return, EndPass, RegroupDone, remove
<1>2. CursorShown /\ ShapeInv /\ Parents BY DEF PlaceInv, VisitInv, NodeInv
<1>3. CursorShown'
  <2> SUFFICES ASSUME pc' = "add", k' <= Len(files)
               PROVE  Orig(cur)' /\ Shown(path[cur])' = Shown(SubSeq(files[k], 1, i))'
    BY <1>1 DEF CursorShown
  <2>1. CASE UNCHANGED vars
    <3>1. UNCHANGED <<files, k, i, cur, path, pc>> BY <2>1 DEF vars, fields
    <3> QED BY <1>2, <3>1 DEF CursorShown, Orig, Shown
  <2>2. CASE AddUp
    <3>1. pc = "add" /\ k <= Len(files) /\ i < Len(files[k]) /\ i' = i + 1 /\ Component = Up
          /\ UNCHANGED <<files, k, cur, path>>
      BY <2>2 DEF AddUp, AddsTo, fields
    <3>2. Shown(Prefix) = Shown(SubSeq(files[k], 1, i)) BY <1>2, <3>1, ComponentFacts
    <3>3. Orig(cur) /\ Shown(path[cur]) = Shown(SubSeq(files[k], 1, i))
      BY <1>2, <3>1 DEF CursorShown
    <3> QED BY <3>1, <3>2, <3>3 DEF Orig, Shown, Prefix
  <2>3. CASE AddExisting
    <3>1. pc = "add" /\ k <= Len(files) /\ i < Len(files[k]) /\ i' = i + 1
          /\ UNCHANGED <<files, k, path>> /\ path[cur'] = Prefix
      BY <2>3 DEF AddExisting, AddsTo, fields, Found
    <3>2. Prefix # << >> BY <1>2, <3>1, ComponentFacts
    <3> QED BY <3>1, <3>2 DEF Orig, Shown, Prefix
  <2>4. CASE FileAdded
    <3>1. i' = 0 /\ cur' = Root /\ k' \in DOMAIN files /\ files \in Seq(Seq(Names \cup {Up, Slash}))
      <4>1. i' = 0 /\ cur' = Root /\ k' = k + 1 BY <2>4 DEF FileAdded
      <4>2. k \in Nat /\ files \in Seq(Seq(Names \cup {Up, Slash}))
        BY <1>2, PathAssumption DEF ShapeInv, TypeOK
      <4>3. Len(files) \in Nat /\ DOMAIN files = 1 .. Len(files) BY <4>2, SeqDomain
      <4> QED BY <4>1, <4>2, <4>3
    <3>2. files[k'] \in Seq(Names \cup {Up, Slash}) BY <3>1
    <3>3. SubSeq(files[k'], 1, 0) = << >> BY <3>2, WholeList
    <3>4. path'[Root] = << >> BY <1>1, <1>2 DEF Parents
    <3> QED BY <1>1, <3>1, <3>3, <3>4 DEF Orig, Shown
  <2>5. ~(AddAbsolute \/ AllAdded \/ StartPass \/ VisitLeaf \/ VisitBranch \/ Return \/ EndPass
            \/ RegroupDone)
    BY DEF AddAbsolute, AllAdded, StartPass, VisitLeaf, VisitBranch, HasNext, Return, EndPass,
       RegroupDone
  <2> QED BY <2>1, <2>2, <2>3, <2>4, <2>5 DEF Next
<1> QED BY <1>1, <1>3, PlaceKept

LEMMA InitPlace == Init => PlaceInv
<1> SUFFICES ASSUME Init PROVE PlaceInv OBVIOUS
<1>1. /\ size = 1 /\ path = [n \in Nodes |-> << >>] /\ cur = Root /\ i = 0 /\ k = 1
      /\ named = [n \in Nodes |-> [x \in Names |-> Nil]] /\ files \in Projects
  BY DEF Init
<1>2. 2 .. size = {} /\ Root \in Nodes BY <1>1 DEF Nodes, Root
<1>3. Placed BY <1>2 DEF Placed
<1>4. Pathless /\ PathsOfFiles BY <1>1 DEF Pathless, PathsOfFiles
<1>5. NamedNow BY <1>1 DEF NamedNow
<1>6. CursorShown
  <2> SUFFICES ASSUME k <= Len(files)
               PROVE  Orig(cur) /\ Shown(path[cur]) = Shown(SubSeq(files[k], 1, i))
    BY DEF CursorShown
  <2>1. files \in Seq(Seq(Names \cup {Up, Slash})) BY <1>1, PathAssumption
  <2>2. 1 \in DOMAIN files BY <1>1, <2>1
  <2>3. files[k] \in Seq(Names \cup {Up, Slash}) BY <1>1, <2>1, <2>2
  <2>4. SubSeq(files[k], 1, 0) = << >> BY <2>3, WholeList
  <2> QED BY <1>1, <1>2, <2>4 DEF Orig
<1> QED BY <1>3, <1>4, <1>5, <1>6 DEF PlaceInv

LEMMA PlaceInvariant == Spec => []PlaceInv
<1>1. ASSUME VisitInv, VisitInv', PlaceInv, [Next]_vars PROVE PlaceInv'
  BY <1>1, AddNewPlace, RegroupIntoPlace, RegroupNewPlace, OtherStepsPlace DEF Next
<1> QED BY <1>1, InitPlace, VisitInvariant, PTL DEF Spec

\* A step that records no file for a node.
LEMMA FileNodesKept ==
  ASSUME FileNodes, UNCHANGED <<files, k, cfg>>, size \in Nat, size' \in Nat, size <= size',
         \A n \in 2 .. size : path'[n] = path[n]
  PROVE  FileNodes'
<1>1. 2 .. size \subseteq 2 .. size' OBVIOUS
<1>2. ASSUME NEW n \in Nodes, cfg'[n] # Nil
      PROVE  /\ n \in 2 .. size' /\ cfg'[n] < k' /\ cfg'[n] \in DOMAIN files'
             /\ path'[n] = files'[cfg'[n]]
  <2>1. n \in 2 .. size /\ cfg[n] < k /\ cfg[n] \in DOMAIN files /\ path[n] = files[cfg[n]]
    BY <1>2 DEF FileNodes
  <2>2. path'[n] = path[n] BY <2>1
  <2> QED BY <1>1, <2>1, <2>2
<1>3. ASSUME NEW f \in DOMAIN files, f < k
      PROVE  \/ \E n \in 2 .. size' : cfg'[n] = f
             \/ \E g \in DOMAIN files : f < g /\ files[g] = files[f]
  <2>1. \/ \E n \in 2 .. size : cfg[n] = f
        \/ \E g \in DOMAIN files : f < g /\ files[g] = files[f]
    BY <1>3 DEF FileNodes
  <2> QED BY <1>1, <2>1
<1>4. cfg' \in [Nodes -> Nat] /\ \A m, n \in Nodes : cfg'[m] # Nil /\ cfg'[m] = cfg'[n] => m = n
  BY DEF FileNodes
<1> QED BY <1>2, <1>3, <1>4 DEF FileNodes

LEMMA FileAddedFiles ==
  ASSUME PathsPlain, VisitInv, FileInv, FileAdded PROVE FileInv'
<1> DEFINE S == Names \cup {Up, Slash}
<1>1. /\ ShapeInv /\ size \in Nodes /\ k \in Nat \ {0} /\ i \in Nat /\ cur \in 1 .. size
      /\ files \in Projects
  BY DEF VisitInv, NodeInv, ShapeInv, TypeOK
<1>2. /\ pc = "add" /\ k <= Len(files) /\ i = Len(files[k]) /\ cfg' = [cfg EXCEPT ![cur] = k]
      /\ k' = k + 1 /\ i' = 0 /\ pc' = "add" /\ UNCHANGED <<files, path, size>>
  BY DEF FileAdded
<1>3. files[k] \in Seq(S) /\ k \in DOMAIN files /\ Len(files[k]) \in Nat BY <1>1, <1>2, FileLists
<1>4. i > 0 /\ files[k][i] \in Names
  <2>1. Len(files[k]) > 0 /\ files[k][Len(files[k])] \in Names BY <1>1, <1>3 DEF PathsPlain
  <2> QED BY <1>2, <2>1
<1>5. cur # Root /\ path[cur] = SubSeq(files[k], 1, i) BY <1>2, <1>4 DEF FileInv, CursorNode
<1>6. SubSeq(files[k], 1, Len(files[k])) = files[k] BY <1>3, WholeList
<1>7. PICK c : c = cur OBVIOUS
<1>8. c \in 2 .. size /\ c \in Nodes /\ path[c] = files[k]
  BY <1>1, <1>2, <1>5, <1>6, <1>7 DEF Nodes, Root
<1>9. FileNodes BY DEF FileInv
<1>10. cfg'[c] = k /\ \A n \in Nodes : n # c => cfg'[n] = cfg[n] BY <1>2, <1>7, <1>8, <1>9 DEF FileNodes
<1>11. cfg' \in [Nodes -> Nat] BY <1>1, <1>2, <1>7, <1>9 DEF FileNodes
<1>12. \A f \in DOMAIN files : f \in Nat
  <2>1. files \in Seq(Seq(S)) BY <1>1, PathAssumption
  <2> QED BY <2>1
<1>13. ASSUME NEW n \in Nodes, cfg'[n] # Nil
       PROVE  /\ n \in 2 .. size /\ cfg'[n] < k + 1 /\ cfg'[n] \in DOMAIN files
              /\ path[n] = files[cfg'[n]]
  <2>1. CASE n = c BY <1>1, <1>3, <1>8, <1>10, <2>1
  <2>2. CASE n # c
    <3>1. cfg'[n] = cfg[n] BY <1>10, <2>2
    <3>2. n \in 2 .. size /\ cfg[n] < k /\ cfg[n] \in DOMAIN files /\ path[n] = files[cfg[n]]
      BY <1>9, <1>13, <3>1 DEF FileNodes
    <3> QED BY <1>1, <1>12, <3>1, <3>2
  <2> QED BY <2>1, <2>2
<1>14. ASSUME NEW m \in Nodes, NEW n \in Nodes, cfg'[m] # Nil, cfg'[m] = cfg'[n] PROVE m = n
  <2>1. \A x \in Nodes : x # c => cfg'[x] = cfg[x] /\ cfg[x] # k
    <3> SUFFICES ASSUME NEW x \in Nodes, x # c, cfg[x] = k PROVE FALSE BY <1>10
    <3>1. k # Nil BY <1>1 DEF Nil
    <3>2. cfg[x] < k BY <1>9, <3>1 DEF FileNodes
    <3> QED BY <1>1, <3>2
  <2>2. m # c /\ n # c => m = n BY <1>9, <1>14, <2>1 DEF FileNodes
  <2> QED BY <1>10, <1>14, <2>1, <2>2
<1>15. ASSUME NEW f \in DOMAIN files, f < k + 1
       PROVE  \/ \E n \in 2 .. size : cfg'[n] = f
              \/ \E g \in DOMAIN files : f < g /\ files[g] = files[f]
  <2>1. CASE f = k BY <1>8, <1>10, <2>1
  <2>2. CASE f # k
    <3>1. f < k BY <1>1, <1>12, <1>15, <2>2
    <3>2. CASE \E g \in DOMAIN files : f < g /\ files[g] = files[f] BY <3>2
    <3>3. ASSUME NEW n \in 2 .. size, cfg[n] = f
          PROVE  \/ \E x \in 2 .. size : cfg'[x] = f
                 \/ \E g \in DOMAIN files : f < g /\ files[g] = files[f]
      <4>1. n \in Nodes BY <1>1 DEF Nodes
      <4>2. CASE n = c
        <5>1. f # Nil
          <6>1. files \in Seq(Seq(S)) BY <1>1, PathAssumption
          <6> QED BY <6>1 DEF Nil
        <5>2. path[c] = files[f] BY <1>9, <3>3, <4>1, <4>2, <5>1 DEF FileNodes
        <5> QED BY <1>3, <1>8, <3>1, <5>2
      <4>3. CASE n # c BY <1>10, <3>3, <4>1, <4>3
      <4> QED BY <4>2, <4>3
    <3>4. \/ \E n \in 2 .. size : cfg[n] = f
          \/ \E g \in DOMAIN files : f < g /\ files[g] = files[f]
      BY <1>9, <3>1 DEF FileNodes
    <3> QED BY <3>2, <3>3, <3>4
  <2> QED BY <2>1, <2>2
<1>16. FileNodes' BY <1>2, <1>11, <1>13, <1>14, <1>15 DEF FileNodes
<1>17. CursorNode' BY <1>2 DEF CursorNode
<1>18. AllIn' BY <1>2 DEF AllIn
<1> QED BY <1>16, <1>17, <1>18 DEF FileInv

LEMMA OtherStepsFiles ==
  ASSUME VisitInv, VisitInv', FileInv, [Next]_vars, ~FileAdded PROVE FileInv'
<1>1. /\ ShapeInv /\ Parents /\ size \in Nat /\ size' \in Nat /\ size \in Nodes
  <2>1. /\ ShapeInv /\ Parents /\ size \in Nodes /\ size' \in Nodes
    BY DEF VisitInv, NodeInv, ShapeInv, TypeOK
  <2> QED BY <2>1 DEF Nodes
<1>2. FileNodes'
  <2>1. UNCHANGED <<files, k, cfg>>
    BY DEF Next, vars, fields, AddAbsolute, AddUp, AddExisting, AddNew, AddsTo, FileAdded, AllAdded,
       StartPass, VisitLeaf, VisitBranch, Onnode, Return, EndPass, RegroupInto, RegroupNew, RegroupDone
  <2>2. size <= size' /\ \A n \in 2 .. size : path'[n] = path[n]
    <3>1. CASE AddNew
      <4>1. size' = size + 1 /\ \A m \in Nodes : m # size + 1 => path'[m] = path[m]
        BY <1>1, <3>1, AddNewEffect
      <4>2. \A m \in 2 .. size : m \in Nodes /\ m # size + 1 BY <1>1 DEF Nodes
      <4> QED BY <1>1, <4>1, <4>2
    <3>2. CASE RegroupNew
      <4>1. size' = size + 1 /\ path' = path BY <3>2 DEF RegroupNew
      <4> QED BY <1>1, <4>1
    <3>3. CASE ~AddNew /\ ~RegroupNew
      <4>1. size' = size /\ path' = path
        BY <3>3 DEF Next, vars, fields, AddAbsolute, AddUp, AddExisting, AddsTo, FileAdded, AllAdded,
           StartPass, VisitLeaf, VisitBranch, Onnode, Return, EndPass, RegroupInto, RegroupDone
      <4> QED BY <1>1, <4>1
    <3> QED BY <3>1, <3>2, <3>3
  <2> QED BY <1>1, <2>1, <2>2, FileNodesKept DEF FileInv
<1>3. AllIn'
  <2>1. CASE AllAdded BY <2>1 DEF AllAdded, AllIn
  <2>2. CASE ~AllAdded
    <3>1. /\ UNCHANGED <<files, k>>
          /\ pc' \in {"add", "overflow"} \/ pc \notin {"add", "overflow"}
      BY <2>2 DEF Next, vars, fields, AddAbsolute, AddUp, AddExisting, AddNew, AddsTo, FileAdded,
         StartPass, VisitLeaf, VisitBranch, HasNext, Onnode, Return, EndPass, RegroupInto,
         RegroupNew, Regroups, RegroupDone
    <3> QED BY <3>1 DEF FileInv, AllIn
  <2> QED BY <2>1, <2>2
<1>4. CursorNode'
  <2> SUFFICES ASSUME pc' = "add", k' <= Len(files'), i' > 0, files'[k'][i'] \in Names
               PROVE  cur' # Root /\ path'[cur'] = SubSeq(files'[k'], 1, i')
    BY DEF CursorNode
  <2>1. CASE UNCHANGED vars
    <3>1. UNCHANGED <<files, k, i, cur, path, pc>> BY <2>1 DEF vars, fields
    <3> QED BY <3>1 DEF FileInv, CursorNode
  <2>2. CASE AddUp
    <3>1. files'[k'][i'] = Up BY <2>2 DEF AddUp, AddsTo, Component
    <3> QED BY <3>1
  <2>3. CASE AddExisting
    <3>1. pc = "add" /\ k <= Len(files) /\ i < Len(files[k]) /\ i' = i + 1
          /\ UNCHANGED <<files, k, path>> /\ path[cur'] = Prefix
      BY <2>3 DEF AddExisting, AddsTo, fields, Found
    <3>2. Prefix # << >> BY <1>1, <3>1, ComponentFacts
    <3> QED BY <1>1, <3>1, <3>2 DEF Parents, Prefix
  <2>4. CASE AddNew
    <3>1. PICK n : n = size + 1 OBVIOUS
    <3>2. cur' = n /\ path'[n] = Prefix /\ i' = i + 1 /\ UNCHANGED <<files, k>>
      BY <1>1, <2>4, <3>1, AddNewEffect
    <3>3. n # Root BY <1>1, <3>1 DEF Nodes, Root
    <3> QED BY <3>2, <3>3 DEF Prefix
  <2>5. ~(AddAbsolute \/ AllAdded \/ StartPass \/ VisitLeaf \/ VisitBranch \/ Return \/ EndPass
            \/ RegroupInto \/ RegroupNew \/ RegroupDone)
    BY DEF AddAbsolute, AllAdded, StartPass, VisitLeaf, VisitBranch, HasNext, Return, EndPass,
       RegroupInto, RegroupNew, Regroups, RegroupDone
  <2> QED BY <2>1, <2>2, <2>3, <2>4, <2>5 DEF Next
<1> QED BY <1>2, <1>3, <1>4 DEF FileInv

LEMMA InitFiles == Init => FileInv
<1> SUFFICES ASSUME Init PROVE FileInv OBVIOUS
<1>1. cfg = [n \in Nodes |-> Nil] /\ k = 1 /\ i = 0 /\ pc = "add" /\ files \in Projects BY DEF Init
<1>2. \A f \in DOMAIN files : ~(f < k)
  <2>1. files \in Seq(Seq(Names \cup {Up, Slash})) BY <1>1, PathAssumption
  <2> QED BY <1>1, <2>1
<1>3. FileNodes BY <1>1, <1>2 DEF FileNodes, Nil
<1> QED BY <1>1, <1>3 DEF FileInv, CursorNode, AllIn

LEMMA FileInvariant == ASSUME PathsPlain PROVE Spec => []FileInv
<1>1. ASSUME VisitInv, VisitInv', FileInv, [Next]_vars PROVE FileInv'
  BY <1>1, FileAddedFiles, OtherStepsFiles
<1> QED BY <1>1, InitFiles, VisitInvariant, PTL DEF Spec

\* Sorting loses nothing.
LEMMA ArrangementCovers ==
  ASSUME NEW S, NEW s \in Seq(S), NEW t \in Arrangements(s),
         \A x, y \in DOMAIN s : s[x] = s[y] => x = y
  PROVE  /\ \A y \in DOMAIN s : \E x \in DOMAIN t : t[x] = s[y]
         /\ t # << >> => s # << >>
<1>1. /\ t \in Seq(S) /\ DOMAIN t = DOMAIN s
      /\ \A x, y \in DOMAIN t : t[x] = t[y] => x = y
      /\ \A x \in DOMAIN t : \E y \in DOMAIN s : s[y] = t[x]
  BY ArrangementProps
<1>2. Len(s) \in Nat /\ DOMAIN s = 1 .. Len(s) BY SeqDomain
<1> DEFINE N == Len(s)
           D == 1 .. N
<1>3. ASSUME NEW z \in D, \A x \in D : t[x] # s[z] PROVE FALSE
  <2> DEFINE T == D \ {z}
             h == [x \in D |-> CHOOSE y \in T : s[y] = t[x]]
  <2>1. \A x \in D : \E y \in T : s[y] = t[x] BY <1>1, <1>2, <1>3
  <2>2. h \in [D -> T] /\ \A x \in D : s[h[x]] = t[x] BY <2>1
  <2>3. IsFiniteSet(D) /\ Cardinality(D) = N
    <3>1. 1 \in Int /\ N \in Int /\ (IF 1 > N THEN 0 ELSE N - 1 + 1) = N BY <1>2
    <3>2. IsFiniteSet(1 .. N) /\ Cardinality(1 .. N) = IF 1 > N THEN 0 ELSE N - 1 + 1
      BY <3>1, FS_Interval
    <3> QED BY <3>1, <3>2
  <2>4. IsFiniteSet(T) /\ Cardinality(T) = N - 1
    <3> HIDE DEF D, N
    <3>1. /\ IsFiniteSet(D \ {z})
          /\ Cardinality(D \ {z}) = IF z \in D THEN Cardinality(D) - 1 ELSE Cardinality(D)
      BY <2>3, FS_RemoveElement
    <3> QED BY <1>3, <2>3, <3>1
  <2>5. Cardinality(T) < Cardinality(D) BY <1>2, <2>3, <2>4
  <2> HIDE DEF D, T, h
  <2>6. PICK x \in D, y \in D : x # y /\ h[x] = h[y]
    BY <2>2, <2>3, <2>4, <2>5, FS_PigeonHole
  <2>7. t[x] = t[y] BY <2>2, <2>6
  <2>8. x \in DOMAIN t /\ y \in DOMAIN t BY <1>1, <1>2, <2>6 DEF D
  <2> QED BY <1>1, <2>6, <2>7, <2>8
<1>4. s = << >> => t = << >> BY <1>1
<1> QED BY <1>1, <1>2, <1>3, <1>4

\* Taking an element out of a list loses no other.
LEMMA WithoutCovers ==
  ASSUME NEW S, NEW s \in Seq(S), NEW m \in DOMAIN s,
         \A x, y \in DOMAIN s : s[x] = s[y] => x = y
  PROVE  \A y \in DOMAIN s : y # m => \E x \in DOMAIN Without(s, s[m]) : Without(s, s[m])[x] = s[y]
<1>1. Len(s) \in Nat /\ DOMAIN s = 1 .. Len(s) BY SeqDomain
<1>2. (CHOOSE l \in DOMAIN s : s[l] = s[m]) = m OBVIOUS
<1> DEFINE t == Without(s, s[m])
<1>3. t = [x \in 1 .. Len(s) - 1 |-> s[IF x < m THEN x ELSE x + 1]] BY <1>2 DEF Without
<1> HIDE DEF t
<1> SUFFICES ASSUME NEW y \in DOMAIN s, y # m PROVE \E x \in DOMAIN t : t[x] = s[y] BY DEF t
<1>4. CASE y < m
  <2>1. y \in 1 .. Len(s) - 1 /\ t[y] = s[y] BY <1>1, <1>3, <1>4
  <2> QED BY <1>3, <2>1
<1>5. CASE y > m
  <2>1. y - 1 \in 1 .. Len(s) - 1 /\ ~(y - 1 < m) /\ (y - 1) + 1 = y BY <1>1, <1>5
  <2>2. t[y - 1] = s[y] BY <1>3, <2>1
  <2> QED BY <1>3, <2>1, <2>2
<1> QED BY <1>1, <1>4, <1>5

-----------------------------------------------------------------------------

\* What hung anywhere still hangs there.
StillHangs == \A p \in Nodes : \A n : Hangs(n, p) => Hangs(n, p)'

LEMMA HangingKept ==
  ASSUME Hanging, StillHangs, UNCHANGED <<name, parent, size>>, pc' = "add" => pc = "add",
         \A p \in Nodes : kids'[p] # << >> => kids[p] # << >>, size \in Nodes
  PROVE  Hanging'
<1>1. 2 .. size \subseteq Nodes BY DEF Nodes
<1> SUFFICES ASSUME NEW n \in 2 .. size, name[n] \notin Lproj \/ kids'[n] # << >> \/ pc' = "add"
             PROVE  parent[n] \in Nodes /\ Hangs(n, parent[n])'
  BY DEF Hanging, Hangs
<1>2. parent[n] \in Nodes /\ Hangs(n, parent[n]) BY <1>1 DEF Hanging
<1>3. PICK p \in Nodes : p = parent[n] BY <1>2
<1>4. Hangs(n, p)' BY <1>2, <1>3 DEF StillHangs
<1> QED BY <1>2, <1>3, <1>4

\* Sorting takes nothing out of a list and puts nothing in.
LEMMA SortedHangs ==
  ASSUME ShapeInv, NEW n \in Nodes,
         \/ kids' = kids
         \/ \E t \in Arrangements(kids[n]) : kids' = [kids EXCEPT ![n] = t]
  PROVE  StillHangs /\ \A p \in Nodes : kids'[p] # << >> => kids[p] # << >>
<1>1. InListOnce /\ kids \in [Nodes -> Seq(Nodes)] BY DEF ShapeInv, TypeOK
<1>2. CASE kids' = kids BY <1>2 DEF StillHangs, Hangs
<1>3. ASSUME NEW t \in Arrangements(kids[n]), kids' = [kids EXCEPT ![n] = t]
      PROVE  StillHangs /\ \A p \in Nodes : kids'[p] # << >> => kids[p] # << >>
  <2>1. kids[n] \in Seq(Nodes) /\ \A x, y \in DOMAIN kids[n] : kids[n][x] = kids[n][y] => x = y
    BY <1>1 DEF InListOnce
  <2>2. /\ \A y \in DOMAIN kids[n] : \E x \in DOMAIN t : t[x] = kids[n][y]
        /\ t # << >> => kids[n] # << >>
    BY <2>1, ArrangementCovers
  <2>3. kids'[n] = t /\ \A p \in Nodes : p # n => kids'[p] = kids[p] BY <1>1, <1>3
  <2>4. ASSUME NEW p \in Nodes, NEW c, Hangs(c, p) PROVE Hangs(c, p)'
    <3>1. PICK y \in DOMAIN kids[p] : kids[p][y] = c BY <2>4 DEF Hangs
    <3>2. \E x \in DOMAIN kids'[p] : kids'[p][x] = c BY <2>2, <2>3, <3>1
    <3> QED BY <3>2 DEF Hangs
  <2> QED BY <2>2, <2>3, <2>4 DEF StillHangs
<1> QED BY <1>2, <1>3

\* The steps that put nothing into a list and take nothing out.
LEMMA QuietHanging ==
  ASSUME VisitInv, Hanging, [Next]_vars, ~AddNew, ~RegroupInto, ~RegroupNew, ~RegroupDone
  PROVE  Hanging'
<1>1. ShapeInv /\ size \in Nodes BY DEF VisitInv, NodeInv, ShapeInv, TypeOK
<1>2. UNCHANGED <<name, parent, size>> /\ (pc' = "add" => pc = "add")
  BY DEF Next, vars, fields, AddAbsolute, AddUp, AddExisting, AddsTo, FileAdded, AllAdded,
     StartPass, VisitLeaf, VisitBranch, HasNext, Onnode, Return, EndPass
<1>3. \E n \in Nodes : \/ kids' = kids
                       \/ \E t \in Arrangements(kids[n]) : kids' = [kids EXCEPT ![n] = t]
  <2>1. CASE StartPass
    <3>1. Root \in Nodes BY DEF Nodes, Root
    <3> QED BY <2>1, <3>1 DEF StartPass, fields
  <2>2. CASE VisitLeaf \/ VisitBranch
    <3>1. HasNext /\ Onnode(Current) BY <2>2 DEF VisitLeaf, VisitBranch
    <3>2. Current \in Nodes BY <1>1, <3>1, CurrentChild
    <3> QED BY <3>1, <3>2 DEF Onnode
  <2>3. CASE ~(StartPass \/ VisitLeaf \/ VisitBranch)
    <3>1. kids' = kids
      BY <2>3 DEF Next, vars, fields, AddAbsolute, AddUp, AddExisting, AddsTo, FileAdded, AllAdded,
         Return, EndPass
    <3>2. Root \in Nodes BY DEF Nodes, Root
    <3> QED BY <3>1, <3>2
  <2> QED BY <2>1, <2>2, <2>3
<1>4. StillHangs /\ \A p \in Nodes : kids'[p] # << >> => kids[p] # << >>
  BY <1>1, <1>3, SortedHangs
<1> QED BY <1>1, <1>2, <1>4, HangingKept

\* A node put at the end of a list hangs there, and everything else stays.
LEMMA InsertHangs ==
  ASSUME kids \in [Nodes -> Seq(Nodes)], NEW p \in Nodes, NEW c \in Nodes,
         kids' = [kids EXCEPT ![p] = Append(@, c)]
  PROVE  /\ StillHangs /\ Hangs(c, p)'
         /\ \A q \in Nodes : q # p => kids'[q] = kids[q]
<1>1. /\ \A q \in Nodes : q # p => kids'[q] = kids[q]
      /\ \A q \in Nodes : \A x \in DOMAIN kids[q] : x \in DOMAIN kids'[q] /\ kids'[q][x] = kids[q][x]
  BY InsertKids
<1>2. kids'[p] = Append(kids[p], c) /\ kids[p] \in Seq(Nodes) OBVIOUS
<1>3. Hangs(c, p)'
  <2>1. /\ DOMAIN Append(kids[p], c) = 1 .. Len(kids[p]) + 1
        /\ Append(kids[p], c)[Len(kids[p]) + 1] = c
    BY <1>2, AppendProps
  <2>2. Len(kids[p]) + 1 \in DOMAIN kids'[p]
    <3>1. Len(kids[p]) \in Nat BY <1>2
    <3> QED BY <1>2, <2>1, <3>1
  <2> QED BY <1>2, <2>1, <2>2 DEF Hangs
<1>4. StillHangs BY <1>1 DEF StillHangs, Hangs
<1> QED BY <1>1, <1>3, <1>4

LEMMA AddNewHanging == ASSUME VisitInv, Hanging, AddNew PROVE Hanging'
<1>s. ShapeInv /\ size \in Nodes /\ kids \in [Nodes -> Seq(Nodes)]
  BY DEF VisitInv, NodeInv, ShapeInv, TypeOK
<1>1. PICK n : n = size + 1 OBVIOUS
<1>2. PICK c : c = cur OBVIOUS
<1>3. /\ pc = "add" /\ c \in Nodes /\ size' = n /\ n \in Nodes /\ parent'[n] = c
      /\ \A m \in Nodes : m # n => parent'[m] = parent[m]
  BY <1>s, <1>1, <1>2, AddNewEffect
<1>4. kids' = [kids EXCEPT ![c] = Append(@, n)] BY <1>1, <1>2 DEF AddNew, insert
<1>5. StillHangs /\ Hangs(n, c)' BY <1>s, <1>3, <1>4, InsertHangs
<1>6. \A m \in 2 .. size' : m = n \/ (m \in 2 .. size /\ m \in Nodes /\ m # n)
  BY <1>s, <1>1, <1>3 DEF Nodes
<1> SUFFICES ASSUME NEW m \in 2 .. size' PROVE parent'[m] \in Nodes /\ Hangs(m, parent[m])'
  BY DEF Hanging
<1>7. CASE m = n BY <1>3, <1>5, <1>7 DEF Hangs
<1>8. CASE m \in 2 .. size /\ m \in Nodes /\ m # n
  <2>1. parent'[m] = parent[m] /\ parent[m] \in Nodes /\ Hangs(m, parent[m])
    BY <1>3, <1>8 DEF Hanging
  <2>2. PICK p \in Nodes : p = parent[m] BY <2>1
  <2>3. Hangs(m, p)' BY <1>5, <2>1, <2>2 DEF StillHangs
  <2> QED BY <2>1, <2>2, <2>3 DEF Hangs
<1> QED BY <1>6, <1>7, <1>8

LEMMA RegroupIntoHanging == ASSUME VisitInv, Hanging, RegroupInto PROVE Hanging'
<1>1. ShapeInv /\ size \in Nodes /\ kids \in [Nodes -> Seq(Nodes)] /\ NamedChild
  BY DEF VisitInv, NodeInv, ShapeInv, TypeOK
<1>2. PICK m : m = Moved OBVIOUS
<1>3. PICK g : g = Group OBVIOUS
<1>4. /\ pc' = "regroup" /\ m \in 2 .. size /\ m \in Nodes /\ g \in Nodes /\ g # m
      /\ parent'[m] = g /\ name'[m] \notin Lproj
      /\ \A n \in Nodes : n # m => name'[n] = name[n] /\ parent'[n] = parent[n]
      /\ size' = size
  BY <1>1, <1>2, <1>3, RegroupIntoEffect
<1>5. name[g] \notin Lproj
  <2>1. Regroups /\ pc = "regroup" /\ g # Nil BY <1>3 DEF RegroupInto, Regroups
  <2>2. parent[Top.node] \in Nodes BY <1>1, <2>1, RegroupFacts
  <2>3. name[m] \in Names \ Lproj BY <1>1, <1>2, <2>1, MovedFacts
  <2>4. g = named[parent[Top.node]][name[m]] BY <1>2, <1>3 DEF Group
  <2>5. name[g] = name[m] \/ name[g] \notin Lproj BY <1>1, <2>1, <2>2, <2>3, <2>4 DEF NamedChild
  <2> QED BY <2>3, <2>5
<1>6. kids' = [kids EXCEPT ![g] = Append(@, m)] BY <1>2, <1>3 DEF RegroupInto, insert
<1>7. /\ StillHangs /\ Hangs(m, g)' /\ \A q \in Nodes : q # g => kids'[q] = kids[q]
  BY <1>1, <1>4, <1>6, InsertHangs
<1> SUFFICES ASSUME NEW n \in 2 .. size, name'[n] \notin Lproj \/ kids'[n] # << >>
             PROVE  parent'[n] \in Nodes /\ Hangs(n, parent[n])'
  BY <1>4 DEF Hanging
<1>8. CASE n = m BY <1>4, <1>7, <1>8 DEF Hangs
<1>9. CASE n # m
  <2>1. n \in Nodes BY <1>1 DEF Nodes
  <2>2. name'[n] = name[n] /\ parent'[n] = parent[n] BY <1>4, <1>9, <2>1
  <2>3. name[n] \notin Lproj \/ kids[n] # << >> BY <1>5, <1>7, <2>1, <2>2
  <2>4. parent[n] \in Nodes /\ Hangs(n, parent[n]) BY <2>3 DEF Hanging
  <2>5. PICK p \in Nodes : p = parent[n] BY <2>4
  <2>6. Hangs(n, p)' BY <1>7, <2>4, <2>5 DEF StillHangs
  <2> QED BY <2>2, <2>5, <2>6 DEF Hangs
<1> QED BY <1>8, <1>9

\* A group hangs beside the directory, and the file moved hangs in the group.
LEMMA RegroupNewHangs ==
  ASSUME ShapeInv, RegroupNew
  PROVE  /\ StillHangs
         /\ \A m, g, p : m = Moved /\ g = size + 1 /\ p = parent[Top.node] =>
              Hangs(g, p)' /\ Hangs(m, g)'
<1>1. size \in Nodes /\ kids \in [Nodes -> Seq(Nodes)] BY DEF ShapeInv, TypeOK
<1>2. PICK m : m = Moved OBVIOUS
<1>3. PICK g : g = size + 1 OBVIOUS
<1>4. PICK p : p = parent[Top.node] OBVIOUS
<1>5. /\ p \in Nodes /\ g \in Nodes /\ m \in Nodes /\ g # p
      /\ \A q \in Nodes : q # g /\ q # p => kids'[q] = kids[q]
      /\ \A q \in Nodes : \A x \in DOMAIN kids[q] : q # g
  BY <1>1, <1>2, <1>3, <1>4, RegroupNewEffect
<1>6. kids' = [kids EXCEPT ![p] = Append(@, g), ![g] = <<m>>]
  BY <1>2, <1>3, <1>4 DEF RegroupNew
<1>7. kids'[p] = Append(kids[p], g) /\ kids'[g] = <<m>> /\ kids[p] \in Seq(Nodes)
  BY <1>1, <1>5, <1>6
<1>8. Hangs(m, g)'
  <2>1. 1 \in DOMAIN <<m>> /\ <<m>>[1] = m OBVIOUS
  <2> QED BY <1>7, <2>1 DEF Hangs
<1>9. /\ DOMAIN Append(kids[p], g) = 1 .. Len(kids[p]) + 1 /\ Len(kids[p]) \in Nat
      /\ DOMAIN kids[p] = 1 .. Len(kids[p])
      /\ \A x \in 1 .. Len(kids[p]) : Append(kids[p], g)[x] = kids[p][x]
      /\ Append(kids[p], g)[Len(kids[p]) + 1] = g
  BY <1>5, <1>7, AppendProps, SeqDomain
<1>10. Hangs(g, p)'
  <2>1. Len(kids[p]) + 1 \in DOMAIN kids'[p] /\ kids'[p][Len(kids[p]) + 1] = g BY <1>7, <1>9
  <2> QED BY <2>1 DEF Hangs
<1>11. StillHangs
  <2> SUFFICES ASSUME NEW q \in Nodes, NEW n, NEW x \in DOMAIN kids[q], kids[q][x] = n
               PROVE  \E y \in DOMAIN kids'[q] : kids'[q][y] = n
    BY DEF StillHangs, Hangs
  <2>1. CASE q = p
    <3>1. x \in DOMAIN kids'[p] /\ kids'[p][x] = n BY <1>7, <1>9, <2>1
    <3> QED BY <2>1, <3>1
  <2>2. CASE q # p BY <1>5, <2>2
  <2> QED BY <2>1, <2>2
<1> QED BY <1>2, <1>3, <1>4, <1>8, <1>10, <1>11

LEMMA RegroupNewHanging == ASSUME VisitInv, Hanging, RegroupNew PROVE Hanging'
<1>1. ShapeInv /\ size \in Nodes BY DEF VisitInv, NodeInv, ShapeInv, TypeOK
<1>2. PICK m : m = Moved OBVIOUS
<1>3. PICK g : g = size + 1 OBVIOUS
<1>4. PICK p : p = parent[Top.node] OBVIOUS
<1>5. /\ pc' = "regroup" /\ m \in 2 .. size /\ p \in Nodes /\ g \in Nodes /\ g # m
      /\ parent'[m] = g /\ parent'[g] = p /\ name[p] \notin Lproj
      /\ \A n \in Nodes : n # m /\ n # g => name'[n] = name[n] /\ parent'[n] = parent[n]
      /\ \A q \in Nodes : q # g /\ q # p => kids'[q] = kids[q]
      /\ size' = g
  BY <1>1, <1>2, <1>3, <1>4, RegroupNewEffect
<1>6. StillHangs /\ Hangs(g, p)' /\ Hangs(m, g)' BY <1>1, <1>2, <1>3, <1>4, RegroupNewHangs
<1>7. \A n \in 2 .. size' : n = g \/ (n \in 2 .. size /\ n \in Nodes /\ n # g)
  BY <1>1, <1>3, <1>5 DEF Nodes
<1> SUFFICES ASSUME NEW n \in 2 .. size', name'[n] \notin Lproj \/ kids'[n] # << >>
             PROVE  parent'[n] \in Nodes /\ Hangs(n, parent[n])'
  BY <1>5 DEF Hanging
<1>8. CASE n = m BY <1>5, <1>6, <1>8 DEF Hangs
<1>9. CASE n = g BY <1>5, <1>6, <1>9 DEF Hangs
<1>10. CASE n # m /\ n # g
  <2>1. n \in 2 .. size /\ n \in Nodes BY <1>7, <1>10
  <2>2. name'[n] = name[n] /\ parent'[n] = parent[n] BY <1>5, <1>10, <2>1
  <2>3. name[n] \notin Lproj \/ kids[n] # << >> BY <1>5, <1>10, <2>1, <2>2
  <2>4. parent[n] \in Nodes /\ Hangs(n, parent[n]) BY <2>1, <2>3 DEF Hanging
  <2>5. PICK q \in Nodes : q = parent[n] BY <2>4
  <2>6. Hangs(n, q)' BY <1>6, <2>4, <2>5 DEF StillHangs
  <2> QED BY <2>2, <2>5, <2>6 DEF Hangs
<1> QED BY <1>8, <1>9, <1>10

\* remove takes the directory out of one list and empties another.
LEMMA RegroupDoneHanging == ASSUME VisitInv, Hanging, MovedOut, RegroupDone PROVE Hanging'
<1>1. /\ ShapeInv /\ InListOnce /\ size \in Nodes /\ kids \in [Nodes -> Seq(Nodes)] /\ j \in Nat \ {0}
  BY DEF VisitInv, NodeInv, ShapeInv, TypeOK
<1>2. PICK d : d = Top.node OBVIOUS
<1>3. PICK p : p = parent[d] OBVIOUS
<1>4. /\ pc = "regroup" /\ pc' = "walk" /\ j > Len(kids[d])
      /\ kids' = [kids EXCEPT ![p] = Without(@, d), ![d] = << >>]
      /\ UNCHANGED <<name, parent, size>>
  BY <1>2, <1>3 DEF RegroupDone, remove
<1>5. /\ d \in Nodes /\ p \in Nodes /\ p # d /\ \E x \in DOMAIN kids[p] : kids[p][x] = d
      /\ name[d] \in Lproj /\ name[p] \notin Lproj
  BY <1>1, <1>2, <1>3, <1>4, RegroupFacts
<1>6. /\ kids'[p] = Without(kids[p], d) /\ kids'[d] = << >>
      /\ \A q \in Nodes : q # p /\ q # d => kids'[q] = kids[q]
  BY <1>1, <1>4, <1>5
<1>7. \A y \in DOMAIN kids[p] : kids[p][y] # d => \E x \in DOMAIN kids'[p] : kids'[p][x] = kids[p][y]
  <2>1. PICK m \in DOMAIN kids[p] : kids[p][m] = d BY <1>5
  <2>2. kids[p] \in Seq(Nodes) /\ \A x, y \in DOMAIN kids[p] : kids[p][x] = kids[p][y] => x = y
    BY <1>1, <1>5 DEF InListOnce
  <2>3. \A y \in DOMAIN kids[p] : y # m =>
          \E x \in DOMAIN Without(kids[p], kids[p][m]) : Without(kids[p], kids[p][m])[x] = kids[p][y]
    BY <2>2, WithoutCovers
  <2> QED BY <1>6, <2>1, <2>3
<1>8. \A x \in DOMAIN kids[d] : parent[kids[d][x]] # d
  <2> SUFFICES ASSUME NEW x \in DOMAIN kids[d] PROVE parent[kids[d][x]] # d OBVIOUS
  <2>1. kids[d] \in Seq(Nodes) BY <1>1, <1>5
  <2>2. x \in Nat /\ x <= Len(kids[d]) /\ Len(kids[d]) \in Nat BY <2>1
  <2>3. x < j BY <1>1, <1>4, <2>2
  <2> QED BY <1>2, <1>4, <2>3 DEF MovedOut
<1> SUFFICES ASSUME NEW n \in 2 .. size, name[n] \notin Lproj \/ kids'[n] # << >>
             PROVE  parent[n] \in Nodes /\ Hangs(n, parent[n])'
  BY <1>4 DEF Hanging, Hangs
<1>9. n \in Nodes BY <1>1 DEF Nodes
<1>10. n # d BY <1>5, <1>6
<1>11. name[n] \notin Lproj \/ kids[n] # << >> BY <1>5, <1>6, <1>9, <1>10
<1>12. parent[n] \in Nodes /\ Hangs(n, parent[n]) BY <1>11 DEF Hanging
<1>13. PICK q \in Nodes : q = parent[n] BY <1>12
<1>14. PICK y \in DOMAIN kids[q] : kids[q][y] = n BY <1>12, <1>13 DEF Hangs
<1>15. q # d BY <1>8, <1>13, <1>14
<1>16. \E x \in DOMAIN kids'[q] : kids'[q][x] = n
  <2>1. CASE q = p BY <1>7, <1>10, <1>14, <2>1
  <2>2. CASE q # p BY <1>6, <1>14, <1>15, <2>2
  <2> QED BY <2>1, <2>2
<1> QED BY <1>4, <1>13, <1>16 DEF Hangs

\* The file moved last is behind the loop, and hangs elsewhere.
LEMMA MovedOutStays ==
  ASSUME ShapeInv, MovedOut, Regroups, NEW d, NEW m, d = Top.node, m = Moved,
         parent'[m] # d, kids'[d] = kids[d], frames' = frames,
         \A x \in DOMAIN kids[d] : kids[d][x] # m => parent'[kids[d][x]] = parent[kids[d][x]]
  PROVE  MovedOut'
<1>1. pc = "regroup" /\ j' = j + 1 BY DEF Regroups
<1>2. j \in Nat /\ InListOnce /\ kids \in [Nodes -> Seq(Nodes)] BY DEF ShapeInv, TypeOK
<1>3. d \in Nodes BY <1>1, RegroupFacts
<1>4. j \in DOMAIN kids[d] /\ m = kids[d][j] BY MovedFacts
<1>5. Top' = Top BY DEF Top
<1> SUFFICES ASSUME NEW x \in DOMAIN kids[d], x < j + 1 PROVE parent'[kids[d][x]] # d
  BY <1>1, <1>5 DEF MovedOut
<1>6. CASE x = j BY <1>4, <1>6
<1>7. CASE x # j
  <2>1. x \in Nat
    <3>1. kids[d] \in Seq(Nodes) BY <1>2, <1>3
    <3> QED BY <3>1
  <2>2. x < j BY <1>2, <1>7, <2>1
  <2>3. parent[kids[d][x]] # d BY <1>1, <2>2 DEF MovedOut
  <2>4. kids[d][x] # m BY <1>2, <1>3, <1>4, <1>7 DEF InListOnce
  <2> QED BY <2>3, <2>4
<1> QED BY <1>6, <1>7

LEMMA StepMovedOut == ASSUME VisitInv, MovedOut, [Next]_vars PROVE MovedOut'
<1>1. ShapeInv /\ size \in Nodes /\ kids \in [Nodes -> Seq(Nodes)] /\ Made
  BY DEF VisitInv, NodeInv, ShapeInv, TypeOK
<1>2. CASE UNCHANGED vars
  <2>1. UNCHANGED <<parent, kids, pc, frames, j>> BY <1>2 DEF vars, fields, walk
  <2> QED BY <2>1 DEF MovedOut, Top
<1>3. CASE VisitBranch
  <2>1. pc = "walk" /\ (pc' = "regroup" => j' = 1) BY <1>3 DEF VisitBranch, HasNext
  <2>2. ShapeInv' BY <1>1, <1>3, VisitBranchShape
  <2> SUFFICES ASSUME pc' = "regroup", NEW x \in DOMAIN kids'[Top'.node], x < 1 PROVE FALSE
    BY <2>1 DEF MovedOut
  <2>3. Top'.node \in Nodes
    <3>1. /\ Current \in Nodes /\ frames \in Seq(Frame)
          /\ frames' = Append(frames, [node |-> Current, i |-> 1])
      BY <1>1, <1>3, CurrentChild DEF VisitBranch
    <3>2. Len(frames') = Len(frames) + 1 /\ frames'[Len(frames) + 1] = [node |-> Current, i |-> 1]
      BY <3>1 DEF Frame
    <3> QED BY <3>1, <3>2 DEF Top
  <2>4. kids'[Top'.node] \in Seq(Nodes)
    <3>1. kids' \in [Nodes -> Seq(Nodes)] BY <2>2 DEF ShapeInv, TypeOK
    <3> QED BY <2>3, <3>1
  <2>5. x \in 1 .. Len(kids'[Top'.node]) BY <2>4, SeqDomain
  <2> QED BY <2>5
<1>4. CASE RegroupInto
  <2>1. PICK d : d = Top.node OBVIOUS
  <2>2. PICK m : m = Moved OBVIOUS
  <2>3. PICK g : g = Group OBVIOUS
  <2>4. /\ d \in Nodes /\ m \in Nodes /\ g # d /\ parent'[m] = g
        /\ \A n \in Nodes : n # m => parent'[n] = parent[n]
        /\ \A q \in Nodes : q # g => kids'[q] = kids[q]
        /\ \A q \in Nodes : \A x \in DOMAIN kids[q] : kids[q][x] \in Nodes
        /\ frames' = frames
    BY <1>1, <1>4, <2>1, <2>2, <2>3, RegroupIntoEffect
  <2>5. Regroups BY <1>4 DEF RegroupInto
  <2>6. \A x \in DOMAIN kids[d] : kids[d][x] # m => parent'[kids[d][x]] = parent[kids[d][x]]
    BY <2>4
  <2>7. parent'[m] # d /\ kids'[d] = kids[d] BY <2>4
  <2> QED BY <1>1, <2>1, <2>2, <2>4, <2>5, <2>6, <2>7, MovedOutStays
<1>5. CASE RegroupNew
  <2>1. PICK d : d = Top.node OBVIOUS
  <2>2. PICK m : m = Moved OBVIOUS
  <2>3. PICK g : g = size + 1 OBVIOUS
  <2>4. /\ d \in Nodes /\ m \in Nodes /\ g # d /\ parent'[m] = g
        /\ d # parent[d] /\ parent[d] \in Nodes
        /\ \A n \in Nodes : n # m /\ n # g => parent'[n] = parent[n]
        /\ \A q \in Nodes : q # g /\ q # parent[d] => kids'[q] = kids[q]
        /\ \A q \in Nodes : \A x \in DOMAIN kids[q] : kids[q][x] \in Nodes /\ kids[q][x] # g
        /\ frames' = frames
    BY <1>1, <1>5, <2>1, <2>2, <2>3, RegroupNewEffect
  <2>5. Regroups BY <1>5 DEF RegroupNew
  <2>6. \A x \in DOMAIN kids[d] : kids[d][x] # m => parent'[kids[d][x]] = parent[kids[d][x]]
    BY <2>4
  <2>7. parent'[m] # d /\ kids'[d] = kids[d] BY <2>4
  <2> QED BY <1>1, <2>1, <2>2, <2>4, <2>5, <2>6, <2>7, MovedOutStays
<1>6. CASE /\ Next /\ ~VisitBranch /\ ~RegroupInto /\ ~RegroupNew
  <2>1. pc' # "regroup"
    BY <1>6 DEF Next, AddAbsolute, AddUp, AddExisting, AddNew, AddsTo, FileAdded, AllAdded,
       StartPass, VisitLeaf, HasNext, Return, EndPass, RegroupDone
  <2> QED BY <2>1 DEF MovedOut
<1> QED BY <1>2, <1>3, <1>4, <1>5, <1>6

-----------------------------------------------------------------------------

\* When the regrouping ends no .lproj directory has anything in it: all that
\* had something were visited, for what is above them moves nowhere.
LEMMA AllEmptied ==
  ASSUME VisitInv, VisitInv', Hanging, Emptied, EndPass, pass = "localize"
  PROVE  \A d \in Nodes : name[d] \in Lproj => kids[d] = << >>
<1>1. /\ pc = "walk" /\ pc' = "start" /\ pass' = "list" /\ frames' = << >>
      /\ UNCHANGED <<name, path, kids, parent, size, visits>>
  BY DEF EndPass, NextPass, fields
<1>2. /\ Made /\ LprojBelow /\ Levels /\ Counted /\ size \in Nodes /\ kids \in [Nodes -> Seq(Nodes)]
  BY DEF VisitInv, NodeInv, ShapeInv, TypeOK
<1>3. ASSUME NEW p \in Nodes, p = Root \/ visits[p] = 1, NEW x \in DOMAIN kids[p]
      PROVE  visits[kids[p][x]] = 1 \/ (Under(path[kids[p][x]]) /\ name[kids[p][x]] \notin Lproj)
  <2>1. Started' /\ FrameNodes' = {}
    <3>1. Len(frames') = 0 BY <1>1
    <3> QED BY <1>1, <3>1 DEF Started, FrameNodes
  <2>2. Explored' BY DEF VisitInv
  <2>3. PICK c : c = kids[p][x] OBVIOUS
  <2>4. visits'[c] = 1 \/ MayHaveMoved(c)'
    BY <1>1, <1>3, <2>1, <2>2, <2>3 DEF Explored
  <2> QED BY <1>1, <2>3, <2>4 DEF MayHaveMoved, Under
<1> SUFFICES ASSUME NEW d \in Nodes, name[d] \in Lproj, kids[d] # << >> PROVE FALSE OBVIOUS
<1>4. visits[d] # 1
  <2>1. Walking /\ Dissolving = {} BY <1>1 DEF Walking, Dissolving
  <2> QED BY <2>1 DEF Emptied, Visited
<1>5. \A m \in Nodes : kids[m] # << >> => m = Root \/ m \in 2 .. size
  <2> SUFFICES ASSUME NEW m \in Nodes, kids[m] # << >>, m # Root PROVE m \in 2 .. size OBVIOUS
  <2>1. kids[m] \in Seq(Nodes) BY <1>2
  <2>2. Len(kids[m]) # 0 BY <2>1
  <2>3. ~(m > size) BY <1>2, <2>2 DEF Made
  <2> QED BY <1>2, <2>3 DEF Nodes, Root
<1> DEFINE Bad == {m \in Nodes \ {Root} : /\ kids[m] # << >> /\ visits[m] # 1
                                          /\ name[m] \in Lproj \/ ~Under(path[m])}
<1>6. ASSUME NEW m \in Bad PROVE parent[m] \in Bad
  <2>1. m \in 2 .. size BY <1>5
  <2>2. parent[m] \in Nodes /\ Hangs(m, parent[m]) BY <2>1 DEF Hanging
  <2>3. PICK p \in Nodes : p = parent[m] BY <2>2
  <2>4. PICK x \in DOMAIN kids[p] : kids[p][x] = m BY <2>2, <2>3 DEF Hangs
  <2>5. kids[p] # << >>
    <3>1. DOMAIN << >> = {} OBVIOUS
    <3> QED BY <2>4, <3>1
  <2>6. ~Under(path[p]) BY <1>2, <2>4 DEF LprojBelow
  <2>7. ~(p = Root \/ visits[p] = 1) 
    <3> SUFFICES ASSUME p = Root \/ visits[p] = 1 PROVE FALSE OBVIOUS
    <3>1. visits[m] = 1 \/ (Under(path[m]) /\ name[m] \notin Lproj) BY <1>3, <2>4
    <3> QED BY <3>1
  <2> QED BY <2>3, <2>5, <2>6, <2>7
<1>7. Bad = {}
  <2>1. Bad \in SUBSET Nodes OBVIOUS
  <2> HIDE DEF Bad
  <2> QED BY <1>2, <1>6, <2>1, AncestryEnds
<1>8. d # Root
  <2>1. name[Root] = Nil BY <1>2 DEF Made
  <2> QED BY <2>1
<1>9. d \in Bad BY <1>4, <1>8
<1> QED BY <1>7, <1>9

LEMMA StepEmptied ==
  ASSUME VisitInv, VisitInv', Hanging, Emptied, [Next]_vars PROVE Emptied'
<1>1. /\ ShapeInv /\ Made /\ Counted /\ Stack /\ kids \in [Nodes -> Seq(Nodes)] /\ size \in Nodes
  BY DEF VisitInv, NodeInv, ShapeInv, TypeOK
<1>2. CASE UNCHANGED vars
  <2>1. UNCHANGED <<name, kids, pc, pass, frames, visits>> BY <1>2 DEF vars, fields, walk
  <2> QED BY <2>1 DEF Emptied, Visited, Walking, Dissolving, Top
<1>3. CASE pc = "add" /\ Next
  <2>1. pass' = pass
    BY <1>3 DEF Next, AddAbsolute, AddUp, AddExisting, AddNew, AddsTo, FileAdded, AllAdded,
       StartPass, VisitLeaf, VisitBranch, HasNext, Return, EndPass, RegroupInto, RegroupNew,
       Regroups, RegroupDone, walk
  <2>2. pass = "sort" BY <1>1, <1>3 DEF Stack
  <2> QED BY <2>1, <2>2 DEF Emptied, Visited
<1>4. CASE StartPass
  <2>1. /\ pass' = pass /\ name' = name
        /\ pass = "list" => kids' = kids
        /\ pass = "localize" => visits' = [n \in Nodes |-> 0]
    BY <1>4 DEF StartPass, fields
  <2>2. pass = "localize" => \A n \in Nodes : visits'[n] # 1 BY <2>1
  <2> QED BY <2>1, <2>2 DEF Emptied, Visited
<1>5. CASE VisitLeaf \/ VisitBranch
  <2>1. /\ HasNext /\ pass' = pass /\ name' = name /\ pc = "walk"
        /\ pass # "sort" => kids' = kids
        /\ visits' = [visits EXCEPT ![Current] = @ + 1]
    BY <1>5 DEF VisitLeaf, VisitBranch, Onnode, HasNext
  <2>2. Dissolving = {} /\ Walking BY <2>1 DEF Dissolving, Walking
  <2>3. PICK c : c = Current OBVIOUS
  <2>4. c \in Nodes BY <1>1, <2>1, <2>3, CurrentChild
  <2>5. \A n \in Nodes : n # c => visits'[n] = visits[n] BY <1>1, <2>1, <2>3 DEF Counted
  <2> SUFFICES ASSUME NEW d \in Nodes, name[d] \in Lproj, Visited(d)' PROVE kids'[d] = << >>
    BY <2>1 DEF Emptied
  <2>6. CASE pass = "list" BY <2>1, <2>6 DEF Emptied, Visited
  <2>7. CASE pass = "localize"
    <3>1. visits'[d] = 1 /\ d \notin Dissolving' BY <2>1, <2>7 DEF Visited
    <3>2. CASE d # c
      <4>1. visits[d] = 1 BY <2>5, <3>1, <3>2
      <4> QED BY <2>1, <2>2, <2>7, <4>1 DEF Emptied, Visited
    <3>3. CASE d = c /\ VisitLeaf
      <4>1. Len(kids[d]) = 0 BY <2>3, <3>3 DEF VisitLeaf
      <4>2. kids[d] \in Seq(Nodes) BY <1>1
      <4> QED BY <2>1, <2>7, <4>1, <4>2
    <3>4. CASE d = c /\ VisitBranch
      <4>1. /\ frames' = Append(frames, [node |-> c, i |-> 1])
            /\ Localized(c) => pc' = "regroup"
        BY <2>3, <3>4 DEF VisitBranch
      <4>2. pc' = "regroup" BY <2>7, <3>4, <4>1 DEF Localized
      <4>3. frames \in Seq(Frame) BY <1>1, <2>1, CurrentChild
      <4>4. Top'.node = c BY <4>1, <4>3 DEF Top
      <4> QED BY <3>1, <3>4, <4>2, <4>4 DEF Dissolving
    <3> QED BY <1>5, <3>2, <3>3, <3>4
  <2> QED BY <2>1, <2>6, <2>7 DEF Visited
<1>6. CASE Return
  <2>1. UNCHANGED <<name, kids, pc, pass, visits>> /\ pc = "walk" BY <1>6 DEF Return, fields
  <2> QED BY <2>1 DEF Emptied, Visited, Walking, Dissolving
<1>7. CASE EndPass
  <2>1. UNCHANGED <<name, kids>> /\ pc' \in {"start", "done"} /\ (pass' = "list" => pass # "sort")
    BY <1>7 DEF EndPass, NextPass, fields
  <2>2. CASE pass = "localize" BY <1>7, <2>1, <2>2, AllEmptied DEF Emptied
  <2>3. CASE pass = "list" BY <2>1, <2>3 DEF Emptied, Visited
  <2>4. CASE pass' # "list" BY <2>1, <2>4 DEF Emptied, Visited, Walking
  <2>5. pass \in {"sort", "localize", "list"} BY <1>1 DEF ShapeInv, TypeOK
  <2> QED BY <2>1, <2>2, <2>3, <2>4, <2>5
<1>8. CASE RegroupInto
  <2>1. PICK m : m = Moved OBVIOUS
  <2>2. PICK g : g = Group OBVIOUS
  <2>3. /\ pc' = pc /\ g \in Nodes /\ g # m /\ name'[m] \notin Lproj
        /\ \A n \in Nodes : n # m => name'[n] = name[n]
        /\ \A q \in Nodes : q # g => kids'[q] = kids[q]
        /\ UNCHANGED <<pass, frames, visits>>
    BY <1>1, <1>8, <2>1, <2>2, RegroupIntoEffect
  <2>4. name[g] \notin Lproj
    <3>1. Regroups /\ pc = "regroup" /\ g # Nil BY <1>8, <2>2 DEF RegroupInto, Regroups
    <3>2. parent[Top.node] \in Nodes BY <1>1, <3>1, RegroupFacts
    <3>3. name[m] \in Names \ Lproj BY <1>1, <2>1, <3>1, MovedFacts
    <3>4. g = named[parent[Top.node]][name[m]] BY <2>1, <2>2 DEF Group
    <3>5. name[g] = name[m] \/ name[g] \notin Lproj
      BY <1>1, <3>1, <3>2, <3>3, <3>4 DEF ShapeInv, NamedChild
    <3> QED BY <3>3, <3>5
  <2> SUFFICES ASSUME NEW q \in Nodes, name'[q] \in Lproj, Visited(q)' PROVE kids'[q] = << >>
    BY DEF Emptied
  <2>5. q # m /\ q # g /\ name[q] \in Lproj BY <2>3, <2>4
  <2>6. Visited(q) BY <2>3 DEF Visited, Walking, Dissolving, Top
  <2> QED BY <2>3, <2>5, <2>6 DEF Emptied
<1>9. CASE RegroupNew
  <2>1. PICK m : m = Moved OBVIOUS
  <2>2. PICK g : g = size + 1 OBVIOUS
  <2>3. PICK p : p = parent[Top.node] OBVIOUS
  <2>4. /\ pc' = pc /\ g # m /\ name'[m] \notin Lproj /\ name'[g] \notin Lproj
        /\ name[p] \notin Lproj
        /\ \A n \in Nodes : n # m /\ n # g => name'[n] = name[n]
        /\ \A q \in Nodes : q # g /\ q # p => kids'[q] = kids[q]
        /\ UNCHANGED <<pass, frames, visits>>
    BY <1>1, <1>9, <2>1, <2>2, <2>3, RegroupNewEffect
  <2> SUFFICES ASSUME NEW q \in Nodes, name'[q] \in Lproj, Visited(q)' PROVE kids'[q] = << >>
    BY DEF Emptied
  <2>5. q # m /\ q # g /\ name[q] \in Lproj BY <2>4
  <2>6. q # p BY <2>4, <2>5
  <2>7. Visited(q) BY <2>4 DEF Visited, Walking, Dissolving, Top
  <2> QED BY <2>4, <2>5, <2>6, <2>7 DEF Emptied
<1>10. CASE RegroupDone
  <2>1. PICK d : d = Top.node OBVIOUS
  <2>2. PICK p : p = parent[d] OBVIOUS
  <2>3. /\ pc = "regroup" /\ pc' = "walk"
        /\ kids' = [kids EXCEPT ![p] = Without(@, d), ![d] = << >>]
        /\ UNCHANGED <<name, pass, frames, visits>>
    BY <1>10, <2>1, <2>2 DEF RegroupDone, remove, walk
  <2>4. /\ d \in Nodes /\ p \in Nodes /\ p # d /\ name[p] \notin Lproj /\ Dissolving = {d}
    BY <1>1, <2>1, <2>2, <2>3, RegroupFacts
  <2>5. kids'[d] = << >> /\ \A q \in Nodes : q # p /\ q # d => kids'[q] = kids[q]
    BY <1>1, <2>3, <2>4
  <2> SUFFICES ASSUME NEW q \in Nodes, name[q] \in Lproj, Visited(q)', q # d PROVE kids'[q] = << >>
    BY <2>3, <2>5 DEF Emptied
  <2>6. q # p BY <2>4
  <2>7. Visited(q) BY <2>3, <2>4 DEF Visited, Walking
  <2> QED BY <2>5, <2>6, <2>7 DEF Emptied
<1>11. CASE AddAbsolute \/ AddUp \/ AddExisting \/ AddNew \/ FileAdded \/ AllAdded
  <2>1. pc = "add" BY <1>11 DEF AddAbsolute, AddUp, AddExisting, AddNew, AddsTo, FileAdded, AllAdded
  <2> QED BY <1>3, <1>11, <2>1 DEF Next
<1> QED BY <1>2, <1>4, <1>5, <1>6, <1>7, <1>8, <1>9, <1>10, <1>11 DEF Next

LEMMA InitHangs == Init => HangInv
<1> SUFFICES ASSUME Init PROVE HangInv OBVIOUS
<1>1. size = 1 /\ pc = "add" /\ kids = [n \in Nodes |-> << >>] BY DEF Init
<1>2. 2 .. size = {} BY <1>1
<1> QED BY <1>1, <1>2 DEF HangInv, Hanging, MovedOut, Emptied

LEMMA HangInvariant == Spec => []HangInv
<1>1. ASSUME VisitInv, VisitInv', HangInv, [Next]_vars PROVE HangInv'
  <2>1. Hanging /\ MovedOut /\ Emptied BY <1>1 DEF HangInv
  <2>2. Hanging'
    BY <1>1, <2>1, QuietHanging, AddNewHanging, RegroupIntoHanging, RegroupNewHanging,
       RegroupDoneHanging
  <2> QED BY <1>1, <2>1, <2>2, StepMovedOut, StepEmptied DEF HangInv
<1> QED BY <1>1, InitHangs, VisitInvariant, PTL DEF Spec

-----------------------------------------------------------------------------
(* The tree when the generator has done                                      *)

\* The nodes have a greatest depth.
LEMMA DepthBound ==
  ASSUME NEW depth \in [Nodes -> Nat]
  PROVE  \E b \in Nat : \A n \in Nodes : depth[n] < b
<1> DEFINE Upto(m, b) == \A n \in Nodes : n <= m => depth[n] < b
           T == {m \in Nat : \E b \in Nat : Upto(m, b)}
<1>1. 0 \in T
  <2>1. Upto(0, 0) BY DEF Nodes
  <2> QED BY <2>1
<1>2. ASSUME NEW m \in T PROVE m + 1 \in T
  <2>1. m \in Nat /\ m + 1 \in Nat OBVIOUS
  <2>2. PICK b \in Nat : Upto(m, b) OBVIOUS
  <2>3. CASE m + 1 \in Nodes
    <3>1. PICK e \in Nat : e = depth[m + 1] BY <2>3
    <3>2. PICK c \in Nat : b <= c /\ e < c
      <4>1. b + e + 1 \in Nat /\ b <= b + e + 1 /\ e < b + e + 1 OBVIOUS
      <4> QED BY <4>1
    <3>3. Upto(m + 1, c)
      <4> SUFFICES ASSUME NEW n \in Nodes, n <= m + 1 PROVE depth[n] < c OBVIOUS
      <4>1. n \in Nat BY DEF Nodes
      <4>2. depth[n] \in Nat OBVIOUS
      <4>3. CASE n = m + 1 BY <3>1, <3>2, <4>3
      <4>4. CASE n <= m
        <5>1. depth[n] < b BY <2>2, <4>4
        <5> QED BY <3>2, <4>2, <5>1
      <4> QED BY <2>1, <4>1, <4>3, <4>4
    <3> HIDE DEF Upto
    <3> QED BY <2>1, <3>3
  <2>4. CASE m + 1 \notin Nodes
    <3>1. \A n \in Nodes : n <= m + 1 => n <= m BY <2>1, <2>4 DEF Nodes
    <3>2. Upto(m + 1, b) BY <2>2, <3>1
    <3> HIDE DEF Upto
    <3> QED BY <2>1, <3>2
  <2> QED BY <2>3, <2>4
<1>3. MaxNodes \in T
  <2>1. T \in SUBSET Nat OBVIOUS
  <2> HIDE DEF T
  <2> QED BY <1>1, <1>2, <2>1, SetInduction
<1>4. PICK b \in Nat : Upto(MaxNodes, b) BY <1>3
<1>5. \A n \in Nodes : n <= MaxNodes BY DEF Nodes
<1> QED BY <1>4, <1>5

\* The names from the root to a node end with its own.
LEMMA TrailMeaning ==
  ASSUME Levels, parent \in [Nodes -> Nodes \cup {Nil}]
  PROVE  \A n \in Nodes :
           Trail[n] = IF parent[n] = Nil THEN << >> ELSE Append(Trail[parent[n]], name[n])
<1>1. PICK depth \in [Nodes -> Nat] : Level(depth, parent) BY DEF Levels
<1>2. PICK top \in Nat : \A n \in Nodes : depth[n] < top BY DepthBound
<1> DEFINE Body(g, n) == IF parent[n] = Nil THEN << >> ELSE Append(g[parent[n]], name[n])
           Below(b) == {n \in Nodes : depth[n] < b}
           Part(b, g) == g = [n \in Below(b) |-> Body(g, n)]
           T == {b \in Nat : \E g : Part(b, g)}
           trail == CHOOSE g : g = [n \in Nodes |-> Body(g, n)]
<1>3. \A n \in Nodes : depth[n] \in Nat OBVIOUS
<1>4. \A n \in Nodes : parent[n] # Nil => parent[n] \in Nodes /\ depth[n] = depth[parent[n]] + 1
  BY <1>1 DEF Level
<1>5. 0 \in T
  <2> DEFINE g == [n \in Below(0) |-> << >>]
  <2>1. Below(0) = {} BY <1>3
  <2>2. g = [n \in Below(0) |-> Body(g, n)] BY <2>1
  <2>3. \E h : Part(0, h) BY <2>2
  <2> QED BY <2>3
<1>6. ASSUME NEW b \in T PROVE b + 1 \in T
  <2>1. b \in Nat /\ b + 1 \in Nat OBVIOUS
  <2>2. PICK g : Part(b, g) OBVIOUS
  <2> DEFINE h == [n \in Below(b + 1) |-> Body(g, n)]
  <2>3. \A n \in Below(b) : g[n] = Body(g, n) BY <2>2
  <2>4. \A n \in Below(b) : n \in Below(b + 1) BY <1>3, <2>1
  <2>5. \A n \in Below(b + 1) : parent[n] # Nil => parent[n] \in Below(b) BY <1>3, <1>4, <2>1
  <2>6. \A n \in Below(b) : h[n] = g[n] BY <2>3, <2>4
  <2> HIDE DEF Below
  <2>7. \A n \in Below(b + 1) : Body(g, n) = Body(h, n)
    <3> SUFFICES ASSUME NEW n \in Below(b + 1) PROVE Body(g, n) = Body(h, n) OBVIOUS
    <3>1. parent[n] # Nil => h[parent[n]] = g[parent[n]] BY <2>5, <2>6
    <3> HIDE DEF h
    <3> QED BY <3>1
  <2>8. h = [n \in Below(b + 1) |-> Body(h, n)]
    <3>1. h = [n \in Below(b + 1) |-> Body(g, n)] OBVIOUS
    <3> HIDE DEF h, Body
    <3> QED BY <2>7, <3>1
  <2>9. \E f : Part(b + 1, f)
    <3> HIDE DEF h, Body
    <3> QED BY <2>8
  <2> HIDE DEF Part
  <2> QED BY <2>1, <2>9
<1>7. top \in T
  <2>1. T \in SUBSET Nat OBVIOUS
  <2> HIDE DEF T
  <2> QED BY <1>5, <1>6, <2>1, SetInduction
<1>8. Below(top) = Nodes BY <1>2
<1>9. trail = [n \in Nodes |-> Body(trail, n)]
  <2>1. PICK g : Part(top, g) BY <1>7
  <2>2. g = [n \in Nodes |-> Body(g, n)] BY <1>8, <2>1
  <2> HIDE DEF Body, Below
  <2> QED BY <2>2
<1>10. Trail = trail BY DEF Trail
<1> HIDE DEF trail
<1>11. \A n \in Nodes : Trail[n] = Body(Trail, n)
  <2> HIDE DEF Body
  <2> QED BY <1>9, <1>10
<1> QED BY <1>11

\* Nor does going on in steps of one or two.
LEMMA AncestryEndsByTwo ==
  ASSUME Levels, NEW Bad \in SUBSET Nodes,
         \A n \in Bad : \/ parent[n] \in Bad
                        \/ parent[n] \in Nodes /\ parent[parent[n]] \in Bad
  PROVE  Bad = {}
<1> DEFINE All == Bad \cup {n \in Nodes : parent[n] \in Bad}
<1>1. \A n \in All : parent[n] \in All OBVIOUS
<1>2. All \in SUBSET Nodes OBVIOUS
<1>3. All = {}
  <2> HIDE DEF All
  <2> QED BY <1>1, <1>2, AncestryEnds
<1> QED BY <1>3

\* No other name is in front of the .lproj directory.
LEMMA ByLanguageFront ==
  ASSUME NEW s \in Seq(Names), NEW l \in Lproj, NEW e \in Names,
         Lone(Append(Append(s, l), e))
  PROVE  ByLanguage(s) = s
<1> DEFINE N == Len(s)
<1>1. l \in Names BY NameAssumption
<1>2. PICK v \in Seq(Names) : v = Append(s, l) BY <1>1, AppendMeaning
<1>3. N \in Nat /\ Len(v) = N + 1 /\ v[N + 1] = l /\ \A x \in 1 .. N : v[x] = s[x]
  BY <1>1, <1>2, AppendMeaning
<1>4. PICK t \in Seq(Names) : t = Append(v, e) BY <1>2, AppendMeaning
<1>5. Len(t) = N + 2 /\ \A x \in 1 .. N + 1 : t[x] = v[x] BY <1>3, <1>4, AppendMeaning
<1>6. Lone(t) BY <1>2, <1>4
<1> HIDE DEF N
<1>7. ASSUME NEW x \in 1 .. N, s[x] \in Lproj PROVE FALSE
  <2>1. t[x] = s[x] /\ t[N + 1] = l /\ x \in 1 .. Len(t) /\ N + 1 \in 1 .. Len(t) /\ x # N + 1
    BY <1>3, <1>5
  <2> QED BY <1>6, <1>7, <2>1 DEF Lone
<1>8. LprojDirs(s) = {}
  <2>1. 1 .. N - 1 \subseteq 1 .. N BY <1>3
  <2> QED BY <1>7, <2>1 DEF LprojDirs, N
<1> QED BY <1>8 DEF ByLanguage

\* What a path is shown as begins what the file is shown as that it was made for.
LEMMA NodePath ==
  ASSUME VisitInv, PlaceInv, NEW n \in Nodes, path[n] # << >>
  PROVE  /\ Shown(path[n]) \in Seq(Names) /\ Lone(Shown(path[n]))
         /\ \E f \in DOMAIN files :
              /\ Shown(files[f]) \in Seq(Names) /\ Lone(Shown(files[f]))
              /\ Begins(Shown(path[n]), Shown(files[f]))
<1> DEFINE S == Names \cup {Up, Slash}
<1>1. files \in Projects BY DEF VisitInv, NodeInv, ShapeInv, TypeOK
<1>2. PICK f \in DOMAIN files : \E l \in 0 .. Len(files[f]) : path[n] = SubSeq(files[f], 1, l)
  BY DEF PlaceInv, PathsOfFiles
<1>3. PICK l \in 0 .. Len(files[f]) : path[n] = SubSeq(files[f], 1, l) BY <1>2
<1>4. files \in Seq(Seq(S)) BY <1>1, PathAssumption
<1>5. files[f] \in Seq(S) BY <1>4
<1>6. PICK s \in Seq(S) : s = files[f] BY <1>5
<1>7. Lone(s)
  <2>1. \A x, y \in DOMAIN s : s[x] \in Lproj /\ s[y] \in Lproj => x = y
    BY <1>1, <1>6, PathAssumption
  <2> QED BY <2>1 DEF Lone
<1>8. Lone(Shown(s)) /\ Shown(s) \in Seq(Names) BY <1>7, ShownLone, ShownNames
<1>9. l \in Nat /\ l <= Len(s) BY <1>3, <1>6
<1>10. Begins(Filter(SubSeq(s, 1, l), Names), Filter(s, Names)) BY <1>9, FilterBegins
<1>11. Begins(Shown(path[n]), Shown(s)) BY <1>3, <1>6, <1>10 DEF Shown
<1>12. Shown(path[n]) \in Seq(Names)
  <2>1. path[n] \in Seq(S) BY DEF VisitInv, NodeInv, ShapeInv, TypeOK
  <2> QED BY <2>1, ShownNames
<1>13. Lone(Shown(path[n])) BY <1>8, <1>11, <1>12, BeginsLone
<1> QED BY <1>6, <1>8, <1>11, <1>12, <1>13

\* In the finished tree nothing is below an .lproj directory.
LEMMA NoLprojLeft ==
  ASSUME VisitInv, HangInv, pc = "done", NEW n \in 2 .. size, name[n] \notin Lproj
  PROVE  /\ parent[n] \in Nodes /\ Hangs(n, parent[n])
         /\ kids[parent[n]] # << >> /\ name[parent[n]] \notin Lproj
<1>1. parent[n] \in Nodes /\ Hangs(n, parent[n]) BY DEF HangInv, Hanging
<1>2. kids[parent[n]] # << >>
  <2>1. DOMAIN << >> = {} OBVIOUS
  <2> QED BY <1>1, <2>1 DEF Hangs
<1>3. pass = "list" BY DEF VisitInv, Stack
<1> QED BY <1>1, <1>2, <1>3 DEF HangInv, Emptied, Visited

\* A node outside of .lproj directories has a path that ends outside.
LEMMA NodeEnds ==
  ASSUME VisitInv, PlaceInv, NEW n \in 2 .. size, n \in Nodes, name[n] \notin Lproj, path[n] # << >>
  PROVE  EndsOutside(Shown(path[n]))
<1>1. InPlace(n) \/ Displaced(n) BY DEF PlaceInv, Placed
<1>2. name[n] \in Names /\ path \in [Nodes -> Seq(Names \cup {Up, Slash})]
  BY DEF VisitInv, NodeInv, ShapeInv, Made, TypeOK
<1>3. ASSUME NEW s \in Seq(Names), NEW e \in Names, e \notin Lproj, Shown(path[n]) = Append(s, e)
      PROVE  EndsOutside(Shown(path[n]))
  <2>1. Len(Append(s, e)) = Len(s) + 1 /\ Append(s, e)[Len(s) + 1] = e BY AppendMeaning
  <2> QED BY <1>3, <2>1 DEF EndsOutside
<1>4. CASE InPlace(n)
  <2>1. parent[n] \in Nodes /\ Shown(path[n]) = Append(Shown(path[parent[n]]), name[n])
    BY <1>4 DEF InPlace
  <2>2. Shown(path[parent[n]]) \in Seq(Names)
    <3>1. path[parent[n]] \in Seq(Names \cup {Up, Slash}) BY <1>2, <2>1
    <3> QED BY <3>1, ShownNames
  <2> QED BY <1>2, <1>3, <2>1, <2>2
<1>5. CASE Displaced(n)
  <2>1. PICK g, p \in Nodes : \E l \in Lproj : DisplacedFrom(n, g, p, l) BY <1>5 DEF Displaced
  <2>2. PICK l \in Lproj : DisplacedFrom(n, g, p, l) BY <2>1
  <2>3. /\ name[g] \in Names \ Lproj
        /\ Shown(path[n]) = Append(Append(Shown(path[p]), l), name[g])
    BY <2>2 DEF DisplacedFrom
  <2>4. Append(Shown(path[p]), l) \in Seq(Names)
    <3>1. path[p] \in Seq(Names \cup {Up, Slash}) BY <1>2
    <3>2. Shown(path[p]) \in Seq(Names) BY <3>1, ShownNames
    <3>3. l \in Names BY NameAssumption
    <3> QED BY <3>2, <3>3
  <2> QED BY <1>3, <2>3, <2>4
<1> QED BY <1>1, <1>4, <1>5

\* Where a node with a path, or the root, is, if it is not below .lproj.
LEMMA OrigFacts ==
  ASSUME VisitInv, PlaceInv, NEW p \in Nodes, Orig(p), name[p] \notin Lproj
  PROVE  /\ Shown(path[p]) \in Seq(Names) /\ EndsOutside(Shown(path[p]))
         /\ p = Root \/ (p \in 2 .. size /\ path[p] # << >>)
         /\ p = Root => Trail[p] = Display(path[p])
<1>1. /\ path \in [Nodes -> Seq(Names \cup {Up, Slash})] /\ size \in Nodes
      /\ path[Root] = << >> /\ parent[Root] = Nil
      /\ Levels /\ parent \in [Nodes -> Nodes \cup {Nil}]
  BY DEF VisitInv, NodeInv, ShapeInv, Parents, TypeOK
<1>2. path[p] \in Seq(Names \cup {Up, Slash}) BY <1>1
<1>3. Shown(path[p]) \in Seq(Names) BY <1>2, ShownNames
<1>4. CASE p = Root
  <2>1. Len(path[p]) = 0 BY <1>1, <1>4
  <2>2. Shown(path[p]) = << >> BY <1>2, <2>1, FilterEmpty DEF Shown
  <2>3. EndsOutside(<< >>) BY DEF EndsOutside
  <2>4. Trail[p] = << >> BY <1>1, <1>4, TrailMeaning
  <2>5. LprojDirs(<< >>) = {} BY DEF LprojDirs
  <2>6. ByLanguage(<< >>) = << >> BY <2>5 DEF ByLanguage
  <2> QED BY <1>3, <1>4, <2>2, <2>3, <2>4, <2>6 DEF Display
<1>5. CASE p # Root
  <2>1. path[p] # << >> BY <1>5 DEF Orig
  <2>2. ~(p > size) BY <2>1 DEF PlaceInv, Pathless
  <2>3. p \in 2 .. size BY <1>1, <1>5, <2>2 DEF Nodes, Root
  <2> QED BY <1>3, <1>5, <2>1, <2>3, NodeEnds
<1> QED BY <1>4, <1>5

\* The names from the root to a node are what its path is shown as.
LEMMA TrailShown ==
  ASSUME VisitInv, PlaceInv, HangInv, pc = "done"
  PROVE  \A n \in 2 .. size : name[n] \notin Lproj /\ path[n] # << >> =>
           Trail[n] = Display(path[n])
<1>1. /\ Levels /\ parent \in [Nodes -> Nodes \cup {Nil}] /\ size \in Nodes
      /\ \A n \in 2 .. size : name[n] \in Names
  BY DEF VisitInv, NodeInv, ShapeInv, Made, TypeOK
<1>2. 2 .. size \subseteq Nodes BY <1>1 DEF Nodes
<1>3. Nil \notin Nodes BY DEF Nodes, Nil
<1>4. \A n \in Nodes : parent[n] \in Nodes => Trail[n] = Append(Trail[parent[n]], name[n])
  BY <1>1, <1>3, TrailMeaning
<1> DEFINE Bad == {n \in 2 .. size : /\ name[n] \notin Lproj /\ path[n] # << >>
                                     /\ Trail[n] # Display(path[n])}
<1>5. ASSUME NEW n \in Bad, NEW p \in Nodes, p \notin Bad, Orig(p), name[p] \notin Lproj
      PROVE  Trail[p] = ByLanguage(Shown(path[p]))
  BY <1>5, OrigFacts DEF Display
<1>6. ASSUME NEW n \in Bad
      PROVE  \/ parent[n] \in Bad
             \/ parent[n] \in Nodes /\ parent[parent[n]] \in Bad
  <2>1. /\ n \in 2 .. size /\ n \in Nodes /\ name[n] \notin Lproj /\ path[n] # << >>
        /\ Trail[n] # ByLanguage(Shown(path[n]))
    BY <1>2 DEF Display
  <2>2. Lone(Shown(path[n])) BY <2>1, NodePath
  <2>3. parent[n] \in Nodes /\ name[parent[n]] \notin Lproj BY <2>1, NoLprojLeft
  <2>4. CASE InPlace(n)
    <3>1. PICK p \in Nodes : p = parent[n] BY <2>3
    <3>2. Orig(p) /\ Shown(path[n]) = Append(Shown(path[p]), name[n]) BY <2>4, <3>1 DEF InPlace
    <3>3. Shown(path[p]) \in Seq(Names) /\ EndsOutside(Shown(path[p]))
      BY <2>3, <3>1, <3>2, OrigFacts
    <3> SUFFICES ASSUME p \notin Bad PROVE FALSE BY <3>1
    <3>4. Trail[p] = ByLanguage(Shown(path[p])) BY <1>5, <2>3, <3>1, <3>2
    <3>5. PICK s \in Seq(Names) : s = Shown(path[p]) BY <3>3
    <3>6. PICK e \in Names : e = name[n] BY <1>1, <2>1
    <3>7. ByLanguage(Append(s, e)) = Append(ByLanguage(s), e)
      BY <2>2, <3>2, <3>3, <3>5, <3>6, ByLanguageAppend
    <3>8. Trail[n] = Append(Trail[p], e) BY <1>4, <2>1, <2>3, <3>1, <3>6
    <3> HIDE DEF Bad
    <3> QED BY <2>1, <3>2, <3>4, <3>5, <3>6, <3>7, <3>8
  <2>5. CASE Displaced(n)
    <3>1. PICK g, p \in Nodes : \E l \in Lproj : DisplacedFrom(n, g, p, l) BY <2>5 DEF Displaced
    <3>2. PICK l \in Lproj : DisplacedFrom(n, g, p, l) BY <3>1
    <3>3. /\ parent[n] = g /\ parent[g] = p /\ Orig(p) /\ name[p] \notin Lproj
          /\ name[g] \in Names /\ name[n] = Lang[l]
          /\ Shown(path[n]) = Append(Append(Shown(path[p]), l), name[g])
      BY <3>2 DEF DisplacedFrom
    <3>4. Shown(path[p]) \in Seq(Names) BY <3>3, OrigFacts
    <3> SUFFICES ASSUME p \notin Bad PROVE FALSE BY <3>3
    <3>5. Trail[p] = ByLanguage(Shown(path[p])) BY <1>5, <3>3
    <3>6. PICK s \in Seq(Names) : s = Shown(path[p]) BY <3>4
    <3>7. PICK e \in Names : e = name[g] BY <3>3
    <3>8. Lone(Append(Append(s, l), e)) BY <2>2, <3>3, <3>6, <3>7
    <3>9. ByLanguage(Append(Append(s, l), e)) = Append(Append(s, e), Lang[l])
      BY <3>8, ByLanguageSwap
    <3>10. ByLanguage(s) = s BY <3>8, ByLanguageFront
    <3>11. Trail[n] = Append(Trail[g], Lang[l]) BY <1>4, <2>1, <3>3
    <3>12. Trail[g] = Append(Trail[p], e) BY <1>4, <3>3, <3>7
    <3> HIDE DEF Bad
    <3> QED BY <2>1, <3>3, <3>5, <3>6, <3>7, <3>9, <3>10, <3>11, <3>12
  <2>6. InPlace(n) \/ Displaced(n) BY <2>1 DEF PlaceInv, Placed
  <2> QED BY <2>4, <2>5, <2>6
<1>7. Bad = {}
  <2>1. Bad \in SUBSET Nodes BY <1>2
  <2> HIDE DEF Bad
  <2> QED BY <1>1, <1>6, <2>1, AncestryEndsByTwo
<1> QED BY <1>7

\* But for empty .lproj directories every node hangs in the finished tree.
LEMMA AllHang ==
  ASSUME VisitInv, HangInv, pc = "done", NEW n \in 2 .. size, name[n] \notin Lproj
  PROVE  InTree[n]
<1>1. /\ Levels /\ parent \in [Nodes -> Nodes \cup {Nil}] /\ size \in Nodes
      /\ kids \in [Nodes -> Seq(Nodes)] /\ Made
  BY DEF VisitInv, NodeInv, ShapeInv, TypeOK
<1>2. 2 .. size \subseteq Nodes BY <1>1 DEF Nodes
<1>3. Nil \notin Nodes BY DEF Nodes, Nil
<1> DEFINE Bad == {m \in 2 .. size : ~InTree[m] /\ (name[m] \notin Lproj \/ kids[m] # << >>)}
<1>4. ASSUME NEW m \in Bad PROVE parent[m] \in Bad
  <2>1. /\ m \in 2 .. size /\ m \in Nodes /\ ~InTree[m]
        /\ name[m] \notin Lproj \/ kids[m] # << >>
    BY <1>2
  <2>2. parent[m] \in Nodes /\ Hangs(m, parent[m]) BY <2>1 DEF HangInv, Hanging
  <2>3. PICK p \in Nodes : p = parent[m] BY <2>2
  <2>4. ~InTree[p] BY <1>1, <1>3, <2>1, <2>2, <2>3, InTreeMeaning
  <2>5. p # Root BY <1>1, <2>4, InTreeMeaning
  <2>6. kids[p] # << >>
    <3>1. DOMAIN << >> = {} OBVIOUS
    <3> QED BY <2>2, <2>3, <3>1 DEF Hangs
  <2>7. Len(kids[p]) # 0
    <3>1. kids[p] \in Seq(Nodes) BY <1>1
    <3> QED BY <2>6, <3>1
  <2>8. ~(p > size) BY <1>1, <2>7 DEF Made
  <2>9. p \in 2 .. size BY <1>1, <2>5, <2>8 DEF Nodes, Root
  <2> QED BY <2>3, <2>4, <2>6, <2>9
<1>5. Bad = {}
  <2>1. Bad \in SUBSET Nodes BY <1>2
  <2> HIDE DEF Bad
  <2> QED BY <1>1, <1>4, <2>1, AncestryEnds
<1> QED BY <1>5

\* The node of a file ends as the path of the file does.
LEMMA FileEnds ==
  ASSUME PathsPlain, VisitInv, PlaceInv, NEW n \in 2 .. size, n \in Nodes,
         NEW f \in DOMAIN files, path[n] = files[f]
  PROVE  name[n] \notin Lproj /\ path[n] # << >>
<1> DEFINE S == Names \cup {Up, Slash}
<1>1. files \in Projects /\ path \in [Nodes -> Seq(S)] /\ name[n] \in Names
  BY DEF VisitInv, NodeInv, ShapeInv, Made, TypeOK
<1>2. PICK s \in Seq(S) : s = path[n] BY <1>1
<1>3. Len(s) \in Nat /\ Len(s) > 0 /\ s[Len(s)] \in Names \ Lproj
  BY <1>1, <1>2 DEF PathsPlain
<1>4. PICK m \in Nat : m < Len(s) /\ m + 1 = Len(s)
  <2> DEFINE m == Len(s) - 1
  <2>1. m \in Nat /\ m < Len(s) /\ m + 1 = Len(s) BY <1>3
  <2> HIDE DEF m
  <2> QED BY <2>1
<1>5. PICK t \in Seq(S) : t = SubSeq(s, 1, m) BY <1>4, FrontAppend
<1>6. PICK e \in Names \ Lproj : e = s[Len(s)] BY <1>3
<1>7. s = Append(t, e) BY <1>4, <1>5, <1>6, FrontAppend, WholeList
<1>8. Shown(s) = Append(Filter(t, Names), e) /\ Filter(t, Names) \in Seq(Names)
  <2>1. Filter(Append(t, e), Names) = Append(Filter(t, Names), e)
    <3>1. e \in S /\ e \in Names OBVIOUS
    <3> HIDE DEF S
    <3> QED BY <3>1, FilterAppend
  <2>2. Filter(t, Names) \in Seq(Names) BY ShownNames DEF Shown
  <2> QED BY <1>7, <2>1, <2>2 DEF Shown
<1>9. path[n] # << >> BY <1>2, <1>3
<1>10. InPlace(n) \/ Displaced(n) BY <1>9 DEF PlaceInv, Placed
<1>11. CASE InPlace(n)
  <2>1. PICK p \in Nodes : Shown(path[n]) = Append(Shown(path[p]), name[n])
    BY <1>11 DEF InPlace
  <2>2. path[p] \in Seq(S) BY <1>1
  <2>3. PICK u \in Seq(Names) : u = Shown(path[p]) BY <2>2, ShownNames
  <2>4. PICK v \in Seq(Names) : v = Filter(t, Names) BY <1>8
  <2>5. PICK x \in Names : x = name[n] BY <1>1
  <2>6. Append(u, x) = Append(v, e) BY <1>2, <1>8, <2>1, <2>3, <2>4, <2>5
  <2>7. /\ Len(u) \in Nat /\ Len(Append(u, x)) = Len(u) + 1 /\ Append(u, x)[Len(u) + 1] = x
        /\ Len(v) \in Nat /\ Len(Append(v, e)) = Len(v) + 1 /\ Append(v, e)[Len(v) + 1] = e
    BY AppendMeaning
  <2>8. Len(u) = Len(v) BY <2>6, <2>7
  <2> QED BY <1>9, <2>5, <2>6, <2>7, <2>8
<1>12. CASE Displaced(n)
  <2>1. PICK l \in Lproj : name[n] = Lang[l] BY <1>12 DEF Displaced, DisplacedFrom
  <2> QED BY <1>9, <2>1
<1> QED BY <1>10, <1>11, <1>12

\* A file gives way to one that is shown below it.
LEMMA ShadowedBelow ==
  ASSUME NEW f, NEW h \in DOMAIN files, NEW s \in Seq(Names), NEW t \in Seq(Names),
         NEW u \in Seq(Names), s = Display(files[f]), u = Display(files[h]),
         Begins(s, t), Len(s) < Len(t), Begins(t, u)
  PROVE  Shadowed(f)
<1>1. Begins(s, u) BY BeginsTransitive
<1>2. /\ Len(s) \in Nat /\ Len(t) \in Nat /\ Len(u) \in Nat /\ Len(t) <= Len(u)
      /\ \A x \in 1 .. Len(s) : u[x] = s[x]
  BY <1>1 DEF Begins
<1>3. Len(s) < Len(u) BY <1>2
<1>4. SubSeq(u, 1, Len(s)) = s
  <2>1. PICK v \in Seq(Names) : v = SubSeq(u, 1, Len(s)) BY <1>2, <1>3, FrontAppend
  <2>2. Len(v) = Len(s) /\ \A x \in 1 .. Len(s) : v[x] = u[x] BY <1>2, <1>3, <2>1, FrontAppend
  <2>3. v = s BY <1>2, <2>2, SameItems
  <2> QED BY <2>1, <2>3
<1> QED BY <1>3, <1>4 DEF Shadowed, IsPrefixOf

\* The node of a file has children only if the file gives way.
LEMMA FilesChildless ==
  ASSUME PathsPlain, VisitInv, PlaceInv, HangInv, pc = "done", NEW n \in 2 .. size,
         NEW f \in DOMAIN files, path[n] = files[f], ~Shadowed(f)
  PROVE  kids[n] = << >>
<1>1. /\ Levels /\ parent \in [Nodes -> Nodes \cup {Nil}] /\ size \in Nodes
      /\ kids \in [Nodes -> Seq(Nodes)] /\ Made /\ InListOfParent
  BY DEF VisitInv, NodeInv, ShapeInv, TypeOK
<1>2. n \in Nodes /\ 2 .. size \subseteq Nodes BY <1>1 DEF Nodes
<1>3. name[n] \notin Lproj /\ path[n] # << >> BY <1>2, FileEnds
<1>4. \A m \in Nodes : parent[m] \in Nodes => Trail[m] = Append(Trail[parent[m]], name[m])
  <2>1. Nil \notin Nodes BY DEF Nodes, Nil
  <2> QED BY <1>1, <2>1, TrailMeaning
<1>5. PICK s \in Seq(Names) : s = Shown(path[n]) /\ Lone(s) /\ EndsOutside(s)
  BY <1>2, <1>3, NodePath, NodeEnds
<1>6. PICK d \in Seq(Names) : d = ByLanguage(s) /\ Len(d) = Len(s) BY <1>5, ByLanguageNames
<1>7. d = Display(files[f]) /\ d = Trail[n] BY <1>3, <1>5, <1>6, TrailShown DEF Display
<1> SUFFICES ASSUME kids[n] # << >> PROVE FALSE OBVIOUS
<1>8. PICK c : c \in 2 .. size /\ c \in Nodes /\ parent[c] = n
  <2>1. PICK q \in Seq(Nodes) : q = kids[n] BY <1>1, <1>2
  <2>2. 1 \in DOMAIN q BY <2>1
  <2>3. q[1] \in 2 .. size BY <1>1, <1>2, <2>1, <2>2 DEF Made
  <2>4. Dissolving = {} BY DEF Dissolving
  <2>5. parent[q[1]] = n BY <1>1, <1>2, <2>1, <2>2, <2>4 DEF InListOfParent
  <2> QED BY <1>2, <2>3, <2>5
<1>9. name[c] \in Names BY <1>1, <1>8 DEF Made
\* What hangs there is shown where a file is shown.
<1>10. ASSUME NEW m \in 2 .. size, path[m] # << >>, Displaced(m),
              NEW t \in Seq(Names), t = Trail[m], Begins(d, t), Len(d) < Len(t)
       PROVE  FALSE
  <2>1. m \in Nodes BY <1>2
  <2>2. name[m] \notin Lproj BY <1>10 DEF Displaced, DisplacedFrom
  <2>3. t = ByLanguage(Shown(path[m])) BY <1>10, <2>2, TrailShown DEF Display
  <2>4. EndsOutside(Shown(path[m])) BY <1>10, <2>1, <2>2, NodeEnds
  <2>5. PICK v \in Seq(Names) : v = Shown(path[m]) BY <1>10, <2>1, NodePath
  <2>6. PICK h \in DOMAIN files : /\ Shown(files[h]) \in Seq(Names) /\ Lone(Shown(files[h]))
                                  /\ Begins(v, Shown(files[h]))
    BY <1>10, <2>1, <2>5, NodePath
  <2>7. PICK w \in Seq(Names) : w = Shown(files[h]) BY <2>6
  <2>8. PICK u \in Seq(Names) : u = ByLanguage(w) BY <2>6, <2>7, ByLanguageNames
  <2>9. Begins(t, u) BY <2>3, <2>4, <2>5, <2>6, <2>7, <2>8, ByLanguageBegins
  <2>10. u = Display(files[h]) BY <2>7, <2>8 DEF Display
  <2> QED BY <1>7, <1>10, <2>9, <2>10, ShadowedBelow
<1>11. CASE path[c] # << >> /\ InPlace(c)
  <2>1. PICK e \in Names : e = name[c] BY <1>9
  <2>2. Shown(path[c]) = Append(s, e) BY <1>5, <1>8, <1>11, <2>1 DEF InPlace
  <2>3. PICK h \in DOMAIN files : /\ Shown(files[h]) \in Seq(Names) /\ Lone(Shown(files[h]))
                                  /\ Begins(Append(s, e), Shown(files[h]))
    BY <1>8, <1>11, <2>2, NodePath
  <2>4. PICK w \in Seq(Names) : w = Shown(files[h]) BY <2>3
  <2>5. PICK v \in Seq(Names) : v = Append(s, e) /\ Len(v) = Len(s) + 1 /\ Begins(s, v)
    BY AppendMeaning, AppendBegins
  <2>6. Begins(s, w) BY <2>3, <2>4, <2>5, BeginsTransitive
  <2>7. PICK u \in Seq(Names) : u = ByLanguage(w) /\ Len(u) = Len(w)
    BY <2>3, <2>4, ByLanguageNames
  <2>8. Begins(d, u) BY <1>5, <1>6, <2>3, <2>4, <2>6, <2>7, ByLanguageBegins
  <2>9. Len(d) < Len(u)
    <3>1. Len(v) <= Len(w) BY <2>3, <2>4, <2>5 DEF Begins
    <3>2. Len(s) \in Nat /\ Len(w) \in Nat OBVIOUS
    <3> QED BY <1>6, <2>5, <2>7, <3>1, <3>2
  <2>10. u = Display(files[h]) BY <2>4, <2>7 DEF Display
  <2>11. Begins(u, u) BY AppendBegins DEF Begins
  <2> QED BY <1>7, <2>8, <2>9, <2>10, <2>11, ShadowedBelow
<1>12. CASE path[c] # << >> /\ Displaced(c)
  <2>1. PICK e \in Names : e = name[c] BY <1>9
  <2>2. PICK t \in Seq(Names) : t = Append(d, e) /\ Len(t) = Len(d) + 1 /\ Begins(d, t)
    BY AppendMeaning, AppendBegins
  <2>3. t = Trail[c] BY <1>2, <1>4, <1>7, <1>8, <2>1, <2>2
  <2>4. Len(d) < Len(t) BY <2>2
  <2> QED BY <1>8, <1>10, <1>12, <2>2, <2>3, <2>4
<1>13. CASE path[c] = << >>
  <2>1. PICK m \in 2 .. size : path[m] # << >> /\ parent[m] = c /\ Displaced(m)
    BY <1>8, <1>13 DEF PlaceInv, Placed, IsGroup
  <2>2. m \in Nodes /\ name[m] \in Names BY <1>1, <1>2 DEF Made
  <2>3. PICK e \in Names : e = name[c] BY <1>9
  <2>4. PICK l \in Names : l = name[m] BY <2>2
  <2>5. PICK v \in Seq(Names) : v = Append(d, e) /\ Len(v) = Len(d) + 1 /\ Begins(d, v)
    BY AppendMeaning, AppendBegins
  <2>6. PICK t \in Seq(Names) : t = Append(v, l) /\ Len(t) = Len(v) + 1 /\ Begins(v, t)
    BY AppendMeaning, AppendBegins
  <2>7. v = Trail[c] BY <1>2, <1>4, <1>7, <1>8, <2>3, <2>5
  <2>8. t = Trail[m] BY <1>4, <1>8, <2>1, <2>2, <2>4, <2>6, <2>7
  <2>9. Begins(d, t) BY <2>5, <2>6, BeginsTransitive
  <2>10. Len(d) < Len(t)
    <3>1. Len(d) \in Nat OBVIOUS
    <3> QED BY <2>5, <2>6, <3>1
  <2> QED BY <1>10, <2>1, <2>8, <2>9, <2>10
<1>14. path[c] = << >> \/ InPlace(c) \/ Displaced(c) BY <1>8 DEF PlaceInv, Placed
<1> QED BY <1>11, <1>12, <1>13, <1>14

\* For every project whose files end in names and not in those of .lproj
\* directories: after the files were added, the tree sorted and the localized
\* files regrouped, every file that does not give way to another is one leaf of
\* the tree, where its virtual path says (tree.add, buildsourcetree, onbranch).
THEOREM FilesInPlace == ASSUME PathsPlain PROVE Spec => []FilesShown
<1>1. ASSUME VisitInv, PlaceInv, HangInv, FileInv PROVE FilesShown
  <2> SUFFICES ASSUME pc = "done", NEW f \in DOMAIN files, ~Shadowed(f)
               PROVE  \E n \in Nodes : /\ {m \in Nodes : cfg[m] = f /\ InTree[m]} = {n}
                                       /\ kids[n] = << >>
                                       /\ Trail[n] = Display(files[f])
    BY DEF FilesShown
  <2>1. /\ size \in Nodes /\ files \in Projects /\ FileNodes /\ k > Len(files)
    BY <1>1 DEF VisitInv, NodeInv, ShapeInv, TypeOK, FileInv, AllIn
  <2>2. f \in Nat \ {0} /\ f < k
    <3>1. files \in Seq(Seq(Names \cup {Up, Slash})) BY <2>1, PathAssumption
    <3>2. k \in Nat BY <1>1 DEF VisitInv, NodeInv, ShapeInv, TypeOK
    <3> QED BY <2>1, <3>1, <3>2
  <2>3. PICK n \in 2 .. size : cfg[n] = f
    <3>1. \A g \in DOMAIN files : f < g => files[g] # files[f] 
      <4>1. \A g \in DOMAIN files : g \in Nat
        <5>1. files \in Seq(Seq(Names \cup {Up, Slash})) BY <2>1, PathAssumption
        <5> QED BY <5>1
      <4> SUFFICES ASSUME NEW g \in DOMAIN files, f < g, files[g] = files[f] PROVE FALSE
        OBVIOUS
      <4>2. g > f BY <2>2, <4>1
      <4> QED BY <4>2 DEF Shadowed
    <3> QED BY <2>1, <2>2, <3>1 DEF FileNodes
  <2>4. n \in Nodes BY <2>1 DEF Nodes
  <2>5. cfg[n] # Nil BY <2>2, <2>3 DEF Nil
  <2>6. path[n] = files[f] BY <2>1, <2>3, <2>4, <2>5 DEF FileNodes
  <2>7. name[n] \notin Lproj /\ path[n] # << >> BY <1>1, <2>4, <2>6, FileEnds
  <2>8. InTree[n] BY <1>1, <2>7, AllHang
  <2>9. kids[n] = << >> BY <1>1, <2>6, FilesChildless
  <2>10. Trail[n] = Display(files[f]) BY <1>1, <2>6, <2>7, TrailShown
  <2>11. \A m \in Nodes : cfg[m] = f => m = n BY <2>1, <2>3, <2>4, <2>5 DEF FileNodes
  <2>12. {m \in Nodes : cfg[m] = f /\ InTree[m]} = {n} BY <2>3, <2>4, <2>8, <2>11
  <2> QED BY <2>4, <2>9, <2>10, <2>12
<1> QED BY <1>1, VisitInvariant, PlaceInvariant, HangInvariant, FileInvariant, PTL
=============================================================================
