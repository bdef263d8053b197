--------------------------- MODULE LuaTableProofs ---------------------------
(***************************************************************************)
(* The table of LuaTable is a map for every set of keys, whatever their    *)
(* hash values and however large it grows. The invariant TableInv says     *)
(* what ltable.c relies on and only in part states: every chain ends and   *)
(* no two chains meet; a key lies in the chain from its main position, and *)
(* the node there is at home in it (HomeInv); a free node is in no chain   *)
(* and none lies above lastfree (FreeInv); a dead key with a live node of  *)
(* the same key lies behind it, so that next finds the live one (DeadInv). *)
(* Inserting keeps it in each of its four cases, and re-inserting after a  *)
(* rehash always finds a free node, because computesizes and numusehash    *)
(* count every key that is not in the new array part (DemandCovered), so   *)
(* that a rehash makes room for the key that caused it. Halving, doubling  *)
(* and counting upwards end at a border since only finitely many keys are  *)
(* present. And since assignments to keys that are present, erasing and    *)
(* collecting move nothing (Unmoved), what a traversal has still to visit  *)
(* are the present keys behind its own, even when that one is dead: the    *)
(* table implements LuaMap.                                                *)
(***************************************************************************)
EXTENDS LuaTable, ListProofs, FiniteSetTheorems

-----------------------------------------------------------------------------
(* Arithmetic.                                                               *)

LEMMA PowerIsCount ==
  ASSUME NEW n \in Nat
  PROVE  IsFiniteSet(SUBSET (1 .. n)) /\ Cardinality(SUBSET (1 .. n)) = 2 ^ n
<1>1. IsFiniteSet(1 .. n) /\ Cardinality(1 .. n) = n BY FS_Interval
<1> QED BY <1>1, FS_SUBSET

\* n elements have at least n sets: those with one element.
LEMMA PowerAbove ==
  ASSUME NEW n \in Nat
  PROVE  2 ^ n \in Nat \ {0} /\ n <= 2 ^ n
<1>1. IsFiniteSet(SUBSET (1 .. n)) /\ Cardinality(SUBSET (1 .. n)) = 2 ^ n
  BY PowerIsCount
<1>2. 2 ^ n \in Nat BY <1>1, FS_CardinalityType
<1>3. SUBSET (1 .. n) # {} OBVIOUS
<1>4. 2 ^ n # 0 BY <1>1, <1>3, FS_EmptySet
<1>5. IsFiniteSet(1 .. n) /\ Cardinality(1 .. n) = n BY FS_Interval
<1> DEFINE f == [i \in 1 .. n |-> {i}]
<1>6. f \in Injection(1 .. n, SUBSET (1 .. n)) BY DEF Injection, IsInjective
<1>7. n <= 2 ^ n BY <1>1, <1>5, <1>6, FS_Injection
<1> QED BY <1>2, <1>4, <1>7

LEMMA PowerOfZero == 2 ^ 0 = 1
<1>1. Cardinality(SUBSET {}) = 2 ^ Cardinality({}) BY FS_EmptySet, FS_SUBSET
<1>2. SUBSET {} = {{}} OBVIOUS
<1> QED BY <1>1, <1>2, FS_EmptySet, FS_Singleton

\* A non-empty set of numbers below a bound has a greatest element.
LEMMA GreatestNatural ==
  ASSUME NEW n \in Nat, NEW S \in SUBSET (0 .. n), S # {}
  PROVE  Max(S) \in S /\ \A x \in S : x <= Max(S)
<1> DEFINE T == {b \in Nat : \A x \in S : x <= b}
<1>1. n \in T OBVIOUS
<1>2. PICK b \in T : \A c \in T : b <= c BY <1>1, LeastNatural
<1>3. b \in S
  <2> SUFFICES ASSUME b \notin S PROVE FALSE OBVIOUS
  <2>1. PICK x \in S : TRUE OBVIOUS
  <2>2. \A y \in S : y <= b - 1 BY <1>2
  <2>3. b - 1 \in T BY <2>1, <2>2
  <2> QED BY <1>2, <2>3
<1>4. \E x \in S : \A y \in S : x >= y BY <1>2, <1>3
<1> QED BY <1>4 DEF Max

LEMMA LeastOf ==
  ASSUME NEW S \in SUBSET Nat, S # {}
  PROVE  Min(S) \in S /\ \A x \in S : Min(S) <= x
<1>1. \E x \in S : \A y \in S : x <= y BY LeastNatural
<1> QED BY <1>1 DEF Min

LEMMA LogIsEnough ==
  ASSUME NEW x \in Nat
  PROVE  ceillog2(x) \in Nat /\ x <= 2 ^ ceillog2(x)
<1> DEFINE S == {i \in 0 .. x : 2 ^ i >= x}
<1>1. x \in S BY PowerAbove
<1>2. S \in SUBSET Nat OBVIOUS
<1>3. Min(S) \in S BY <1>1, <1>2, LeastOf
<1>4. \A i \in Nat : 2 ^ i \in Nat BY PowerAbove
<1> QED BY <1>3, <1>4 DEF ceillog2

-----------------------------------------------------------------------------
(* Chains of nodes.                                                          *)

\* nx gives the node behind every node of N, or NoNode.
Linking(N, nx) ==
  /\ N \in SUBSET Nat /\ IsFiniteSet(N)
  /\ nx \in [N -> N \cup {NoNode}]

ClosedUnder(nx, S) == \A x \in S : nx[x] # NoNode => nx[x] \in S

\* q is p or somewhere behind it.
Reaches(N, nx, p, q) == \A S \in SUBSET N : p \in S /\ ClosedUnder(nx, S) => q \in S

Behind(N, nx, p) == {q \in N : Reaches(N, nx, p, q)}

\* Chains do not meet, and they end.
Chained(N, nx) ==
  /\ \A p, q \in N : nx[p] # NoNode /\ nx[p] = nx[q] => p = q
  /\ \A p \in N : nx[p] # NoNode => ~Reaches(N, nx, nx[p], p)

LEMMA NoNodeIsNone == NoNode \notin Nat
BY DEF NoNode

LEMMA ReachesFacts ==
  ASSUME NEW N, NEW nx, Linking(N, nx), NEW p \in N
  PROVE  /\ Reaches(N, nx, p, p)
         /\ nx[p] # NoNode => nx[p] \in N /\ Reaches(N, nx, p, nx[p])
         /\ \A q \in N : \A r : Reaches(N, nx, p, q) /\ Reaches(N, nx, q, r) => Reaches(N, nx, p, r)
         /\ ClosedUnder(nx, Behind(N, nx, p)) /\ p \in Behind(N, nx, p)
         /\ \A S \in SUBSET N : p \in S /\ ClosedUnder(nx, S) => Behind(N, nx, p) \subseteq S
<1>1. Reaches(N, nx, p, p) BY DEF Reaches
<1>2. ASSUME nx[p] # NoNode PROVE nx[p] \in N /\ Reaches(N, nx, p, nx[p])
  BY <1>2 DEF Linking, Reaches, ClosedUnder
<1>3. \A q \in N : \A r : Reaches(N, nx, p, q) /\ Reaches(N, nx, q, r) => Reaches(N, nx, p, r)
  BY DEF Reaches
<1>4. ASSUME NEW x \in Behind(N, nx, p), nx[x] # NoNode PROVE nx[x] \in Behind(N, nx, p)
  <2>1. nx[x] \in N BY <1>4 DEF Linking, Behind
  <2>2. ASSUME NEW S \in SUBSET N, p \in S, ClosedUnder(nx, S) PROVE nx[x] \in S
    BY <1>4, <2>2 DEF Behind, Reaches, ClosedUnder
  <2> QED BY <2>1, <2>2 DEF Behind, Reaches
<1>5. \A S \in SUBSET N : p \in S /\ ClosedUnder(nx, S) => Behind(N, nx, p) \subseteq S
  BY DEF Behind, Reaches
<1>6. ClosedUnder(nx, Behind(N, nx, p)) BY <1>4 DEF ClosedUnder
<1>7. p \in Behind(N, nx, p) BY <1>1 DEF Behind
<1> QED BY <1>1, <1>2, <1>3, <1>5, <1>6, <1>7

\* What is behind a node is behind the next one.
LEMMA ReachesFirst ==
  ASSUME NEW N, NEW nx, Linking(N, nx), NEW p \in N, NEW q \in N, p # q, Reaches(N, nx, p, q)
  PROVE  nx[p] \in N /\ nx[p] # NoNode /\ Reaches(N, nx, nx[p], q)
<1>1. nx[p] # NoNode
  <2> SUFFICES ASSUME nx[p] = NoNode PROVE FALSE OBVIOUS
  <2>1. {p} \in SUBSET N /\ ClosedUnder(nx, {p}) BY DEF ClosedUnder
  <2> QED BY <2>1 DEF Reaches
<1>2. nx[p] \in N BY <1>1 DEF Linking
<1>3. ASSUME NEW S \in SUBSET N, nx[p] \in S, ClosedUnder(nx, S) PROVE q \in S
  <2>1. S \cup {p} \in SUBSET N /\ ClosedUnder(nx, S \cup {p}) BY <1>3 DEF ClosedUnder
  <2> QED BY <2>1 DEF Reaches
<1> QED BY <1>1, <1>2, <1>3 DEF Reaches

\* The last step of a path.
LEMMA ReachesLast ==
  ASSUME NEW N, NEW nx, Linking(N, nx), NEW p \in N, NEW q \in N, p # q, Reaches(N, nx, p, q)
  PROVE  \E r \in N : Reaches(N, nx, p, r) /\ nx[r] = q
<1> DEFINE S == Behind(N, nx, p) \ {q}
<1>1. p \in S BY ReachesFacts
<1>2. S \in SUBSET N BY DEF Behind
<1>3. ~ClosedUnder(nx, S) BY <1>1, <1>2 DEF Reaches
<1>4. PICK x \in S : nx[x] # NoNode /\ nx[x] \notin S BY <1>3 DEF ClosedUnder
<1>5. nx[x] \in Behind(N, nx, p) BY <1>4, ReachesFacts DEF ClosedUnder
<1>6. nx[x] = q BY <1>4, <1>5
<1> QED BY <1>4, <1>6 DEF Behind

\* Two nodes behind a third one are behind one another.
LEMMA ReachesTotal ==
  ASSUME NEW N, NEW nx, Linking(N, nx), NEW p \in N, NEW x \in N, NEW y \in N,
         Reaches(N, nx, p, x), Reaches(N, nx, p, y)
  PROVE  Reaches(N, nx, x, y) \/ Reaches(N, nx, y, x)
<1> DEFINE S == {z \in N : Reaches(N, nx, x, z) \/ Reaches(N, nx, z, x)}
<1>1. p \in S OBVIOUS
<1>2. ASSUME NEW z \in S, nx[z] # NoNode PROVE nx[z] \in S
  <2>1. nx[z] \in N /\ Reaches(N, nx, z, nx[z]) BY <1>2, ReachesFacts
  <2>2. CASE Reaches(N, nx, x, z) BY <2>1, <2>2, ReachesFacts
  <2>3. CASE Reaches(N, nx, z, x) /\ z # x BY <2>1, <2>3, ReachesFirst
  <2>4. CASE z = x BY <2>1, <2>4
  <2> QED BY <2>2, <2>3, <2>4
<1>3. ClosedUnder(nx, S) BY <1>2 DEF ClosedUnder
<1> QED BY <1>1, <1>3 DEF Reaches

LEMMA ReachesAntisymmetric ==
  ASSUME NEW N, NEW nx, Linking(N, nx), Chained(N, nx), NEW p \in N, NEW q \in N,
         Reaches(N, nx, p, q), Reaches(N, nx, q, p)
  PROVE  p = q
<1> SUFFICES ASSUME p # q PROVE FALSE OBVIOUS
<1>1. nx[p] \in N /\ nx[p] # NoNode /\ Reaches(N, nx, nx[p], q) BY ReachesFirst
<1>2. Reaches(N, nx, nx[p], p) BY <1>1, ReachesFacts
<1> QED BY <1>1, <1>2 DEF Chained

\* Induction along chains, from their ends.
LEMMA ChainInduction ==
  ASSUME NEW N, NEW nx, Linking(N, nx), Chained(N, nx), NEW T \in SUBSET N,
         \A q \in N : (nx[q] # NoNode => nx[q] \in T) => q \in T
  PROVE  T = N
<1> DEFINE rank(q) == Cardinality(Behind(N, nx, q))
           R == {rank(q) : q \in N \ T}
<1> SUFFICES ASSUME N \ T # {} PROVE FALSE OBVIOUS
<1>1. \A q \in N : IsFiniteSet(Behind(N, nx, q)) /\ rank(q) \in Nat
  <2> TAKE q \in N
  <2>1. Behind(N, nx, q) \subseteq N BY DEF Behind
  <2> QED BY <2>1, FS_Subset, FS_CardinalityType DEF Linking
<1>2. PICK q \in N \ T : \A z \in N \ T : rank(q) <= rank(z)
  <2>1. R \in SUBSET Nat /\ R # {} BY <1>1
  <2> HIDE DEF rank
  <2>2. PICK r \in R : \A s \in R : r <= s BY <2>1, LeastNatural
  <2> QED BY <2>2
<1>3. nx[q] # NoNode /\ nx[q] \in N \ T BY <1>2 DEF Linking
<1>4. Behind(N, nx, nx[q]) \subseteq Behind(N, nx, q) BY <1>2, <1>3, ReachesFacts DEF Behind
<1>5. q \in Behind(N, nx, q) /\ q \notin Behind(N, nx, nx[q])
  BY <1>2, <1>3, ReachesFacts DEF Behind, Chained
<1>6. rank(nx[q]) < rank(q)
  <2>1. IsFiniteSet(Behind(N, nx, q)) BY <1>1, <1>2
  <2>2. Behind(N, nx, nx[q]) # Behind(N, nx, q) BY <1>5
  <2>3. /\ Cardinality(Behind(N, nx, nx[q])) <= Cardinality(Behind(N, nx, q))
        /\ Cardinality(Behind(N, nx, nx[q])) # Cardinality(Behind(N, nx, q))
    BY <2>1, <2>2, <1>4, FS_Subset
  <2>4. rank(q) \in Nat /\ rank(nx[q]) \in Nat BY <1>1, <1>2, <1>3
  <2> QED BY <2>3, <2>4
<1>7. rank(q) <= rank(nx[q]) BY <1>2, <1>3
<1>8. rank(q) \in Nat /\ rank(nx[q]) \in Nat BY <1>1, <1>2, <1>3
<1> HIDE DEF rank
<1> QED BY <1>6, <1>7, <1>8

\* The first node from p on that is in S, without recursion.
Candidates(N, nx, S, p) == {x \in S \cap N : p # NoNode /\ Reaches(N, nx, p, x)}

Foremost(N, nx, C) ==
  IF C = {} THEN NoNode ELSE CHOOSE x \in C : \A y \in C : Reaches(N, nx, x, y)

First(N, nx, S, p) == Foremost(N, nx, Candidates(N, nx, S, p))

LEMMA CandidatesNext ==
  ASSUME NEW N, NEW nx, Linking(N, nx), NEW S, NEW q \in N, q \notin S
  PROVE  Candidates(N, nx, S, q) = Candidates(N, nx, S, nx[q])
<1>1. CASE nx[q] = NoNode
  <2>1. Candidates(N, nx, S, nx[q]) = {} BY <1>1 DEF Candidates
  <2>2. ASSUME NEW x \in Candidates(N, nx, S, q) PROVE FALSE
    <3>1. x \in N /\ x # q /\ Reaches(N, nx, q, x) BY <2>2 DEF Candidates
    <3> QED BY <1>1, <3>1, ReachesFirst
  <2> QED BY <2>1, <2>2
<1>2. CASE nx[q] # NoNode
  <2>1. nx[q] \in N /\ Reaches(N, nx, q, nx[q]) BY <1>2, ReachesFacts
  <2>2. q # NoNode BY NoNodeIsNone DEF Linking
  <2>3. ASSUME NEW x \in S \cap N
        PROVE  Reaches(N, nx, q, x) <=> Reaches(N, nx, nx[q], x)
    <3>1. Reaches(N, nx, q, x) => Reaches(N, nx, nx[q], x) BY <2>3, ReachesFirst
    <3>2. Reaches(N, nx, nx[q], x) => Reaches(N, nx, q, x) BY <2>1, ReachesFacts
    <3> QED BY <3>1, <3>2
  <2> QED BY <1>2, <2>2, <2>3 DEF Candidates
<1> QED BY <1>1, <1>2

LEMMA FirstSteps ==
  ASSUME NEW N, NEW nx, Linking(N, nx), Chained(N, nx), NEW S, NEW q \in N
  PROVE  First(N, nx, S, q) = IF q \in S THEN q ELSE First(N, nx, S, nx[q])
<1>1. CASE q \notin S BY <1>1, CandidatesNext DEF First
<1>2. CASE q \in S
  <2>1. q # NoNode BY NoNodeIsNone DEF Linking
  <2>2. q \in Candidates(N, nx, S, q) BY <1>2, <2>1, ReachesFacts DEF Candidates
  <2>3. \A y \in Candidates(N, nx, S, q) : y \in N /\ Reaches(N, nx, q, y) BY DEF Candidates
  <2>4. ASSUME NEW x \in Candidates(N, nx, S, q),
               \A y \in Candidates(N, nx, S, q) : Reaches(N, nx, x, y)
        PROVE  x = q
    BY <2>2, <2>3, <2>4, ReachesAntisymmetric
  <2> QED BY <1>2, <2>2, <2>3, <2>4 DEF First, Foremost
<1> QED BY <1>1, <1>2

LEMMA FirstMeaning ==
  ASSUME NEW N, NEW nx, Linking(N, nx), Chained(N, nx), NEW S, NEW p \in N \cup {NoNode}
  PROVE  LET C == Candidates(N, nx, S, p)
             f == First(N, nx, S, p)
         IN  /\ C = {} => f = NoNode
             /\ C # {} => f \in C /\ \A y \in C : Reaches(N, nx, f, y)
<1> DEFINE C(q) == Candidates(N, nx, S, q)
           T == {q \in N : C(q) # {} => \E x \in C(q) : \A y \in C(q) : Reaches(N, nx, x, y)}
<1>1. T = N
  <2>1. ASSUME NEW q \in N, nx[q] # NoNode => nx[q] \in T PROVE q \in T
    <3>1. CASE q \in S
      <4>1. q # NoNode BY NoNodeIsNone DEF Linking
      <4>2. q \in C(q) BY <3>1, <4>1, ReachesFacts DEF Candidates
      <4>3. \A y \in C(q) : Reaches(N, nx, q, y) BY DEF Candidates
      <4> QED BY <4>2, <4>3
    <3>2. CASE q \notin S /\ nx[q] # NoNode BY <2>1, <3>2, CandidatesNext
    <3>3. CASE q \notin S /\ nx[q] = NoNode
      <4>1. C(q) = C(nx[q]) BY <3>3, CandidatesNext
      <4>2. C(nx[q]) = {} BY <3>3 DEF Candidates
      <4> QED BY <4>1, <4>2
    <3> QED BY <3>1, <3>2, <3>3
  <2> QED BY <2>1, ChainInduction
<1>2. CASE p \in N BY <1>1, <1>2 DEF First, Foremost
<1>3. CASE p = NoNode BY <1>3 DEF First, Foremost, Candidates
<1> QED BY <1>2, <1>3

-----------------------------------------------------------------------------
(* Searching a table.                                                        *)

Nodes(tb) == 0 .. sizenode(tb) - 1
Links(tb) == [p \in Nodes(tb) |-> tb.node[p].next]

LEMMA InChainIsFirst ==
  ASSUME NEW tb, Linking(Nodes(tb), Links(tb)), Chained(Nodes(tb), Links(tb)), NEW S,
         sizenode(tb) \in Nat, NEW p \in Nodes(tb)
  PROVE  InChain(tb, p, S) = First(Nodes(tb), Links(tb), S, p)
<1> DEFINE N == Nodes(tb)
           nx == Links(tb)
           D == -1 .. sizenode(tb) - 1
           F == [q \in D |-> First(N, nx, S, q)]
           Body(f, q) == IF q = NoNode \/ q \in S THEN q ELSE f[tb.node[q].next]
<1>1. D = N \cup {NoNode} BY DEF Nodes, NoNode
<1>2. First(N, nx, S, NoNode) = NoNode BY DEF First, Foremost, Candidates
<1>3. \A q \in N : q # NoNode BY NoNodeIsNone DEF Linking
<1>4. \A q \in N : nx[q] \in D /\ tb.node[q].next = nx[q] BY <1>1 DEF Linking, Links
<1>5. \A q \in N : First(N, nx, S, q) = IF q \in S THEN q ELSE First(N, nx, S, nx[q])
  BY FirstSteps
<1> HIDE DEF N, nx, D
<1>6. \A q \in D : First(N, nx, S, q) = Body(F, q)
  <2> TAKE q \in D
  <2>1. CASE q = NoNode BY <2>1, <1>2
  <2>2. CASE q \in N
    <3>1. F[tb.node[q].next] = First(N, nx, S, nx[q]) BY <2>2, <1>4
    <3> QED BY <2>2, <3>1, <1>3, <1>5
  <2> QED BY <1>1, <2>1, <2>2
<1>7. F = [q \in D |-> Body(F, q)]
  <2> HIDE DEF Body
  <2> QED BY <1>6
<1> DEFINE W == CHOOSE f : f = [q \in D |-> Body(f, q)]
<1>8. W = [q \in D |-> Body(W, q)]
  <2> HIDE DEF Body, F
  <2> QED BY <1>7
<1> HIDE DEF W
<1>9. W[NoNode] = NoNode BY <1>1, <1>8
<1>10. \A q \in N : W[q] = IF q \in S THEN q ELSE W[nx[q]] BY <1>1, <1>3, <1>4, <1>8
<1>11. {q \in N : W[q] = First(N, nx, S, q)} = N
  <2> DEFINE T == {q \in N : W[q] = First(N, nx, S, q)}
  <2>1. ASSUME NEW q \in N, nx[q] # NoNode => nx[q] \in T PROVE q \in T
    <3>1. W[nx[q]] = First(N, nx, S, nx[q]) BY <2>1, <1>2, <1>9
    <3> QED BY <3>1, <1>5, <1>10
  <2> HIDE DEF T
  <2>2. T \in SUBSET N BY DEF T
  <2>3. T = N BY <2>1, <2>2, ChainInduction DEF N, nx
  <2> QED BY <2>3 DEF T
<1>12. InChain(tb, p, S) = W[p] BY DEF InChain, W, D
<1>13. p \in N BY DEF N
<1> QED BY <1>11, <1>12, <1>13 DEF N, nx

Slots == Vals \cup {Nil}

TableShape(tb) ==
  /\ tb = [array |-> tb.array, sizearray |-> tb.sizearray, lsizenode |-> tb.lsizenode,
           node |-> tb.node, lastfree |-> tb.lastfree, dummy |-> tb.dummy,
           flags |-> tb.flags, self |-> tb.self, full |-> tb.full]
  /\ tb.sizearray \in Nat /\ tb.array \in [1 .. tb.sizearray -> Slots]
  /\ tb.lsizenode \in Nat
  /\ tb.node \in [Nodes(tb) -> [key : Keys \cup {Nil}, val : Slots,
                                next : Nodes(tb) \cup {NoNode}, dead : BOOLEAN]]
  /\ tb.lastfree \in 0 .. sizenode(tb)
  /\ tb.dummy \in BOOLEAN /\ tb.flags \in SUBSET Events
  /\ tb.self \in BOOLEAN /\ tb.full \in BOOLEAN

\* Only integers are in the array part.
ArrayInv(tb) == \A i \in 1 .. tb.sizearray : tb.array[i] # Nil => i \in IntKeys

\* A node that never held a key is in no chain; getfreepos has left none behind.
FreeInv(tb) ==
  /\ \A p \in Nodes(tb) : tb.node[p].key = Nil =>
       /\ tb.node[p].val = Nil /\ tb.node[p].next = NoNode /\ ~tb.node[p].dead
       /\ \A q \in Nodes(tb) : tb.node[q].next # p
  /\ ~tb.dummy => \A p \in Nodes(tb) : p >= tb.lastfree => tb.node[p].key # Nil

\* The main position of the key in p.
Home(tb, p) == mainposition(tb, tb.node[p].key)

\* Every key, erased and dead ones too, is in the chain that begins at its main
\* position, and what is there is at home.
HomeInv(tb) ==
  \A p \in Nodes(tb) : tb.node[p].key # Nil =>
    /\ ~tb.dummy /\ ~InArray(tb, tb.node[p].key)
    /\ Reaches(Nodes(tb), Links(tb), Home(tb, p), p)
    /\ tb.node[Home(tb, p)].key # Nil /\ Home(tb, Home(tb, p)) = Home(tb, p)

\* A dead key may be in the table again: in one node, which is found first.
DeadInv(tb) ==
  /\ \A p \in Nodes(tb) : tb.node[p].dead => tb.node[p].val = Nil
  /\ \A p, q \in Nodes(tb) :
       tb.node[p].key # Nil /\ tb.node[p].key = tb.node[q].key /\ ~tb.node[p].dead =>
         /\ ~tb.node[q].dead => p = q
         /\ Reaches(Nodes(tb), Links(tb), p, q)

TableInv(tb) ==
  /\ TableShape(tb) /\ ArrayInv(tb)
  /\ Chained(Nodes(tb), Links(tb))
  /\ FreeInv(tb) /\ HomeInv(tb) /\ DeadInv(tb)

LEMMA SizeFacts ==
  ASSUME NEW tb, tb.lsizenode \in Nat
  PROVE  /\ sizenode(tb) \in Nat \ {0}
         /\ IsFiniteSet(Nodes(tb)) /\ Cardinality(Nodes(tb)) = sizenode(tb)
         /\ Nodes(tb) \in SUBSET Nat /\ NoNode \notin Nodes(tb)
<1>1. sizenode(tb) \in Nat \ {0} BY PowerAbove DEF sizenode
<1>2. IsFiniteSet(Nodes(tb)) /\ Cardinality(Nodes(tb)) = sizenode(tb)
  <2> DEFINE n == sizenode(tb)
  <2>1. 0 \in Int /\ n - 1 \in Int /\ ~(n - 1 < 0) /\ (n - 1) - 0 + 1 = n BY <1>1
  <2> HIDE DEF n
  <2>2. IsFiniteSet(0 .. n - 1) /\ Cardinality(0 .. n - 1) = n
    BY <2>1, FS_Interval
  <2> QED BY <2>2 DEF Nodes, n
<1> QED BY <1>1, <1>2 DEF Nodes, NoNode

LEMMA RemainderRange ==
  ASSUME NEW n \in Nat, NEW d \in Nat \ {0}
  PROVE  n % d \in 0 .. d - 1
OBVIOUS

LEMMA MainRange ==
  ASSUME NEW tb, tb.lsizenode \in Nat, NEW k \in Keys
  PROVE  mainposition(tb, k) \in Nodes(tb)
<1>1. sizenode(tb) \in Nat \ {0} BY SizeFacts
<1>2. Hash[k] \in Nat BY KeyAssumption
<1>3. hashpow2(tb, Hash[k]) \in 0 .. sizenode(tb) - 1 BY <1>1, <1>2 DEF hashpow2
<1>4. hashmod(tb, Hash[k]) \in 0 .. sizenode(tb) - 1
  <2>1. CASE sizenode(tb) = 1 BY <2>1, <1>2 DEF hashmod
  <2>2. CASE sizenode(tb) # 1
    <3> DEFINE d == sizenode(tb) - 1
    <3>1. d \in Nat \ {0} BY <2>2, <1>1
    <3>2. hashmod(tb, Hash[k]) = Hash[k] % d BY <2>2 DEF hashmod
    <3> HIDE DEF d
    <3>3. Hash[k] % d \in 0 .. d - 1 BY <3>1, <1>2, RemainderRange
    <3>4. d - 1 <= sizenode(tb) - 1 /\ d \in Nat BY <3>1, <1>1 DEF d
    <3> QED BY <1>1, <3>2, <3>3, <3>4
  <2> QED BY <2>1, <2>2
<1>5. 0 \in 0 .. sizenode(tb) - 1 BY <1>1
<1> QED BY <1>3, <1>4, <1>5 DEF mainposition, hashnum, Nodes

LEMMA MainSame ==
  ASSUME NEW ta, NEW tb, ta.lsizenode = tb.lsizenode
  PROVE  Nodes(ta) = Nodes(tb) /\ \A k : mainposition(ta, k) = mainposition(tb, k)
BY DEF Nodes, mainposition, hashnum, hashmod, hashpow2, sizenode

LEMMA LinksType ==
  ASSUME NEW tb, TableShape(tb)
  PROVE  /\ Linking(Nodes(tb), Links(tb))
         /\ \A p \in Nodes(tb) : Links(tb)[p] = tb.node[p].next
BY SizeFacts DEF TableShape, Linking, Links

LEMMA HomeRange ==
  ASSUME NEW tb, TableShape(tb), NEW p \in Nodes(tb), tb.node[p].key # Nil
  PROVE  tb.node[p].key \in Keys /\ Home(tb, p) \in Nodes(tb)
BY MainRange DEF Home, TableShape

\* Looking for one of some nodes that hold k finds one, if there is any, and
\* then none of them is before it.
LEMMA SearchFinds ==
  ASSUME NEW tb, TableInv(tb), NEW k \in Keys, NEW S \in SUBSET Holding(tb, k)
  PROVE  LET p == InChain(tb, mainposition(tb, k), S)
         IN  /\ S = {} => p = NoNode
             /\ S # {} => p \in S /\ \A q \in S : Reaches(Nodes(tb), Links(tb), p, q)
<1> DEFINE N == Nodes(tb)
           nx == Links(tb)
           mp == mainposition(tb, k)
<1>1. Linking(N, nx) /\ Chained(N, nx) BY LinksType DEF TableInv
<1>2. mp \in N /\ mp # NoNode BY MainRange, SizeFacts DEF TableInv, TableShape
<1>3. InChain(tb, mp, S) = First(N, nx, S, mp)
  BY <1>1, <1>2, InChainIsFirst, SizeFacts DEF TableInv, TableShape
<1>4. \A q \in S : q \in N /\ Reaches(N, nx, mp, q)
  <2> TAKE q \in S
  <2>1. q \in N /\ tb.node[q].key = k BY DEF Holding, TableInv, TableShape
  <2>2. k # Nil BY KeyAssumption
  <2> QED BY <2>1, <2>2 DEF TableInv, HomeInv, Home
<1>5. Candidates(N, nx, S, mp) = S BY <1>2, <1>4 DEF Candidates
<1> HIDE DEF N, nx, mp
<1> QED BY <1>1, <1>2, <1>3, <1>5, FirstMeaning DEF N, nx, mp

\* What a lookup finds.
LEMMA GetFinds ==
  ASSUME NEW tb, TableInv(tb), NEW k \in Keys
  PROVE  /\ InArray(tb, k) => luaH_get(tb, k) = [part |-> "array", at |-> k]
         /\ ~InArray(tb, k) /\ LiveHolding(tb, k) = {} =>
              luaH_get(tb, k) = [part |-> "none", at |-> NoNode]
         /\ \A p \in LiveHolding(tb, k) :
              ~InArray(tb, k) /\ luaH_get(tb, k) = [part |-> "hash", at |-> p]
<1>1. CASE InArray(tb, k)
  <2>1. k # Nil BY KeyAssumption
  <2>2. LiveHolding(tb, k) = {}
    BY <1>1, <2>1 DEF LiveHolding, Holding, TableInv, TableShape, HomeInv
  <2> QED BY <1>1, <2>2 DEF luaH_get
<1>2. CASE ~InArray(tb, k)
  <2> DEFINE p == InChain(tb, mainposition(tb, k), LiveHolding(tb, k))
  <2>1. LiveHolding(tb, k) \in SUBSET Holding(tb, k) BY DEF LiveHolding
  <2>2. /\ LiveHolding(tb, k) = {} => p = NoNode
        /\ LiveHolding(tb, k) # {} => p \in LiveHolding(tb, k)
    BY <2>1, SearchFinds
  <2>3. \A q \in LiveHolding(tb, k) : q # NoNode
    BY SizeFacts DEF LiveHolding, Holding, TableInv, TableShape
  <2>4. \A q, r \in LiveHolding(tb, k) : q = r
    <3>1. k # Nil BY KeyAssumption
    <3> QED BY <3>1 DEF LiveHolding, Holding, TableInv, TableShape, DeadInv
  <2>5. luaH_get(tb, k) = [part |-> IF p = NoNode THEN "none" ELSE "hash", at |-> p]
    BY <1>2 DEF luaH_get
  <2> HIDE DEF p
  <2> QED BY <1>2, <2>2, <2>3, <2>4, <2>5
<1> QED BY <1>1, <1>2

-----------------------------------------------------------------------------
(* What inserting does to the chains.                                        *)

\* n is in no chain.
Loose(N, nx, n) == n \in N /\ nx[n] = NoNode /\ \A q \in N : nx[q] # n

\* ny has n behind mp.
LinkedBehind(N, nx, ny, mp, n) ==
  /\ Linking(N, ny) /\ Chained(N, ny)
  /\ \A p, q \in N : Reaches(N, nx, p, q) => Reaches(N, ny, p, q)
  /\ Reaches(N, ny, mp, n)
  /\ \A q \in N : q # mp /\ Reaches(N, nx, mp, q) => Reaches(N, ny, n, q)

\* A loose node goes into a chain behind mp.
LEMMA InsertedLink ==
  ASSUME NEW N, NEW nx, Linking(N, nx), Chained(N, nx), NEW mp \in N, NEW n, Loose(N, nx, n),
         mp # n, NEW ny, ny = [nx EXCEPT ![n] = nx[mp], ![mp] = n]
  PROVE  LinkedBehind(N, nx, ny, mp, n)
<1>1. n \in N /\ nx[n] = NoNode /\ \A q \in N : nx[q] # n BY DEF Loose
<1>2. NoNode \notin N BY NoNodeIsNone DEF Linking
<1>3. Linking(N, ny) BY <1>1 DEF Linking
<1>4. ny[n] = nx[mp] /\ ny[mp] = n /\ \A q \in N \ {n, mp} : ny[q] = nx[q]
  BY <1>1 DEF Linking
<1>5. ASSUME NEW S \in SUBSET N, ClosedUnder(ny, S) PROVE ClosedUnder(nx, S)
  <2> SUFFICES ASSUME NEW x \in S, nx[x] # NoNode PROVE nx[x] \in S BY DEF ClosedUnder
  <2>1. CASE x = mp
    <3>1. n \in S BY <2>1, <1>1, <1>2, <1>4, <1>5 DEF ClosedUnder
    <3> QED BY <3>1, <2>1, <1>4, <1>5 DEF ClosedUnder
  <2>2. CASE x # mp BY <2>2, <1>1, <1>4, <1>5 DEF ClosedUnder
  <2> QED BY <2>1, <2>2
<1>6. \A p, q \in N : Reaches(N, nx, p, q) => Reaches(N, ny, p, q) BY <1>5 DEF Reaches
<1>7. Reaches(N, ny, mp, n) BY <1>1, <1>2, <1>3, <1>4, ReachesFacts, ZenonT(40)
<1>8. ASSUME NEW q \in N, q # mp, Reaches(N, nx, mp, q) PROVE Reaches(N, ny, n, q)
  <2>1. nx[mp] \in N /\ nx[mp] # NoNode /\ Reaches(N, nx, nx[mp], q) BY <1>8, ReachesFirst
  <2>2. Reaches(N, ny, n, nx[mp])
    <3>1. ny[n] # NoNode BY <2>1, <1>4
    <3>2. n \in N BY <1>1
    <3>3. Reaches(N, ny, n, ny[n]) BY <3>1, <3>2 DEF Reaches, ClosedUnder
    <3> QED BY <3>3, <1>4
  <2>3. Reaches(N, ny, nx[mp], q) BY <2>1, <1>6
  <2> QED BY <2>1, <2>2, <2>3, <1>1, <1>3, ReachesFacts
<1>9. \A p, q \in N : ny[p] # NoNode /\ ny[p] = ny[q] => p = q
  BY <1>1, <1>2, <1>4, ZenonT(40) DEF Chained
<1>10. ASSUME NEW p \in N, ny[p] # NoNode PROVE ~Reaches(N, ny, ny[p], p)
  <2>1. CASE p = mp
    <3> DEFINE S == {n} \cup {x \in N : nx[mp] # NoNode /\ Reaches(N, nx, nx[mp], x)}
    <3>1. mp \notin S BY DEF Chained
    <3>2. ClosedUnder(ny, S)
      <4> SUFFICES ASSUME NEW x \in S, ny[x] # NoNode PROVE ny[x] \in S BY DEF ClosedUnder
      <4>1. CASE x = n
        <5>1. nx[mp] \in N /\ nx[mp] # NoNode BY <4>1, <1>4 DEF Linking
        <5> QED BY <4>1, <5>1, <1>4, ReachesFacts
      <4>2. CASE x # n
        <5>1. x \in N /\ nx[mp] # NoNode /\ Reaches(N, nx, nx[mp], x) BY <4>2
        <5>2. nx[mp] \in N BY <5>1 DEF Linking
        <5>3. ny[x] = nx[x] BY <5>1, <4>2, <3>1, <1>4
        <5>4. nx[x] \in N /\ Reaches(N, nx, x, nx[x]) BY <5>1, <5>3, ReachesFacts
        <5> QED BY <5>1, <5>2, <5>3, <5>4, ReachesFacts
      <4> QED BY <4>1, <4>2
    <3>3. S \in SUBSET N BY <1>1
    <3>4. ny[p] \in S BY <2>1, <1>4
    <3> HIDE DEF S
    <3> QED BY <2>1, <3>1, <3>2, <3>3, <3>4 DEF Reaches
  <2>2. CASE p = n
    <3> DEFINE S == Behind(N, nx, nx[mp])
    <3>1. nx[mp] \in N /\ nx[mp] # NoNode /\ nx[mp] # n BY <2>2, <1>1, <1>4, <1>10 DEF Linking
    <3>2. nx[mp] \in S /\ ClosedUnder(nx, S) /\ S \in SUBSET N BY <3>1, ReachesFacts DEF Behind
    <3>3. mp \notin S BY <3>1 DEF Chained, Behind
    <3>4. n \notin S
      <4> SUFFICES ASSUME n \in S PROVE FALSE OBVIOUS
      <4>1. PICK r \in N : nx[r] = n BY <3>1, <1>1, ReachesLast DEF Behind
      <4> QED BY <4>1, <1>1
    <3>5. ClosedUnder(ny, S) BY <3>2, <3>3, <3>4, <1>4 DEF ClosedUnder
    <3> HIDE DEF S
    <3> QED BY <2>2, <3>2, <3>4, <3>5, <1>4 DEF Reaches
  <2>3. CASE p # n /\ p # mp
    <3> DEFINE S == Behind(N, nx, nx[p])
    <3>1. ny[p] = nx[p] /\ nx[p] \in N BY <2>3, <1>4, <1>10 DEF Linking
    <3>2. nx[p] \in S /\ ClosedUnder(nx, S) /\ S \in SUBSET N
      <4>1. S \in SUBSET N BY DEF Behind
      <4>2. nx[p] \in N BY <3>1
      <4>3. nx[p] \in S /\ ClosedUnder(nx, S) BY <4>2, ReachesFacts
      <4> QED BY <4>1, <4>3
    <3>3. p \notin S BY <3>1, <1>2 DEF Chained, Behind
    <3> HIDE DEF S
    <3>4. ClosedUnder(ny, S \cup {n})
      \/ mp \notin S
      <4>1. ASSUME mp \in S PROVE ClosedUnder(ny, S \cup {n})
        BY <4>1, <3>2, <1>1, <1>4 DEF ClosedUnder
      <4> QED BY <4>1
    <3>5. CASE ClosedUnder(ny, S \cup {n})
      <4>1. S \cup {n} \in SUBSET N /\ p \notin S \cup {n} BY <3>2, <3>3, <2>3, <1>1
      <4>2. ny[p] \in S \cup {n} BY <3>1, <3>2
      <4> QED BY <4>1, <4>2, <3>5 DEF Reaches
    <3>6. CASE mp \notin S
      <4>1. n \notin S
        <5> SUFFICES ASSUME n \in S PROVE FALSE OBVIOUS
        <5>1. nx[p] # n BY <1>1
        <5>2. PICK r \in N : nx[r] = n BY <3>1, <5>1, <1>1, ReachesLast DEF Behind, S
        <5> QED BY <5>2, <1>1
      <4>2. ClosedUnder(ny, S) BY <3>2, <3>6, <4>1, <1>4 DEF ClosedUnder
      <4> QED BY <3>1, <3>2, <3>3, <4>2 DEF Reaches
    <3> QED BY <3>4, <3>5, <3>6
  <2> QED BY <2>1, <2>2, <2>3
<1>11. Chained(N, ny) BY <1>9, <1>10 DEF Chained
<1> QED BY <1>3, <1>6, <1>7, <1>8, <1>11 DEF LinkedBehind

\* Renaming nodes leaves chains what they are.
LEMMA Renamed ==
  ASSUME NEW N, NEW nx, Linking(N, nx), NEW ny, NEW sg \in [N -> N],
         \A x \in N : nx[x] # NoNode => ny[sg[x]] = sg[nx[x]] /\ ny[sg[x]] # NoNode,
         NEW p \in N, NEW q \in N, Reaches(N, nx, p, q)
  PROVE  Reaches(N, ny, sg[p], sg[q])
<1> SUFFICES ASSUME NEW S \in SUBSET N, sg[p] \in S, ClosedUnder(ny, S) PROVE sg[q] \in S
  BY DEF Reaches
<1> DEFINE T == {x \in N : sg[x] \in S}
<1>1. p \in T OBVIOUS
<1>2. ASSUME NEW x \in T, nx[x] # NoNode PROVE nx[x] \in T
  <2>1. nx[x] \in N BY <1>2 DEF Linking
  <2>2. ny[sg[x]] \in S BY <1>2 DEF ClosedUnder
  <2> QED BY <1>2, <2>1, <2>2
<1>3. ClosedUnder(nx, T) BY <1>2 DEF ClosedUnder
<1>4. q \in T BY <1>1, <1>3 DEF Reaches
<1> QED BY <1>4

\* ny has n in the place of mp, and mp in no chain.
LinkedInstead(N, nx, ny, mp, n) ==
  /\ Linking(N, ny) /\ Chained(N, ny) /\ Loose(N, ny, mp)
  /\ \A p, q \in N :
       Reaches(N, nx, p, q) =>
         Reaches(N, ny, IF p = mp THEN n ELSE IF p = n THEN mp ELSE p,
                        IF q = mp THEN n ELSE IF q = n THEN mp ELSE q)

\* A loose node takes the place of mp in its chain.
LEMMA MovedLink ==
  ASSUME NEW N, NEW nx, Linking(N, nx), Chained(N, nx), NEW mp \in N, NEW n, Loose(N, nx, n),
         mp # n, NEW prev \in N, nx[prev] = mp,
         NEW ny, ny = [nx EXCEPT ![prev] = n, ![n] = nx[mp], ![mp] = NoNode]
  PROVE  LinkedInstead(N, nx, ny, mp, n)
<1> DEFINE sg == [x \in N |-> IF x = mp THEN n ELSE IF x = n THEN mp ELSE x]
<1>1. n \in N /\ nx[n] = NoNode /\ \A q \in N : nx[q] # n BY DEF Loose
<1>2. NoNode \notin N BY NoNodeIsNone DEF Linking
<1>3. Linking(N, ny) BY <1>1 DEF Linking
<1>4. prev # n BY <1>1, <1>2
<1>5. nx[mp] # mp BY <1>2, ReachesFacts DEF Chained
<1>6. prev # mp BY <1>5
<1>7. /\ ny[n] = nx[mp] /\ ny[mp] = NoNode /\ ny[prev] = n
      /\ \A q \in N \ {n, mp, prev} : ny[q] = nx[q] /\ nx[q] # mp
  BY <1>1, <1>2, <1>4, <1>6 DEF Linking, Chained
<1>8. sg \in [N -> N] BY <1>1
<1>9. \A x \in N : sg[x] = IF x = mp THEN n ELSE IF x = n THEN mp ELSE x OBVIOUS
<1> HIDE DEF sg
<1>10. ASSUME NEW x \in N, nx[x] # NoNode
       PROVE  ny[sg[x]] = sg[nx[x]] /\ ny[sg[x]] # NoNode
  <2>1. nx[x] \in N BY <1>10 DEF Linking
  <2>2. CASE x = mp BY <2>1, <2>2, <1>1, <1>5, <1>7, <1>9, <1>10
  <2>3. CASE x = prev BY <2>3, <1>1, <1>2, <1>4, <1>6, <1>7, <1>9
  <2>4. CASE x # mp /\ x # prev /\ x # n BY <2>1, <2>4, <1>1, <1>7, <1>9, <1>10
  <2> QED BY <2>2, <2>3, <2>4, <1>1, <1>10
<1>11. \A p, q \in N : Reaches(N, nx, p, q) => Reaches(N, ny, sg[p], sg[q])
  BY <1>8, <1>10, Renamed
<1>12. ASSUME NEW x \in N, ny[x] # NoNode
       PROVE  nx[sg[x]] = sg[ny[x]] /\ nx[sg[x]] # NoNode
  <2>1. ny[x] \in N BY <1>12, <1>3 DEF Linking
  <2>2. CASE x = n BY <2>1, <2>2, <1>1, <1>5, <1>7, <1>9, <1>12
  <2>3. CASE x = prev BY <2>3, <1>1, <1>2, <1>4, <1>6, <1>7, <1>9
  <2>4. CASE x # mp /\ x # prev /\ x # n
    <3>1. ny[x] = nx[x] /\ nx[x] # mp BY <2>4, <1>7
    <3>2. nx[x] \in N /\ nx[x] # n BY <2>1, <3>1, <1>1
    <3>3. sg[ny[x]] = nx[x] BY <3>1, <3>2, <1>9
    <3>4. sg[x] = x BY <2>4, <1>9
    <3> QED BY <3>1, <3>3, <3>4, <1>12
  <2> QED BY <2>2, <2>3, <2>4, <1>7, <1>12
<1>13. \A p, q \in N : Reaches(N, ny, p, q) => Reaches(N, nx, sg[p], sg[q])
  BY <1>3, <1>8, <1>12, Renamed
<1>14. ASSUME NEW p \in N, ny[p] # NoNode PROVE ~Reaches(N, ny, ny[p], p)
  <2> SUFFICES ASSUME Reaches(N, ny, ny[p], p) PROVE FALSE OBVIOUS
  <2>1. ny[p] \in N BY <1>14, <1>3 DEF Linking
  <2>2. Reaches(N, nx, sg[ny[p]], sg[p]) BY <2>1, <1>13
  <2>3. sg[p] \in N BY <1>8
  <2> QED BY <2>2, <2>3, <1>12, <1>14 DEF Chained
<1>15. \A p, q \in N : ny[p] # NoNode /\ ny[p] = ny[q] => p = q
  <2> SUFFICES ASSUME NEW p \in N, NEW q \in N, ny[p] # NoNode, ny[p] = ny[q] PROVE p = q
    OBVIOUS
  <2>1. sg[p] = sg[q]
    <3>1. nx[sg[p]] = sg[ny[p]] /\ nx[sg[p]] # NoNode BY <1>12
    <3>2. nx[sg[q]] = sg[ny[q]] BY <1>12
    <3>3. sg[p] \in N /\ sg[q] \in N BY <1>8
    <3> QED BY <3>1, <3>2, <3>3 DEF Chained
  <2> QED BY <2>1, <1>1, <1>9
<1>16. Loose(N, ny, mp)
  <2>1. ASSUME NEW q \in N PROVE ny[q] # mp
    BY <1>1, <1>2, <1>5, <1>7
  <2> QED BY <2>1, <1>7 DEF Loose
<1>17. Chained(N, ny) BY <1>14, <1>15 DEF Chained
<1> QED BY <1>3, <1>9, <1>11, <1>16, <1>17, ZenonT(40) DEF LinkedInstead

-----------------------------------------------------------------------------
(* Inserting a key.                                                          *)

SameParts(ta, tb) ==
  /\ ta.sizearray = tb.sizearray /\ ta.array = tb.array /\ ta.lsizenode = tb.lsizenode
  /\ ta.dummy = tb.dummy /\ ta.flags = tb.flags /\ ta.self = tb.self /\ ta.full = tb.full

NodeHas(tb, k, v) == \E p \in Nodes(tb) : tb.node[p].key = k /\ tb.node[p].val = v

\* k has a node of its own, without a value, and nothing else has changed.
Inserted(ta, at, tb, k) ==
  /\ TableInv(ta) /\ SameParts(ta, tb)
  /\ at \in LiveHolding(ta, k) /\ ta.node[at].val = Nil
  /\ \A j \in Keys, v \in Vals : NodeHas(ta, j, v) <=> NodeHas(tb, j, v)
  /\ (\A p \in Nodes(tb) : tb.node[p].key # Nil => tb.node[p].val # Nil) =>
       \A p \in Nodes(ta) \ {at} : ta.node[p].key # Nil => ta.node[p].val # Nil

\* k may be inserted.
Absent(tb, k) == k \in Keys /\ ~InArray(tb, k) /\ LiveHolding(tb, k) = {}

LEMMA SameFacts ==
  ASSUME NEW ta, NEW tb, SameParts(ta, tb)
  PROVE  /\ Nodes(ta) = Nodes(tb) /\ sizenode(ta) = sizenode(tb)
         /\ \A k : mainposition(ta, k) = mainposition(tb, k)
         /\ \A k : InArray(ta, k) <=> InArray(tb, k)
<1>1. ta.lsizenode = tb.lsizenode BY DEF SameParts
<1>2. sizenode(ta) = sizenode(tb) BY <1>1 DEF sizenode
<1>3. \A k : InArray(ta, k) <=> InArray(tb, k) BY DEF SameParts, InArray
<1> QED BY <1>1, <1>2, <1>3, MainSame

LEMMA AbsentHome ==
  ASSUME NEW tb, TableInv(tb), NEW k, Absent(tb, k)
  PROVE  /\ k \in Keys /\ k # Nil /\ ~InArray(tb, k)
         /\ mainposition(tb, k) \in Nodes(tb)
         /\ \A q \in Nodes(tb) : tb.node[q].key = k =>
              tb.node[q].dead /\ Home(tb, q) = mainposition(tb, k)
<1>1. k \in Keys /\ k # Nil /\ ~InArray(tb, k) BY KeyAssumption DEF Absent
<1>2. mainposition(tb, k) \in Nodes(tb) BY <1>1, MainRange DEF TableInv, TableShape
<1>3. \A q \in Nodes(tb) : tb.node[q].key = k => tb.node[q].dead
  BY DEF Absent, LiveHolding, Holding, TableInv, TableShape
<1> QED BY <1>1, <1>2, <1>3 DEF Home

\* The main position is free.
LEMMA PutAtHome ==
  ASSUME NEW tb, TableInv(tb), NEW k, Absent(tb, k), ~tb.dummy,
         NEW mp, mp = mainposition(tb, k), tb.node[mp].val = Nil,
         NEW ta, TableShape(ta), SameParts(ta, tb), ta.lastfree = tb.lastfree,
         \A p \in Nodes(tb) \ {mp} : ta.node[p] = tb.node[p],
         ta.node[mp].key = k, ta.node[mp].val = Nil, ~ta.node[mp].dead,
         ta.node[mp].next = tb.node[mp].next
  PROVE  Inserted(ta, mp, tb, k)
<1> DEFINE N == Nodes(tb)
           nx == Links(tb)
<1>1. /\ k \in Keys /\ k # Nil /\ ~InArray(tb, k) /\ mp \in N
      /\ \A q \in N : tb.node[q].key = k => tb.node[q].dead /\ Home(tb, q) = mp
  BY AbsentHome
<1>2. /\ Nodes(ta) = N /\ \A j : mainposition(ta, j) = mainposition(tb, j)
      /\ \A j : InArray(ta, j) <=> InArray(tb, j)
  BY SameFacts
<1>3. Links(ta) = nx BY <1>1, <1>2 DEF Links
<1>4. TableShape(tb) /\ Chained(N, nx) /\ FreeInv(tb) /\ HomeInv(tb) /\ DeadInv(tb) /\ ArrayInv(tb)
  BY DEF TableInv
<1>5. Reaches(N, nx, mp, mp) BY <1>1, <1>4, LinksType, ReachesFacts
<1>6. ArrayInv(ta) BY <1>4 DEF ArrayInv, SameParts
<1>7. FreeInv(ta)
  <2>1. ASSUME NEW p \in N, ta.node[p].key = Nil
        PROVE  /\ ta.node[p].val = Nil /\ ta.node[p].next = NoNode /\ ~ta.node[p].dead
               /\ \A q \in N : ta.node[q].next # p
    <3>1. p # mp /\ tb.node[p].key = Nil BY <2>1, <1>1
    <3>2. \A q \in N : ta.node[q].next = tb.node[q].next OBVIOUS
    <3> QED BY <2>1, <3>1, <3>2, <1>4 DEF FreeInv
  <2>2. ASSUME NEW p \in N, p >= ta.lastfree PROVE ta.node[p].key # Nil
    BY <2>2, <1>1, <1>4 DEF FreeInv
  <2> QED BY <2>1, <2>2, <1>2 DEF FreeInv
<1>8. \A p \in N : Home(ta, p) = IF p = mp THEN mp ELSE Home(tb, p)
  BY <1>2 DEF Home
<1>9. HomeInv(ta)
  <2> SUFFICES ASSUME NEW p \in N, ta.node[p].key # Nil
               PROVE  /\ ~ta.dummy /\ ~InArray(ta, ta.node[p].key)
                      /\ Reaches(N, nx, Home(ta, p), p)
                      /\ ta.node[Home(ta, p)].key # Nil /\ Home(ta, Home(ta, p)) = Home(ta, p)
    BY <1>2, <1>3 DEF HomeInv
  <2>1. ~ta.dummy BY DEF SameParts
  <2>2. CASE p = mp BY <2>1, <2>2, <1>1, <1>2, <1>5, <1>8
  <2>3. CASE p # mp
    <3>1. tb.node[p].key # Nil /\ ta.node[p].key = tb.node[p].key BY <2>3
    <3>2. Home(tb, p) \in N BY <3>1, <1>4, HomeRange
    <3> QED BY <2>1, <2>3, <3>1, <3>2, <1>1, <1>2, <1>4, <1>8 DEF HomeInv
  <2> QED BY <2>2, <2>3
<1>10. DeadInv(ta)
  <2>1. \A p \in N : ta.node[p].dead => ta.node[p].val = Nil BY <1>4 DEF DeadInv
  <2>2. ASSUME NEW p \in N, NEW q \in N, ta.node[p].key # Nil,
               ta.node[p].key = ta.node[q].key, ~ta.node[p].dead
        PROVE  (~ta.node[q].dead => p = q) /\ Reaches(N, nx, p, q)
    <3>1. CASE p = mp /\ q = mp BY <3>1, <1>5
    <3>2. CASE p = mp /\ q # mp
      <4>1. tb.node[q].key = k BY <2>2, <3>2
      <4>2. tb.node[q].dead /\ Home(tb, q) = mp BY <4>1, <1>1
      <4> QED BY <3>2, <4>1, <4>2, <1>1, <1>4 DEF HomeInv
    <3>3. CASE p # mp /\ q = mp BY <2>2, <3>3, <1>1
    <3>4. CASE p # mp /\ q # mp BY <2>2, <3>4, <1>4 DEF DeadInv
    <3> QED BY <3>1, <3>2, <3>3, <3>4
  <2> QED BY <2>1, <2>2, <1>2, <1>3 DEF DeadInv
<1>11. TableInv(ta) BY <1>2, <1>3, <1>4, <1>6, <1>7, <1>9, <1>10 DEF TableInv
<1>12. mp \in LiveHolding(ta, k) BY <1>1, <1>2 DEF LiveHolding, Holding, TableShape
<1>13. \A j \in Keys, v \in Vals : NodeHas(ta, j, v) <=> NodeHas(tb, j, v)
  BY <1>1, <1>2, KeyAssumption DEF NodeHas
<1> QED BY <1>2, <1>11, <1>12, <1>13 DEF Inserted

\* The main position belongs to the key that is there; k goes behind it.
LEMMA PutBehind ==
  ASSUME NEW tb, TableInv(tb), NEW k, Absent(tb, k), ~tb.dummy,
         NEW mp, mp = mainposition(tb, k), tb.node[mp].val # Nil, Home(tb, mp) = mp,
         NEW n \in Nodes(tb), tb.node[n].key = Nil,
         \A p \in Nodes(tb) : p > n => tb.node[p].key # Nil,
         NEW ta, TableShape(ta), SameParts(ta, tb), ta.lastfree = n,
         \A p \in Nodes(tb) \ {mp, n} : ta.node[p] = tb.node[p],
         ta.node[n].key = k, ta.node[n].val = Nil, ~ta.node[n].dead,
         ta.node[n].next = tb.node[mp].next, ta.node[mp].next = n,
         ta.node[mp].key = tb.node[mp].key, ta.node[mp].val = tb.node[mp].val,
         ta.node[mp].dead = tb.node[mp].dead
  PROVE  Inserted(ta, n, tb, k)
<1> DEFINE N == Nodes(tb)
           nx == Links(tb)
           ny == Links(ta)
<1>1. /\ k \in Keys /\ k # Nil /\ ~InArray(tb, k) /\ mp \in N
      /\ \A q \in N : tb.node[q].key = k => tb.node[q].dead /\ Home(tb, q) = mp
  BY AbsentHome
<1>2. /\ Nodes(ta) = N /\ \A j : mainposition(ta, j) = mainposition(tb, j)
      /\ \A j : InArray(ta, j) <=> InArray(tb, j)
  BY SameFacts
<1>4. TableShape(tb) /\ Chained(N, nx) /\ FreeInv(tb) /\ HomeInv(tb) /\ DeadInv(tb) /\ ArrayInv(tb)
  BY DEF TableInv
<1>5. tb.node[mp].key # Nil /\ mp # n /\ ~tb.node[mp].dead
  BY <1>1, <1>4 DEF FreeInv, DeadInv
<1>6. Linking(N, nx) /\ \A p \in N : nx[p] = tb.node[p].next BY <1>4, LinksType
<1>7. Loose(N, nx, n) BY <1>4, <1>6 DEF FreeInv, Loose
<1>8. ny = [nx EXCEPT ![n] = nx[mp], ![mp] = n]
  <2>1. /\ ny = [p \in N |-> ta.node[p].next]
        /\ nx = [p \in N |-> tb.node[p].next]
    BY <1>2 DEF Links
  <2>2. \A p \in N : ta.node[p].next = IF p = mp THEN n
                                       ELSE IF p = n THEN nx[mp] ELSE nx[p]
    BY <1>1, <1>5, <1>6
  <2> HIDE DEF N, nx, ny
  <2> QED BY <2>1, <2>2, <1>1, <1>5
<1>9. /\ Linking(N, ny) /\ Chained(N, ny)
      /\ \A p, q \in N : Reaches(N, nx, p, q) => Reaches(N, ny, p, q)
      /\ Reaches(N, ny, mp, n)
      /\ \A q \in N : q # mp /\ Reaches(N, nx, mp, q) => Reaches(N, ny, n, q)
  <2>1. /\ Linking(N, nx) /\ Chained(N, nx) /\ Loose(N, nx, n) /\ mp \in N /\ mp # n
        /\ ny = [nx EXCEPT ![n] = nx[mp], ![mp] = n]
    BY <1>1, <1>4, <1>5, <1>6, <1>7, <1>8
  <2> HIDE DEF N, nx, ny
  <2>2. LinkedBehind(N, nx, ny, mp, n) BY <2>1, InsertedLink
  <2> QED BY <2>2 DEF LinkedBehind
<1>10. ArrayInv(ta) BY <1>4 DEF ArrayInv, SameParts
<1>11. FreeInv(ta)
  <2>1. ASSUME NEW p \in N, ta.node[p].key = Nil
        PROVE  /\ ta.node[p].val = Nil /\ ta.node[p].next = NoNode /\ ~ta.node[p].dead
               /\ \A q \in N : ta.node[q].next # p
    <3>1. p # n /\ p # mp /\ tb.node[p].key = Nil /\ ta.node[p] = tb.node[p]
      BY <2>1, <1>1, <1>5
    <3>2. \A q \in N : tb.node[q].next # p BY <3>1, <1>4 DEF FreeInv
    <3>3. \A q \in N : ta.node[q].next # p BY <3>1, <3>2, <1>1
    <3> QED BY <3>1, <3>3, <1>4 DEF FreeInv
  <2>2. ASSUME NEW p \in N, p >= ta.lastfree PROVE ta.node[p].key # Nil
    <3>1. p = n \/ p > n BY <2>2, <1>4, SizeFacts DEF TableShape, Nodes
    <3> QED BY <3>1, <1>1, <1>5
  <2> QED BY <2>1, <2>2, <1>2 DEF FreeInv
<1>12. \A p \in N : Home(ta, p) = IF p = n THEN mp ELSE Home(tb, p)
  BY <1>2 DEF Home
<1>13. HomeInv(ta)
  <2> SUFFICES ASSUME NEW p \in N, ta.node[p].key # Nil
               PROVE  /\ ~ta.dummy /\ ~InArray(ta, ta.node[p].key)
                      /\ Reaches(N, ny, Home(ta, p), p)
                      /\ ta.node[Home(ta, p)].key # Nil /\ Home(ta, Home(ta, p)) = Home(ta, p)
    BY <1>2 DEF HomeInv
  <2>1. ~ta.dummy BY DEF SameParts
  <2>2. CASE p = n BY <2>1, <2>2, <1>1, <1>2, <1>5, <1>9, <1>12
  <2>3. CASE p # n
    <3>1. tb.node[p].key # Nil /\ ta.node[p].key = tb.node[p].key BY <2>3
    <3>2. Home(tb, p) \in N BY <3>1, <1>4, HomeRange
    <3>3. /\ ~InArray(tb, tb.node[p].key) /\ Reaches(N, nx, Home(tb, p), p)
          /\ tb.node[Home(tb, p)].key # Nil /\ Home(tb, Home(tb, p)) = Home(tb, p)
      BY <3>1, <1>4 DEF HomeInv
    <3>4. Home(tb, p) # n BY <3>3
    <3>5. ta.node[Home(tb, p)].key # Nil BY <3>2, <3>3, <3>4, <1>5
    <3> QED BY <2>1, <2>3, <3>1, <3>2, <3>3, <3>4, <3>5, <1>2, <1>9, <1>12
  <2> QED BY <2>2, <2>3
<1>14. DeadInv(ta)
  <2>1. \A p \in N : ta.node[p].dead => ta.node[p].val = Nil BY <1>1, <1>4 DEF DeadInv
  <2>2. ASSUME NEW p \in N, NEW q \in N, ta.node[p].key # Nil,
               ta.node[p].key = ta.node[q].key, ~ta.node[p].dead
        PROVE  (~ta.node[q].dead => p = q) /\ Reaches(N, ny, p, q)
    <3>1. CASE p = n /\ q = n BY <3>1, <1>9, ReachesFacts
    <3>2. CASE p = n /\ q # n
      <4>1. tb.node[q].key = k BY <2>2, <3>2
      <4>2. tb.node[q].dead /\ Home(tb, q) = mp BY <4>1, <1>1
      <4>3. q # mp BY <4>2, <1>5
      <4>4. Reaches(N, nx, mp, q) BY <4>1, <4>2, <1>1, <1>4 DEF HomeInv
      <4> QED BY <3>2, <4>2, <4>3, <4>4, <1>9
    <3>3. CASE p # n /\ q = n BY <2>2, <3>3, <1>1, <1>5
    <3>4. CASE p # n /\ q # n
      <4>1. /\ tb.node[p].key # Nil /\ tb.node[p].key = tb.node[q].key /\ ~tb.node[p].dead
            /\ ta.node[q].dead = tb.node[q].dead
        BY <2>2, <3>4
      <4>2. (~tb.node[q].dead => p = q) /\ Reaches(N, nx, p, q) BY <4>1, <1>4 DEF DeadInv
      <4> QED BY <4>1, <4>2, <1>9
    <3> QED BY <3>1, <3>2, <3>3, <3>4
  <2> QED BY <2>1, <2>2, <1>2 DEF DeadInv
<1>15. TableInv(ta) BY <1>2, <1>9, <1>10, <1>11, <1>13, <1>14 DEF TableInv
<1>16. n \in LiveHolding(ta, k) BY <1>2 DEF LiveHolding, Holding, TableShape
<1>17. \A j \in Keys, v \in Vals : NodeHas(ta, j, v) <=> NodeHas(tb, j, v)
  <2>1. tb.node[n].val = Nil BY <1>4 DEF FreeInv
  <2>2. \A p \in N \ {n} : ta.node[p].key = tb.node[p].key /\ ta.node[p].val = tb.node[p].val
    OBVIOUS
  <2> QED BY <2>1, <2>2, <1>2, KeyAssumption DEF NodeHas
<1> QED BY <1>2, <1>15, <1>16, <1>17 DEF Inserted

\* No key belongs to a main position whose occupant is not at home.
LEMMA NobodyAtHome ==
  ASSUME NEW tb, TableInv(tb), NEW mp \in Nodes(tb), tb.node[mp].key # Nil,
         Home(tb, mp) # mp
  PROVE  \A q \in Nodes(tb) : tb.node[q].key # Nil => Home(tb, q) # mp
BY DEF TableInv, HomeInv

\* The node that leads to mp.
LEMMA PredecessorFound ==
  ASSUME NEW tb, TableInv(tb), NEW mp \in Nodes(tb), tb.node[mp].key # Nil,
         Home(tb, mp) # mp
  PROVE  LET prev == InChain(tb, Home(tb, mp), LeadingTo(tb, mp))
         IN  prev \in Nodes(tb) /\ tb.node[prev].next = mp
<1> DEFINE N == Nodes(tb)
           nx == Links(tb)
           S == LeadingTo(tb, mp)
           C == Candidates(N, nx, S, Home(tb, mp))
<1>1. TableShape(tb) /\ Chained(N, nx) /\ HomeInv(tb) BY DEF TableInv
<1>2. Linking(N, nx) /\ \A p \in N : nx[p] = tb.node[p].next BY <1>1, LinksType
<1>3. Home(tb, mp) \in N /\ Reaches(N, nx, Home(tb, mp), mp)
  BY <1>1, HomeRange DEF HomeInv
<1>4. PICK r \in N : Reaches(N, nx, Home(tb, mp), r) /\ nx[r] = mp
  BY <1>2, <1>3, ReachesLast
<1>5. DOMAIN tb.node = N BY <1>1 DEF TableShape
<1>6. Home(tb, mp) # NoNode BY <1>1, <1>3, SizeFacts DEF TableShape
<1>7. r \in C BY <1>2, <1>4, <1>5, <1>6 DEF Candidates, LeadingTo
<1>8. sizenode(tb) \in Nat BY <1>1, SizeFacts DEF TableShape
<1>9. InChain(tb, Home(tb, mp), S) = First(N, nx, S, Home(tb, mp))
  BY <1>1, <1>2, <1>3, <1>8, InChainIsFirst
<1>10. First(N, nx, S, Home(tb, mp)) \in C
  <2> HIDE DEF N, nx, S
  <2> QED BY <1>1, <1>2, <1>3, <1>7, FirstMeaning
<1>11. \A p \in C : p \in N /\ tb.node[p].next = mp BY <1>5 DEF Candidates, LeadingTo
<1> QED BY <1>9, <1>10, <1>11

\* The main position is another key's; that key moves to the free node n.
LEMMA PutMoved ==
  ASSUME NEW tb, TableInv(tb), NEW k, Absent(tb, k), ~tb.dummy,
         NEW mp, mp = mainposition(tb, k), tb.node[mp].val # Nil, Home(tb, mp) # mp,
         NEW n \in Nodes(tb), tb.node[n].key = Nil,
         \A p \in Nodes(tb) : p > n => tb.node[p].key # Nil,
         NEW prev \in Nodes(tb), tb.node[prev].next = mp,
         NEW ta, TableShape(ta), SameParts(ta, tb), ta.lastfree = n,
         \A p \in Nodes(tb) \ {mp, n, prev} : ta.node[p] = tb.node[p],
         ta.node[mp].key = k, ta.node[mp].val = Nil, ~ta.node[mp].dead,
         ta.node[mp].next = NoNode,
         prev \notin {mp, n} =>
           /\ ta.node[prev].key = tb.node[prev].key /\ ta.node[prev].val = tb.node[prev].val
           /\ ta.node[prev].dead = tb.node[prev].dead /\ ta.node[prev].next = n,
         ta.node[n] = tb.node[mp]
  PROVE  Inserted(ta, mp, tb, k)
<1> DEFINE N == Nodes(tb)
           nx == Links(tb)
           ny == Links(ta)
<1>1. /\ k \in Keys /\ k # Nil /\ ~InArray(tb, k) /\ mp \in N
      /\ \A q \in N : tb.node[q].key = k => tb.node[q].dead /\ Home(tb, q) = mp
  BY AbsentHome
<1>2. /\ Nodes(ta) = N /\ \A j : mainposition(ta, j) = mainposition(tb, j)
      /\ \A j : InArray(ta, j) <=> InArray(tb, j)
  BY SameFacts
<1>3. NoNode \notin N BY SizeFacts DEF TableInv, TableShape
<1>4. TableShape(tb) /\ Chained(N, nx) /\ FreeInv(tb) /\ HomeInv(tb) /\ DeadInv(tb) /\ ArrayInv(tb)
  BY DEF TableInv
<1>5. tb.node[mp].key # Nil /\ mp # n /\ ~tb.node[mp].dead
  BY <1>1, <1>4 DEF FreeInv, DeadInv
<1>6. Linking(N, nx) /\ \A p \in N : nx[p] = tb.node[p].next BY <1>4, LinksType
<1>7. Loose(N, nx, n) BY <1>4, <1>6 DEF FreeInv, Loose
<1>8. prev # n /\ prev # mp
  <2>1. prev # n BY <1>1, <1>3, <1>6, <1>7 DEF Loose
  <2>2. Reaches(N, nx, mp, mp) BY <1>1, <1>6, ReachesFacts
  <2>3. nx[mp] # mp BY <2>2, <1>1, <1>3, <1>4 DEF Chained
  <2> QED BY <2>1, <2>3, <1>6
<1>9. /\ ta.node[prev].key = tb.node[prev].key /\ ta.node[prev].val = tb.node[prev].val
      /\ ta.node[prev].dead = tb.node[prev].dead /\ ta.node[prev].next = n
  BY <1>8
<1>10. LinkedInstead(N, nx, ny, mp, n)
  <2>1. /\ ny = [p \in N |-> ta.node[p].next]
        /\ nx = [p \in N |-> tb.node[p].next]
    BY <1>2 DEF Links
  <2>2. \A p \in N : ta.node[p].next = IF p = prev THEN n ELSE IF p = mp THEN NoNode
                                       ELSE IF p = n THEN nx[mp] ELSE nx[p]
    BY <1>1, <1>5, <1>6, <1>8, <1>9
  <2> HIDE DEF N, nx, ny
  <2>3. ny = [nx EXCEPT ![prev] = n, ![n] = nx[mp], ![mp] = NoNode]
    BY <2>1, <2>2, <1>1, <1>5, <1>8
  <2>4. nx[prev] = mp /\ prev \in N BY <1>6 DEF N
  <2> QED BY <2>3, <2>4, <1>1, <1>4, <1>5, <1>6, <1>7, MovedLink
<1>11. /\ Linking(N, ny) /\ Chained(N, ny)
       /\ \A p, q \in N :
            Reaches(N, nx, p, q) =>
              Reaches(N, ny, IF p = mp THEN n ELSE IF p = n THEN mp ELSE p,
                             IF q = mp THEN n ELSE IF q = n THEN mp ELSE q)
  BY <1>10 DEF LinkedInstead
<1>12. ArrayInv(ta) BY <1>4 DEF ArrayInv, SameParts
<1>13. \A p \in N \ {mp, n} : /\ ta.node[p].key = tb.node[p].key
                              /\ ta.node[p].val = tb.node[p].val
                              /\ ta.node[p].dead = tb.node[p].dead
  BY <1>9
<1>14. FreeInv(ta)
  <2>1. ASSUME NEW p \in N, ta.node[p].key = Nil
        PROVE  /\ ta.node[p].val = Nil /\ ta.node[p].next = NoNode /\ ~ta.node[p].dead
               /\ \A q \in N : ta.node[q].next # p
    <3>1. p # n /\ p # mp BY <2>1, <1>1, <1>5
    <3>2. tb.node[p].key = Nil BY <2>1, <3>1, <1>13
    <3>3. /\ tb.node[p].val = Nil /\ tb.node[p].next = NoNode /\ ~tb.node[p].dead
          /\ \A q \in N : tb.node[q].next # p
      BY <3>2, <1>4 DEF FreeInv
    <3>4. p # prev BY <3>3, <1>1, <1>3
    <3>5. \A q \in N : ta.node[q].next # p
      <4> TAKE q \in N
      <4>1. CASE q = prev BY <4>1, <3>1, <1>9
      <4>2. CASE q = mp BY <4>2, <1>3
      <4>3. CASE q = n BY <4>3, <3>3, <1>1
      <4>4. CASE q \notin {mp, n, prev} BY <4>4, <3>3
      <4> QED BY <4>1, <4>2, <4>3, <4>4
    <3> QED BY <3>1, <3>3, <3>4, <3>5
  <2>2. ASSUME NEW p \in N, p >= ta.lastfree PROVE ta.node[p].key # Nil
    <3>1. p = n \/ p > n BY <2>2, <1>4, SizeFacts DEF TableShape, Nodes
    <3>2. CASE p = n BY <3>2, <1>5
    <3>3. CASE p = mp BY <3>3, <1>1
    <3>4. CASE p > n /\ p # mp /\ p # n BY <3>4, <1>13
    <3> QED BY <3>1, <3>2, <3>3, <3>4
  <2> QED BY <2>1, <2>2, <1>2 DEF FreeInv
<1>15. \A p \in N : Home(ta, p) = IF p = mp THEN mp
                                  ELSE IF p = n THEN Home(tb, mp) ELSE Home(tb, p)
  <2> TAKE p \in N
  <2>1. CASE p = mp BY <2>1, <1>2 DEF Home
  <2>2. CASE p = n BY <2>2, <1>2, <1>5 DEF Home
  <2>3. CASE p \notin {mp, n} BY <2>3, <1>2, <1>5, <1>13 DEF Home
  <2> QED BY <2>1, <2>2, <2>3
\* Keys that were there have other homes, and these are where they were.
<1>16. ASSUME NEW p \in N, tb.node[p].key # Nil
       PROVE  /\ Home(tb, p) \in N /\ Home(tb, p) # mp /\ Home(tb, p) # n
              /\ ~InArray(tb, tb.node[p].key) /\ Reaches(N, nx, Home(tb, p), p)
              /\ ta.node[Home(tb, p)].key # Nil /\ Home(ta, Home(tb, p)) = Home(tb, p)
              /\ Reaches(N, ny, Home(tb, p), IF p = mp THEN n ELSE p)
  <2>1. Home(tb, p) \in N BY <1>16, <1>4, HomeRange
  <2>2. /\ ~InArray(tb, tb.node[p].key) /\ Reaches(N, nx, Home(tb, p), p)
        /\ tb.node[Home(tb, p)].key # Nil /\ Home(tb, Home(tb, p)) = Home(tb, p)
    BY <1>16, <1>4 DEF HomeInv
  <2>3. Home(tb, p) # mp BY <1>1, <1>5, <1>16, NobodyAtHome
  <2>4. Home(tb, p) # n BY <2>2
  <2>5. p # n BY <1>16
  <2>6. ta.node[Home(tb, p)].key # Nil BY <2>1, <2>2, <2>3, <2>4, <1>13
  <2>7. Home(ta, Home(tb, p)) = Home(tb, p) BY <2>1, <2>2, <2>3, <2>4, <1>15
  <2>8. Reaches(N, ny, Home(tb, p), IF p = mp THEN n ELSE p)
    BY <2>1, <2>2, <2>3, <2>4, <2>5, <1>11
  <2> QED BY <2>1, <2>2, <2>3, <2>4, <2>6, <2>7, <2>8
<1>17. Reaches(N, ny, mp, mp) BY <1>1, <1>11, ReachesFacts
<1>18. HomeInv(ta)
  <2> SUFFICES ASSUME NEW p \in N, ta.node[p].key # Nil
               PROVE  /\ ~ta.dummy /\ ~InArray(ta, ta.node[p].key)
                      /\ Reaches(N, ny, Home(ta, p), p)
                      /\ ta.node[Home(ta, p)].key # Nil /\ Home(ta, Home(ta, p)) = Home(ta, p)
    BY <1>2 DEF HomeInv
  <2>1. ~ta.dummy BY DEF SameParts
  <2>2. CASE p = mp BY <2>1, <2>2, <1>1, <1>2, <1>15, <1>17
  <2>3. CASE p = n
    <3>1. Home(ta, p) = Home(tb, mp) /\ ta.node[p].key = tb.node[mp].key
      BY <2>3, <1>5, <1>15
    <3> QED BY <2>1, <2>3, <3>1, <1>1, <1>2, <1>5, <1>16
  <2>4. CASE p # n /\ p # mp
    <3>1. Home(ta, p) = Home(tb, p) /\ ta.node[p].key = tb.node[p].key
      BY <2>4, <1>13, <1>15
    <3>2. tb.node[p].key # Nil BY <3>1
    <3> QED BY <2>1, <2>4, <3>1, <3>2, <1>2, <1>16
  <2> QED BY <2>2, <2>3, <2>4
\* Nobody else has the key k.
<1>19. \A q \in N : tb.node[q].key # k BY <1>1, <1>16
<1>20. DeadInv(ta)
  <2>1. \A p \in N : ta.node[p].dead => ta.node[p].val = Nil
    BY <1>1, <1>4, <1>5, <1>13 DEF DeadInv
  <2>2. ASSUME NEW p \in N, NEW q \in N, ta.node[p].key # Nil,
               ta.node[p].key = ta.node[q].key, ~ta.node[p].dead
        PROVE  (~ta.node[q].dead => p = q) /\ Reaches(N, ny, p, q)
    <3>1. CASE p = mp
      <4>1. q = mp BY <2>2, <3>1, <1>1, <1>13, <1>19
      <4> QED BY <3>1, <4>1, <1>17
    <3>2. CASE p # mp
      <4> DEFINE old(x) == IF x = n THEN mp ELSE x
      <4>1. q # mp BY <2>2, <3>2, <1>1, <1>13, <1>19
      <4>2. /\ old(p) \in N /\ old(q) \in N /\ old(p) # n /\ old(q) # n
            /\ old(p) = old(q) => p = q
        BY <3>2, <4>1, <1>1, <1>5
      <4>3. /\ ta.node[p].key = tb.node[old(p)].key /\ ta.node[q].key = tb.node[old(q)].key
            /\ ta.node[p].dead = tb.node[old(p)].dead /\ ta.node[q].dead = tb.node[old(q)].dead
        BY <3>2, <4>1, <1>13
      <4>4. (~tb.node[old(q)].dead => old(p) = old(q)) /\ Reaches(N, nx, old(p), old(q))
        BY <2>2, <4>2, <4>3, <1>4 DEF DeadInv
      <4>5. Reaches(N, ny, p, q)
        <5>1. Reaches(N, ny, IF old(p) = mp THEN n ELSE IF old(p) = n THEN mp ELSE old(p),
                             IF old(q) = mp THEN n ELSE IF old(q) = n THEN mp ELSE old(q))
          BY <4>2, <4>4, <1>11
        <5> QED BY <5>1, <3>2, <4>1, <1>5
      <4> HIDE DEF old
      <4> QED BY <4>2, <4>3, <4>4, <4>5
    <3> QED BY <3>1, <3>2
  <2> QED BY <2>1, <2>2, <1>2 DEF DeadInv
<1>21. TableInv(ta) BY <1>2, <1>11, <1>12, <1>14, <1>18, <1>20 DEF TableInv
<1>22. mp \in LiveHolding(ta, k) BY <1>1, <1>2 DEF LiveHolding, Holding, TableShape
<1>23. \A j \in Keys, v \in Vals : NodeHas(ta, j, v) <=> NodeHas(tb, j, v)
  <2>1. tb.node[n].val = Nil BY <1>4 DEF FreeInv
  <2>2. Nil \notin Vals BY KeyAssumption
  <2> SUFFICES ASSUME NEW j \in Keys, NEW v \in Vals PROVE NodeHas(ta, j, v) <=> NodeHas(tb, j, v)
    OBVIOUS
  <2>3. ASSUME NodeHas(ta, j, v) PROVE NodeHas(tb, j, v)
    <3>1. PICK p \in N : ta.node[p].key = j /\ ta.node[p].val = v BY <2>3, <1>2 DEF NodeHas
    <3>2. p # mp BY <3>1, <2>2
    <3>3. CASE p = n BY <3>1, <3>3, <1>1 DEF NodeHas
    <3>4. CASE p # n BY <3>1, <3>2, <3>4, <1>13 DEF NodeHas
    <3> QED BY <3>3, <3>4
  <2>4. ASSUME NodeHas(tb, j, v) PROVE NodeHas(ta, j, v)
    <3>1. PICK p \in N : tb.node[p].key = j /\ tb.node[p].val = v BY <2>4 DEF NodeHas
    <3>2. p # n BY <3>1, <2>1, <2>2
    <3>3. CASE p = mp BY <3>1, <3>3, <1>2 DEF NodeHas
    <3>4. CASE p # mp BY <3>1, <3>2, <3>4, <1>2, <1>13 DEF NodeHas
    <3> QED BY <3>3, <3>4
  <2> QED BY <2>3, <2>4
<1>24. ASSUME \A p \in N : tb.node[p].key # Nil => tb.node[p].val # Nil
       PROVE  \A p \in N \ {mp} : ta.node[p].key # Nil => ta.node[p].val # Nil
  BY <1>24, <1>13
<1> QED BY <1>2, <1>21, <1>22, <1>23, <1>24 DEF Inserted

NodeType(tb) == [key : Keys \cup {Nil}, val : Slots,
                 next : Nodes(tb) \cup {NoNode}, dead : BOOLEAN]

\* ta is tb but for its nodes and the mark of getfreepos.
Renoded(ta, tb, lf, nd) ==
  TableShape(ta) /\ SameParts(ta, tb) /\ ta.lastfree = lf /\ ta.node = nd

LEMMA OtherNodes ==
  ASSUME NEW tb, TableShape(tb), NEW nd \in [Nodes(tb) -> NodeType(tb)], NEW ta,
         NEW lf \in 0 .. sizenode(tb),
         ta = [array |-> tb.array, sizearray |-> tb.sizearray, lsizenode |-> tb.lsizenode,
               node |-> nd, lastfree |-> lf, dummy |-> tb.dummy,
               flags |-> tb.flags, self |-> tb.self, full |-> tb.full]
  PROVE  Renoded(ta, tb, lf, nd)
<1>2. /\ ta.node = nd /\ ta.lastfree = lf /\ SameParts(ta, tb)
      /\ ta = [array |-> ta.array, sizearray |-> ta.sizearray, lsizenode |-> ta.lsizenode,
            node |-> ta.node, lastfree |-> ta.lastfree, dummy |-> ta.dummy,
            flags |-> ta.flags, self |-> ta.self, full |-> ta.full]
  BY DEF SameParts
<1>3. Nodes(ta) = Nodes(tb) /\ sizenode(ta) = sizenode(tb) BY <1>2, SameFacts
<1>4. ta.node \in [Nodes(ta) -> NodeType(ta)] BY <1>2, <1>3 DEF NodeType
<1> QED BY <1>2, <1>3, <1>4 DEF TableShape, SameParts, NodeType, Renoded

LEMMA NodesReplaced ==
  ASSUME NEW tb, TableShape(tb), NEW nd \in [Nodes(tb) -> NodeType(tb)]
  PROVE  Renoded([tb EXCEPT !.node = nd], tb, tb.lastfree, nd)
<1> DEFINE ta == [tb EXCEPT !.node = nd]
<1>1. ta = [array |-> tb.array, sizearray |-> tb.sizearray, lsizenode |-> tb.lsizenode,
            node |-> nd, lastfree |-> tb.lastfree, dummy |-> tb.dummy,
            flags |-> tb.flags, self |-> tb.self, full |-> tb.full]
  BY DEF TableShape
<1>2. tb.lastfree \in 0 .. sizenode(tb) BY DEF TableShape
<1> HIDE DEF ta
<1> QED BY <1>1, <1>2, OtherNodes DEF ta

LEMMA NodesAndMarkReplaced ==
  ASSUME NEW tb, TableShape(tb), NEW nd \in [Nodes(tb) -> NodeType(tb)],
         NEW lf \in 0 .. sizenode(tb), NEW ta, ta = [tb EXCEPT !.lastfree = lf, !.node = nd]
  PROVE  Renoded(ta, tb, lf, nd)
<1>1. ta = [array |-> tb.array, sizearray |-> tb.sizearray, lsizenode |-> tb.lsizenode,
            node |-> nd, lastfree |-> lf, dummy |-> tb.dummy,
            flags |-> tb.flags, self |-> tb.self, full |-> tb.full]
  BY DEF TableShape
<1> QED BY <1>1, OtherNodes

\* A node with another key, another link, another value.
LEMMA NodeFields ==
  ASSUME NEW tb, NEW x \in NodeType(tb)
  PROVE  /\ \A k : [x EXCEPT !.key = k, !.dead = FALSE]
                     = [key |-> k, val |-> x.val, next |-> x.next, dead |-> FALSE]
         /\ \A n : [x EXCEPT !.next = n]
                     = [key |-> x.key, val |-> x.val, next |-> n, dead |-> x.dead]
         /\ \A v : [x EXCEPT !.val = v]
                     = [key |-> x.key, val |-> v, next |-> x.next, dead |-> x.dead]
         /\ [x EXCEPT !.dead = TRUE]
              = [key |-> x.key, val |-> x.val, next |-> x.next, dead |-> TRUE]
         /\ x.key \in Keys \cup {Nil} /\ x.val \in Slots
         /\ x.next \in Nodes(tb) \cup {NoNode} /\ x.dead \in BOOLEAN
<1>1. ASSUME NEW k
      PROVE  [x EXCEPT !.key = k, !.dead = FALSE]
               = [key |-> k, val |-> x.val, next |-> x.next, dead |-> FALSE]
  <2> DEFINE y == [x EXCEPT !.key = k]
  <2>1. y = [key |-> k, val |-> x.val, next |-> x.next, dead |-> x.dead] BY DEF NodeType
  <2> HIDE DEF y
  <2>2. \A b : [y EXCEPT !.dead = b] = [key |-> k, val |-> x.val, next |-> x.next, dead |-> b]
    BY <2>1
  <2>3. [y EXCEPT !.dead = FALSE] = [key |-> k, val |-> x.val, next |-> x.next, dead |-> FALSE]
    BY <2>2, Zenon
  <2> QED BY <2>3 DEF y
<1>2. \A n : [x EXCEPT !.next = n]
               = [key |-> x.key, val |-> x.val, next |-> n, dead |-> x.dead]
  BY DEF NodeType
<1>3. \A v : [x EXCEPT !.val = v]
               = [key |-> x.key, val |-> v, next |-> x.next, dead |-> x.dead]
  BY DEF NodeType
<1>4. [x EXCEPT !.dead = TRUE]
        = [key |-> x.key, val |-> x.val, next |-> x.next, dead |-> TRUE]
  <2>1. \A b : [x EXCEPT !.dead = b]
               = [key |-> x.key, val |-> x.val, next |-> x.next, dead |-> b]
    BY DEF NodeType
  <2> QED BY <2>1, Zenon
<1>5. /\ x.key \in Keys \cup {Nil} /\ x.val \in Slots
      /\ x.next \in Nodes(tb) \cup {NoNode} /\ x.dead \in BOOLEAN
  BY DEF NodeType
<1> QED BY <1>1, <1>2, <1>3, <1>4, <1>5

LEMMA NodeCleared ==
  ASSUME NEW tb, NEW x \in NodeType(tb), NEW n, NEW v
  PROVE  [x EXCEPT !.next = n, !.val = v]
           = [key |-> x.key, val |-> v, next |-> n, dead |-> x.dead]
<1> DEFINE y == [x EXCEPT !.next = n]
<1>1. y = [key |-> x.key, val |-> x.val, next |-> n, dead |-> x.dead] BY NodeFields
<1> HIDE DEF y
<1>2. [y EXCEPT !.val = v] = [key |-> x.key, val |-> v, next |-> n, dead |-> x.dead]
  BY <1>1
<1> QED BY <1>2 DEF y

LEMMA NodesTyped ==
  ASSUME NEW tb, TableShape(tb)
  PROVE  /\ tb.node \in [Nodes(tb) -> NodeType(tb)] /\ tb.lastfree \in 0 .. sizenode(tb)
         /\ \A p \in Nodes(tb) : tb.node[p] \in NodeType(tb)
BY DEF TableShape, NodeType

LEMMA PutKeyFields ==
  ASSUME NEW tb, TableShape(tb), NEW k \in Keys, NEW p \in Nodes(tb),
         NEW ta, ta = PutKey(tb, k, p).tb
  PROVE  /\ PutKey(tb, k, p).at = p
         /\ TableShape(ta) /\ SameParts(ta, tb) /\ ta.lastfree = tb.lastfree
         /\ \A q \in Nodes(tb) \ {p} : ta.node[q] = tb.node[q]
         /\ ta.node[p].key = k /\ ~ta.node[p].dead
         /\ ta.node[p].val = tb.node[p].val /\ ta.node[p].next = tb.node[p].next
<1> DEFINE x == tb.node[p]
           new == [key |-> k, val |-> x.val, next |-> x.next, dead |-> FALSE]
           nd == [tb.node EXCEPT ![p] = [x EXCEPT !.key = k, !.dead = FALSE]]
<1>1. tb.node \in [Nodes(tb) -> NodeType(tb)] /\ x \in NodeType(tb) BY NodesTyped
<1>2. nd = [tb.node EXCEPT ![p] = new] BY <1>1, NodeFields
<1>3. new \in NodeType(tb) BY <1>1, NodeFields DEF NodeType
<1>4. nd \in [Nodes(tb) -> NodeType(tb)] BY <1>1, <1>2, <1>3
<1>5. ta = [tb EXCEPT !.node = nd] BY DEF PutKey
<1>6. Renoded(ta, tb, tb.lastfree, nd)
  <2> HIDE DEF nd
  <2> QED BY <1>4, <1>5, NodesReplaced
<1>7. nd[p] = new /\ \A q \in Nodes(tb) \ {p} : nd[q] = tb.node[q] BY <1>1, <1>2
<1>8. PutKey(tb, k, p).at = p BY DEF PutKey
<1> HIDE DEF nd
<1> QED BY <1>6, <1>7, <1>8 DEF Renoded

LEMMA ChainBehindFields ==
  ASSUME NEW tb, TableShape(tb), NEW mp \in Nodes(tb), NEW n \in Nodes(tb), n # mp,
         NEW ta, ta = ChainBehind(tb, mp, n)
  PROVE  /\ TableShape(ta) /\ SameParts(ta, tb) /\ ta.lastfree = n
         /\ \A q \in Nodes(tb) \ {mp, n} : ta.node[q] = tb.node[q]
         /\ ta.node[n].key = tb.node[n].key /\ ta.node[n].dead = tb.node[n].dead
         /\ ta.node[n].val = tb.node[n].val /\ ta.node[n].next = tb.node[mp].next
         /\ ta.node[mp].key = tb.node[mp].key /\ ta.node[mp].dead = tb.node[mp].dead
         /\ ta.node[mp].val = tb.node[mp].val /\ ta.node[mp].next = n
<1> DEFINE x == tb.node[n]
           y == tb.node[mp]
           nx == [key |-> x.key, val |-> x.val, next |-> y.next, dead |-> x.dead]
           ny == [key |-> y.key, val |-> y.val, next |-> n, dead |-> y.dead]
           nd == [tb.node EXCEPT ![n].next = tb.node[mp].next, ![mp].next = n]
<1>1. tb.node \in [Nodes(tb) -> NodeType(tb)] /\ x \in NodeType(tb) /\ y \in NodeType(tb)
      /\ n \in 0 .. sizenode(tb)
  BY NodesTyped, SizeFacts, SMTT(30) DEF Nodes, TableShape
<1>2. [x EXCEPT !.next = y.next] = nx /\ [y EXCEPT !.next = n] = ny BY <1>1, NodeFields
<1>3. nx \in NodeType(tb) /\ ny \in NodeType(tb) BY <1>1, NodeFields DEF NodeType
<1>4. nd = [tb.node EXCEPT ![n] = nx, ![mp] = ny]
  <2> DEFINE nd1 == [tb.node EXCEPT ![n] = [x EXCEPT !.next = y.next]]
  <2>1. nd1 = [tb.node EXCEPT ![n] = nx] BY <1>2
  <2>2. nd = [nd1 EXCEPT ![mp] = [nd1[mp] EXCEPT !.next = n]] OBVIOUS
  <2>3. nd1[mp] = y BY <2>1, <1>1
  <2> HIDE DEF nd1, nd, x, y, nx, ny
  <2>4. nd = [nd1 EXCEPT ![mp] = ny] BY <2>2, <2>3, <1>2
  <2> QED BY <2>1, <2>4
<1>5. /\ nd \in [Nodes(tb) -> NodeType(tb)] /\ nd[n] = nx /\ nd[mp] = ny
      /\ \A q \in Nodes(tb) \ {mp, n} : nd[q] = tb.node[q]
  <2> HIDE DEF nd, nx, ny
  <2> QED BY <1>1, <1>3, <1>4
<1>6. ta = [tb EXCEPT !.lastfree = n, !.node = nd]
  <2> DEFINE t1 == [tb EXCEPT !.lastfree = n]
  <2>2. ta = [t1 EXCEPT !.node = [tb.node EXCEPT ![n].next = tb.node[mp].next, ![mp].next = n]]
    BY DEF ChainBehind
  <2> HIDE DEF t1
  <2>3. ta = [t1 EXCEPT !.node = nd] BY <2>2
  <2> HIDE DEF nd
  <2> QED BY <2>3 DEF t1
<1>7. Renoded(ta, tb, n, nd)
  <2> HIDE DEF nd
  <2> QED BY <1>1, <1>5, <1>6, NodesAndMarkReplaced
<1> HIDE DEF nd
<1> QED BY <1>5, <1>7 DEF Renoded

LEMMA MoveCollidingFields ==
  ASSUME NEW tb, TableShape(tb), NEW mp \in Nodes(tb), NEW n \in Nodes(tb), n # mp,
         NEW othern, NEW prev \in Nodes(tb), prev = InChain(tb, othern, LeadingTo(tb, mp)),
         prev \notin {mp, n}, NEW ta, ta = MoveColliding(tb, mp, n, othern)
  PROVE  /\ TableShape(ta) /\ SameParts(ta, tb) /\ ta.lastfree = n
         /\ \A q \in Nodes(tb) \ {mp, n, prev} : ta.node[q] = tb.node[q]
         /\ ta.node[n] = tb.node[mp]
         /\ ta.node[mp].val = Nil /\ ta.node[mp].next = NoNode
         /\ ta.node[prev].key = tb.node[prev].key /\ ta.node[prev].dead = tb.node[prev].dead
         /\ ta.node[prev].val = tb.node[prev].val /\ ta.node[prev].next = n
<1> DEFINE x == tb.node[prev]
           y == tb.node[mp]
           nx == [key |-> x.key, val |-> x.val, next |-> n, dead |-> x.dead]
           ny == [key |-> y.key, val |-> Nil, next |-> NoNode, dead |-> y.dead]
           nd == [tb.node EXCEPT ![prev].next = n, ![n] = tb.node[mp],
                                 ![mp] = [tb.node[mp] EXCEPT !.next = NoNode, !.val = Nil]]
<1>1. tb.node \in [Nodes(tb) -> NodeType(tb)] /\ x \in NodeType(tb) /\ y \in NodeType(tb)
      /\ n \in 0 .. sizenode(tb)
  BY NodesTyped, SizeFacts, SMTT(30) DEF Nodes, TableShape
<1>2. [x EXCEPT !.next = n] = nx BY <1>1, NodeFields
<1>3. [y EXCEPT !.next = NoNode, !.val = Nil] = ny BY <1>1, NodeCleared
<1>4. nx \in NodeType(tb) /\ ny \in NodeType(tb) BY <1>1, NodeFields DEF NodeType, Slots
<1>5. nd = [tb.node EXCEPT ![prev] = nx, ![n] = y, ![mp] = ny]
  <2> DEFINE nd1 == [tb.node EXCEPT ![prev] = [x EXCEPT !.next = n], ![n] = y]
  <2>1. nd1 = [tb.node EXCEPT ![prev] = nx, ![n] = y] BY <1>2
  <2>2. nd = [nd1 EXCEPT ![mp] = [y EXCEPT !.next = NoNode, !.val = Nil]] OBVIOUS
  <2> HIDE DEF nd1, nd, x, y, nx, ny
  <2>4. nd = [nd1 EXCEPT ![mp] = ny] BY <2>2, <1>3
  <2> QED BY <2>1, <2>4
<1>6. /\ nd \in [Nodes(tb) -> NodeType(tb)] /\ nd[n] = y /\ nd[mp] = ny /\ nd[prev] = nx
      /\ \A q \in Nodes(tb) \ {mp, n, prev} : nd[q] = tb.node[q]
  <2> HIDE DEF nd, nx, ny, y
  <2> QED BY <1>1, <1>4, <1>5
<1>7. ta = [tb EXCEPT !.lastfree = n, !.node = nd]
  <2> DEFINE t1 == [tb EXCEPT !.lastfree = n]
  <2>2. ta = [t1 EXCEPT !.node = [tb.node EXCEPT ![prev].next = n, ![n] = tb.node[mp],
                                 ![mp] = [tb.node[mp] EXCEPT !.next = NoNode, !.val = Nil]]]
    BY DEF MoveColliding
  <2> HIDE DEF t1
  <2>3. ta = [t1 EXCEPT !.node = nd] BY <2>2
  <2> HIDE DEF nd
  <2> QED BY <2>3 DEF t1
<1>8. Renoded(ta, tb, n, nd)
  <2> HIDE DEF nd
  <2> QED BY <1>1, <1>6, <1>7, NodesAndMarkReplaced
<1> HIDE DEF nd
<1> QED BY <1>6, <1>8 DEF Renoded

\* No node is left for a new key.
Crowded(tb) == tb.dummy \/ \A p \in Nodes(tb) : tb.node[p].key # Nil

LEMMA FreePosition ==
  ASSUME NEW tb, TableInv(tb)
  PROVE  LET n == getfreepos(tb)
         IN  \/ n = NoNode /\ Crowded(tb)
             \/ /\ n # NoNode /\ n \in Nodes(tb) /\ ~tb.dummy /\ tb.node[n].key = Nil
                /\ \A p \in Nodes(tb) : p > n => tb.node[p].key # Nil
<1> DEFINE free == {p \in 0 .. tb.lastfree - 1 : ~tb.dummy /\ tb.node[p].key = Nil}
<1>1. /\ sizenode(tb) \in Nat /\ tb.lastfree \in 0 .. sizenode(tb)
      /\ NoNode \notin Nodes(tb) /\ Nodes(tb) \in SUBSET Nat
  BY SizeFacts DEF TableInv, TableShape
<1>2. 0 .. tb.lastfree - 1 \subseteq Nodes(tb) BY <1>1 DEF Nodes
<1>3. \A p \in Nodes(tb) : p < tb.lastfree => p \in 0 .. tb.lastfree - 1
  BY <1>1 DEF Nodes
<1>4. ~tb.dummy => \A p \in Nodes(tb) : p >= tb.lastfree => tb.node[p].key # Nil
  BY DEF TableInv, FreeInv
<1>5. getfreepos(tb) = IF free = {} THEN NoNode ELSE Max(free) BY DEF getfreepos
<1>6. CASE free = {}
  <2>1. ASSUME ~tb.dummy, NEW p \in Nodes(tb) PROVE tb.node[p].key # Nil
    <3>1. p < tb.lastfree \/ p >= tb.lastfree BY <1>1
    <3> QED BY <3>1, <2>1, <1>3, <1>4, <1>6
  <2> HIDE DEF free
  <2> QED BY <2>1, <1>5, <1>6 DEF Crowded
<1>7. CASE free # {}
  <2> DEFINE n == Max(free)
  <2>1. free \in SUBSET (0 .. sizenode(tb)) BY <1>1
  <2>2. n \in free /\ \A x \in free : x <= n
    <3> HIDE DEF free
    <3> QED BY <1>1, <1>7, <2>1, GreatestNatural
  <2> HIDE DEF n
  <2>3. n \in Nodes(tb) /\ ~tb.dummy /\ tb.node[n].key = Nil /\ n # NoNode
    BY <1>1, <1>2, <2>2
  <2>4. ASSUME NEW p \in Nodes(tb), p > n PROVE tb.node[p].key # Nil
    <3>1. p < tb.lastfree \/ p >= tb.lastfree BY <1>1
    <3>2. p \in Nat /\ n \in Nat BY <1>1, <2>3
    <3>3. p \notin free BY <2>2, <2>4, <3>2
    <3> QED BY <3>1, <3>3, <2>3, <1>3, <1>4
  <2>5. getfreepos(tb) = n BY <1>5, <1>7 DEF n
  <2> QED BY <2>3, <2>4, <2>5
<1> QED BY <1>6, <1>7

\* Field-wise agreement in everything but nodes is transitive.
LEMMA SameTrans ==
  ASSUME NEW ta, NEW tb, NEW tc, SameParts(ta, tb), SameParts(tb, tc)
  PROVE  SameParts(ta, tc)
BY DEF SameParts

LEMMA PlaceKeyWorks ==
  ASSUME NEW tb, TableInv(tb), NEW k, Absent(tb, k)
  PROVE  LET r == PlaceKey(tb, k)
         IN  \/ r.at = NoNode /\ r.tb = tb /\ Crowded(tb)
             \/ r.at # NoNode /\ Inserted(r.tb, r.at, tb, k)
<1> DEFINE mp == mainposition(tb, k)
           n == getfreepos(tb)
           r == PlaceKey(tb, k)
<1>1. k \in Keys /\ mp \in Nodes(tb) BY AbsentHome
<1>2. TableShape(tb) /\ NoNode \notin Nodes(tb) BY SizeFacts DEF TableInv, TableShape
<1>3. r = PlaceAt(tb, k, mp, n, OtherPosition(tb, mp)) BY DEF PlaceKey, PlaceIn
<1>4. \/ n = NoNode /\ Crowded(tb)
      \/ /\ n # NoNode /\ n \in Nodes(tb) /\ ~tb.dummy /\ tb.node[n].key = Nil
         /\ \A p \in Nodes(tb) : p > n => tb.node[p].key # Nil
  BY FreePosition
<1>5. CASE tb.node[mp].val = Nil /\ ~tb.dummy
  <2>1. r = PutKey(tb, k, mp) BY <1>3, <1>5 DEF PlaceAt
  <2> HIDE DEF r
  <2> DEFINE ta == r.tb
  <2>2. /\ r.at = mp
        /\ TableShape(ta) /\ SameParts(ta, tb) /\ ta.lastfree = tb.lastfree
        /\ \A q \in Nodes(tb) \ {mp} : ta.node[q] = tb.node[q]
        /\ ta.node[mp].key = k /\ ~ta.node[mp].dead
        /\ ta.node[mp].val = tb.node[mp].val /\ ta.node[mp].next = tb.node[mp].next
    <3> HIDE DEF mp
    <3> QED BY <1>1, <1>2, <2>1, PutKeyFields
  <2> HIDE DEF mp, ta
  <2>3. Inserted(ta, mp, tb, k) BY <1>5, <2>2, PutAtHome DEF mp
  <2> QED BY <1>1, <1>2, <2>2, <2>3 DEF ta, r
<1>6. CASE ~(tb.node[mp].val = Nil /\ ~tb.dummy) /\ n = NoNode
  <2>1. r = [tb |-> tb, at |-> NoNode] BY <1>3, <1>6 DEF PlaceAt
  <2> HIDE DEF r, n, mp
  <2> QED BY <2>1, <1>2, <1>4, <1>6 DEF r
<1>7. CASE ~(tb.node[mp].val = Nil /\ ~tb.dummy) /\ n # NoNode
  <2>1. /\ n \in Nodes(tb) /\ ~tb.dummy /\ tb.node[n].key = Nil
        /\ \A p \in Nodes(tb) : p > n => tb.node[p].key # Nil
        /\ tb.node[mp].val # Nil
    BY <1>4, <1>7
  <2>2. tb.node[mp].key # Nil /\ tb.node[n].val = Nil /\ ~tb.node[n].dead
    BY <1>1, <2>1 DEF TableInv, FreeInv
  <2>3. n # mp BY <2>1, <2>2
  <2>4. OtherPosition(tb, mp) = Home(tb, mp) BY <2>2 DEF OtherPosition, Home
  <2>5. CASE Home(tb, mp) = mp
    <3>1. r = PutKey(ChainBehind(tb, mp, n), k, n) BY <1>3, <1>7, <2>4, <2>5 DEF PlaceAt
    <3> DEFINE tc == ChainBehind(tb, mp, n)
               ta == r.tb
    <3> HIDE DEF mp, n, r, tc
    <3>2. /\ TableShape(tc) /\ SameParts(tc, tb) /\ tc.lastfree = n
          /\ \A q \in Nodes(tb) \ {mp, n} : tc.node[q] = tb.node[q]
          /\ tc.node[n].key = tb.node[n].key /\ tc.node[n].dead = tb.node[n].dead
          /\ tc.node[n].val = tb.node[n].val /\ tc.node[n].next = tb.node[mp].next
          /\ tc.node[mp].key = tb.node[mp].key /\ tc.node[mp].dead = tb.node[mp].dead
          /\ tc.node[mp].val = tb.node[mp].val /\ tc.node[mp].next = n
      BY <1>1, <1>2, <2>1, <2>3, ChainBehindFields DEF tc
    <3>3. Nodes(tc) = Nodes(tb) BY <3>2, SameFacts
    <3>4. r = PutKey(tc, k, n) BY <3>1 DEF tc
    <3> HIDE DEF ta
    <3>5. /\ r.at = n
          /\ TableShape(ta) /\ SameParts(ta, tc) /\ ta.lastfree = tc.lastfree
          /\ \A q \in Nodes(tc) \ {n} : ta.node[q] = tc.node[q]
          /\ ta.node[n].key = k /\ ~ta.node[n].dead
          /\ ta.node[n].val = tc.node[n].val /\ ta.node[n].next = tc.node[n].next
      BY <1>1, <2>1, <3>2, <3>3, <3>4, PutKeyFields DEF ta
    <3>6. SameParts(ta, tb) BY <3>2, <3>5, SameTrans
    <3>7. /\ \A q \in Nodes(tb) \ {mp, n} : ta.node[q] = tb.node[q]
          /\ ta.node[n].val = Nil /\ ta.node[n].next = tb.node[mp].next
          /\ ta.node[mp] = tc.node[mp] /\ ta.lastfree = n
      BY <1>1, <2>1, <2>2, <2>3, <3>2, <3>3, <3>5
    <3>8. Inserted(ta, n, tb, k)
      BY <1>1, <2>1, <2>5, <3>2, <3>5, <3>6, <3>7, PutBehind DEF mp
    <3> QED BY <1>7, <3>5, <3>8 DEF ta, r
  <2>6. CASE Home(tb, mp) # mp
    <3>1. r = PutKey(MoveColliding(tb, mp, n, Home(tb, mp)), k, mp)
      BY <1>3, <1>7, <2>4, <2>6 DEF PlaceAt
    <3> DEFINE tc == MoveColliding(tb, mp, n, Home(tb, mp))
               ta == r.tb
               prev == InChain(tb, Home(tb, mp), LeadingTo(tb, mp))
    <3>2. prev \in Nodes(tb) /\ tb.node[prev].next = mp
      BY <1>1, <2>2, <2>6, PredecessorFound
    <3> HIDE DEF mp, n, r, tc, prev
    <3>3. prev \notin {mp, n}
      <4>1. prev # n BY <1>1, <1>2, <2>1, <3>2 DEF TableInv, FreeInv
      <4>2. Linking(Nodes(tb), Links(tb)) /\ \A p \in Nodes(tb) : Links(tb)[p] = tb.node[p].next
        BY <1>2, LinksType
      <4>3. Reaches(Nodes(tb), Links(tb), mp, mp) BY <1>1, <4>2, ReachesFacts
      <4>4. tb.node[mp].next # mp BY <1>1, <1>2, <4>2, <4>3 DEF TableInv, Chained
      <4> QED BY <4>1, <4>4, <3>2
    <3>4. /\ TableShape(tc) /\ SameParts(tc, tb) /\ tc.lastfree = n
          /\ \A q \in Nodes(tb) \ {mp, n, prev} : tc.node[q] = tb.node[q]
          /\ tc.node[n] = tb.node[mp]
          /\ tc.node[mp].val = Nil /\ tc.node[mp].next = NoNode
          /\ tc.node[prev].key = tb.node[prev].key /\ tc.node[prev].dead = tb.node[prev].dead
          /\ tc.node[prev].val = tb.node[prev].val /\ tc.node[prev].next = n
      BY <1>1, <1>2, <2>1, <2>3, <3>2, <3>3, MoveCollidingFields DEF tc, prev
    <3>5. Nodes(tc) = Nodes(tb) BY <3>4, SameFacts
    <3>6. r = PutKey(tc, k, mp) BY <3>1 DEF tc
    <3> HIDE DEF ta
    <3>7. /\ r.at = mp
          /\ TableShape(ta) /\ SameParts(ta, tc) /\ ta.lastfree = tc.lastfree
          /\ \A q \in Nodes(tc) \ {mp} : ta.node[q] = tc.node[q]
          /\ ta.node[mp].key = k /\ ~ta.node[mp].dead
          /\ ta.node[mp].val = tc.node[mp].val /\ ta.node[mp].next = tc.node[mp].next
      BY <1>1, <2>1, <3>4, <3>5, <3>6, PutKeyFields DEF ta
    <3>8. SameParts(ta, tb) BY <3>4, <3>7, SameTrans
    <3>9. /\ \A q \in Nodes(tb) \ {mp, n, prev} : ta.node[q] = tb.node[q]
          /\ ta.node[mp].val = Nil /\ ta.node[mp].next = NoNode
          /\ ta.node[prev] = tc.node[prev] /\ ta.node[n] = tb.node[mp] /\ ta.lastfree = n
      BY <1>1, <2>1, <2>2, <2>3, <3>2, <3>3, <3>4, <3>5, <3>7
    <3>10. Inserted(ta, mp, tb, k)
      BY <1>1, <2>1, <2>6, <3>2, <3>4, <3>7, <3>8, <3>9, PutMoved DEF mp
    <3> QED BY <1>1, <1>2, <3>7, <3>10 DEF ta, r
  <2> QED BY <2>5, <2>6
<1> HIDE DEF r
<1> QED BY <1>5, <1>6, <1>7 DEF r

-----------------------------------------------------------------------------
(* Values.                                                                   *)

\* What assignments do not change.
Kept(ta, tb) ==
  /\ ta.sizearray = tb.sizearray /\ ta.lsizenode = tb.lsizenode /\ ta.dummy = tb.dummy
  /\ ta.flags = tb.flags /\ ta.self = tb.self /\ ta.full = tb.full

LEMMA KeptFacts ==
  ASSUME NEW ta, NEW tb, Kept(ta, tb)
  PROVE  /\ Nodes(ta) = Nodes(tb) /\ sizenode(ta) = sizenode(tb)
         /\ \A k : mainposition(ta, k) = mainposition(tb, k)
         /\ \A k : InArray(ta, k) <=> InArray(tb, k)
<1>1. ta.lsizenode = tb.lsizenode BY DEF Kept
<1>2. sizenode(ta) = sizenode(tb) BY <1>1 DEF sizenode
<1>3. \A k : InArray(ta, k) <=> InArray(tb, k) BY DEF Kept, InArray
<1> QED BY <1>1, <1>2, <1>3, MainSame

LEMMA ArrayKey ==
  ASSUME NEW tb, TableShape(tb), NEW k, InArray(tb, k)
  PROVE  k \in IntKeys /\ k \in Keys /\ k \in 1 .. tb.sizearray
BY KeyAssumption DEF InArray, arrayindex, TableShape, Keys

\* The value of a key is in its slot, or in one node.
LEMMA ValueFacts ==
  ASSUME NEW tb, TableInv(tb), NEW k \in Keys
  PROVE  /\ GetValue(tb, k) \in Slots
         /\ InArray(tb, k) => GetValue(tb, k) = tb.array[k]
         /\ ~InArray(tb, k) => \A v \in Vals : GetValue(tb, k) = v <=> NodeHas(tb, k, v)
         /\ \A p \in LiveHolding(tb, k) : GetValue(tb, k) = tb.node[p].val
         /\ InArray(tb, k) => LiveHolding(tb, k) = {}
         /\ ~InArray(tb, k) /\ LiveHolding(tb, k) = {} => GetValue(tb, k) = Nil
<1>1. TableShape(tb) BY DEF TableInv
<1>2. CASE InArray(tb, k)
  <2>1. luaH_get(tb, k) = [part |-> "array", at |-> k] BY <1>2, GetFinds
  <2>2. GetValue(tb, k) = tb.array[k] BY <2>1 DEF GetValue, Value
  <2>3. LiveHolding(tb, k) = {} BY <1>2, GetFinds
  <2> QED BY <1>1, <1>2, <2>2, <2>3, ArrayKey DEF TableShape
<1>3. CASE ~InArray(tb, k) /\ LiveHolding(tb, k) = {}
  <2>1. luaH_get(tb, k) = [part |-> "none", at |-> NoNode] BY <1>3, GetFinds
  <2>2. GetValue(tb, k) = Nil BY <2>1 DEF GetValue, Value
  <2>3. ASSUME NEW v \in Vals, NodeHas(tb, k, v) PROVE FALSE
    <3>1. PICK p \in Nodes(tb) : tb.node[p].key = k /\ tb.node[p].val = v BY <2>3 DEF NodeHas
    <3>2. ~tb.node[p].dead BY <3>1, KeyAssumption DEF TableInv, DeadInv
    <3>3. p \in LiveHolding(tb, k) BY <1>1, <3>1, <3>2 DEF LiveHolding, Holding, TableShape
    <3> QED BY <1>3, <3>3
  <2> QED BY <1>3, <2>2, <2>3, KeyAssumption DEF Slots
<1>4. CASE ~InArray(tb, k) /\ LiveHolding(tb, k) # {}
  <2>1. PICK p \in LiveHolding(tb, k) : TRUE BY <1>4
  <2>2. p \in Nodes(tb) /\ tb.node[p].key = k /\ ~tb.node[p].dead
    BY <1>1, <2>1 DEF LiveHolding, Holding, TableShape
  <2>3. luaH_get(tb, k) = [part |-> "hash", at |-> p] BY <2>1, GetFinds
  <2>4. GetValue(tb, k) = tb.node[p].val BY <2>3 DEF GetValue, Value
  <2>5. \A q \in LiveHolding(tb, k) : q = p
    <3> TAKE q \in LiveHolding(tb, k)
    <3>1. q \in Nodes(tb) /\ tb.node[q].key = k /\ ~tb.node[q].dead
      BY <1>1 DEF LiveHolding, Holding, TableShape
    <3> QED BY <2>2, <3>1, KeyAssumption DEF TableInv, DeadInv
  <2>6. tb.node[p].val \in Slots BY <1>1, <2>2 DEF TableShape
  <2>7. ASSUME NEW v \in Vals, NodeHas(tb, k, v) PROVE tb.node[p].val = v
    <3>1. PICK q \in Nodes(tb) : tb.node[q].key = k /\ tb.node[q].val = v BY <2>7 DEF NodeHas
    <3>2. ~tb.node[q].dead BY <3>1, KeyAssumption DEF TableInv, DeadInv
    <3>3. q \in LiveHolding(tb, k) BY <1>1, <3>1, <3>2 DEF LiveHolding, Holding, TableShape
    <3> QED BY <2>5, <3>1, <3>3
  <2>8. \A v \in Vals : tb.node[p].val = v => NodeHas(tb, k, v) BY <2>2 DEF NodeHas
  <2> QED BY <1>4, <2>4, <2>5, <2>6, <2>7, <2>8
<1> QED BY <1>2, <1>3, <1>4

\* A value that is not Nil is known by its equality with those that are stored.
LEMMA SlotsEqual ==
  ASSUME NEW x \in Slots, NEW y \in Slots, \A v \in Vals : x = v <=> y = v
  PROVE  x = y
BY KeyAssumption DEF Slots

LEMMA InsertedContent ==
  ASSUME NEW ta, NEW at, NEW tb, NEW k, TableInv(tb), Inserted(ta, at, tb, k)
  PROVE  \A j \in Keys : GetValue(ta, j) = GetValue(tb, j)
<1> SUFFICES ASSUME NEW j \in Keys PROVE GetValue(ta, j) = GetValue(tb, j)
  OBVIOUS
<1>1. TableInv(ta) /\ SameParts(ta, tb) BY DEF Inserted
<1>2. InArray(ta, j) <=> InArray(tb, j) BY <1>1, SameFacts
<1>3. CASE InArray(tb, j) BY <1>1, <1>2, <1>3, ValueFacts DEF SameParts
<1>4. CASE ~InArray(tb, j)
  <2>1. \A v \in Vals : GetValue(ta, j) = v <=> GetValue(tb, j) = v
    <3>1. \A v \in Vals : GetValue(ta, j) = v <=> NodeHas(ta, j, v)
      BY <1>1, <1>2, <1>4, ValueFacts
    <3>2. \A v \in Vals : GetValue(tb, j) = v <=> NodeHas(tb, j, v)
      BY <1>4, ValueFacts
    <3>3. \A v \in Vals : NodeHas(ta, j, v) <=> NodeHas(tb, j, v) BY DEF Inserted
    <3> QED BY <3>1, <3>2, <3>3
  <2>2. GetValue(ta, j) \in Slots /\ GetValue(tb, j) \in Slots BY <1>1, ValueFacts
  <2> QED BY <2>1, <2>2, SlotsEqual
<1> QED BY <1>3, <1>4

\* k has the value v, and all else is as before.
Assigned(ta, tb, k, v) ==
  /\ TableInv(ta) /\ Kept(ta, tb) /\ ta.lastfree = tb.lastfree
  /\ \A j \in Keys : GetValue(ta, j) = IF j = k THEN v ELSE GetValue(tb, j)
  /\ \A p \in Nodes(tb) :
       /\ ta.node[p].key = tb.node[p].key /\ ta.node[p].next = tb.node[p].next
       /\ ta.node[p].dead = tb.node[p].dead
       /\ ta.node[p].val = IF p \in LiveHolding(tb, k) THEN v ELSE tb.node[p].val

LEMMA OtherSlots ==
  ASSUME NEW tb, TableShape(tb), NEW ar, NEW ta,
         ta = [array |-> ar, sizearray |-> tb.sizearray, lsizenode |-> tb.lsizenode,
               node |-> tb.node, lastfree |-> tb.lastfree, dummy |-> tb.dummy,
               flags |-> tb.flags, self |-> tb.self, full |-> tb.full]
  PROVE  /\ ta.array = ar /\ ta.node = tb.node /\ ta.lastfree = tb.lastfree /\ Kept(ta, tb)
         /\ ta = [array |-> ta.array, sizearray |-> ta.sizearray, lsizenode |-> ta.lsizenode,
                  node |-> ta.node, lastfree |-> ta.lastfree, dummy |-> ta.dummy,
                  flags |-> ta.flags, self |-> ta.self, full |-> ta.full]
<1>1. ta.array = ar /\ ta.node = tb.node /\ ta.lastfree = tb.lastfree
  OBVIOUS
<1>2. /\ ta.sizearray = tb.sizearray /\ ta.lsizenode = tb.lsizenode /\ ta.dummy = tb.dummy
      /\ ta.flags = tb.flags /\ ta.self = tb.self /\ ta.full = tb.full
  OBVIOUS
<1> QED BY <1>1, <1>2 DEF Kept

LEMMA AssignArray ==
  ASSUME NEW tb, TableInv(tb), NEW k \in Keys, InArray(tb, k), NEW v \in Slots,
         NEW ta, ta = [tb EXCEPT !.array[k] = v]
  PROVE  Assigned(ta, tb, k, v)
<1> DEFINE ar == [tb.array EXCEPT ![k] = v]
<1>1. TableShape(tb) /\ k \in IntKeys /\ k \in 1 .. tb.sizearray BY ArrayKey DEF TableInv
<1>2. ar \in [1 .. tb.sizearray -> Slots] /\ ar[k] = v
      /\ \A i \in 1 .. tb.sizearray : i # k => ar[i] = tb.array[i]
  BY <1>1 DEF TableShape
<1>3. ta = [tb EXCEPT !.array = ar] OBVIOUS
<1> HIDE DEF ar
<1>4. ta = [array |-> ar, sizearray |-> tb.sizearray, lsizenode |-> tb.lsizenode,
            node |-> tb.node, lastfree |-> tb.lastfree, dummy |-> tb.dummy,
            flags |-> tb.flags, self |-> tb.self, full |-> tb.full]
  BY <1>1, <1>3 DEF TableShape
<1>5. /\ ta.array = ar /\ ta.node = tb.node /\ ta.lastfree = tb.lastfree /\ Kept(ta, tb)
      /\ ta = [array |-> ta.array, sizearray |-> ta.sizearray, lsizenode |-> ta.lsizenode,
               node |-> ta.node, lastfree |-> ta.lastfree, dummy |-> ta.dummy,
               flags |-> ta.flags, self |-> ta.self, full |-> ta.full]
  BY <1>1, <1>4, OtherSlots
<1>6. /\ Nodes(ta) = Nodes(tb) /\ sizenode(ta) = sizenode(tb)
      /\ \A j : mainposition(ta, j) = mainposition(tb, j)
      /\ \A j : InArray(ta, j) <=> InArray(tb, j)
  BY <1>5, KeptFacts
<1>7. TableShape(ta) BY <1>1, <1>2, <1>5, <1>6 DEF TableShape, Kept
<1>8. ArrayInv(ta) BY <1>1, <1>2, <1>5 DEF ArrayInv, TableInv, Kept
<1>9. Links(ta) = Links(tb) BY <1>5, <1>6 DEF Links
<1>10. FreeInv(ta) BY <1>5, <1>6 DEF TableInv, FreeInv, Kept
<1>11. \A p : Home(ta, p) = Home(tb, p) BY <1>5, <1>6 DEF Home
<1>12. HomeInv(ta) BY <1>5, <1>6, <1>9, <1>11 DEF TableInv, HomeInv, Kept
<1>13. DeadInv(ta) BY <1>5, <1>6, <1>9 DEF TableInv, DeadInv
<1>14. TableInv(ta) BY <1>6, <1>7, <1>8, <1>9, <1>10, <1>12, <1>13 DEF TableInv
<1>15. ASSUME NEW j \in Keys
       PROVE  GetValue(ta, j) = IF j = k THEN v ELSE GetValue(tb, j)
  <2>1. CASE InArray(tb, j)
    <3>1. j \in 1 .. tb.sizearray BY <1>1, <2>1, ArrayKey
    <3>2. GetValue(tb, j) = tb.array[j] BY <2>1, ValueFacts
    <3>3. InArray(ta, j) BY <1>6, <2>1
    <3>4. GetValue(ta, j) = ta.array[j] BY <1>14, <3>3, ValueFacts
    <3> QED BY <1>2, <1>5, <3>1, <3>2, <3>4
  <2>2. CASE ~InArray(tb, j)
    <3>1. \A w \in Vals : NodeHas(ta, j, w) <=> NodeHas(tb, j, w) BY <1>5, <1>6 DEF NodeHas
    <3>2. \A w \in Vals : GetValue(ta, j) = w <=> NodeHas(ta, j, w)
      BY <1>6, <1>14, <2>2, ValueFacts
    <3>3. \A w \in Vals : GetValue(tb, j) = w <=> NodeHas(tb, j, w) BY <2>2, ValueFacts
    <3>4. GetValue(ta, j) \in Slots /\ GetValue(tb, j) \in Slots BY <1>14, ValueFacts
    <3>5. GetValue(ta, j) = GetValue(tb, j) BY <3>1, <3>2, <3>3, <3>4, SlotsEqual
    <3> QED BY <2>2, <3>5
  <2> QED BY <2>1, <2>2
<1>16. LiveHolding(tb, k) = {} BY ValueFacts
<1> QED BY <1>5, <1>14, <1>15, <1>16 DEF Assigned

LEMMA AssignNode ==
  ASSUME NEW tb, TableInv(tb), NEW k \in Keys, NEW p \in LiveHolding(tb, k), NEW v \in Slots,
         NEW ta, ta = [tb EXCEPT !.node[p].val = v]
  PROVE  Assigned(ta, tb, k, v)
<1> DEFINE x == tb.node[p]
           new == [key |-> x.key, val |-> v, next |-> x.next, dead |-> x.dead]
           nd == [tb.node EXCEPT ![p] = [x EXCEPT !.val = v]]
<1>1. TableShape(tb) /\ p \in Nodes(tb) /\ x.key = k /\ ~x.dead /\ k # Nil
  BY KeyAssumption DEF TableInv, LiveHolding, Holding, TableShape
<1>2. tb.node \in [Nodes(tb) -> NodeType(tb)] /\ x \in NodeType(tb) BY <1>1, NodesTyped
<1>3. nd = [tb.node EXCEPT ![p] = new] BY <1>2, NodeFields
<1>4. new \in NodeType(tb) BY <1>2, NodeFields DEF NodeType
<1>5. nd \in [Nodes(tb) -> NodeType(tb)] BY <1>2, <1>3, <1>4
<1>6. ta = [tb EXCEPT !.node = nd] OBVIOUS
<1>7. Renoded(ta, tb, tb.lastfree, nd)
  <2> HIDE DEF nd
  <2> QED BY <1>1, <1>5, <1>6, NodesReplaced
<1>8. nd[p] = new /\ \A q \in Nodes(tb) \ {p} : nd[q] = tb.node[q] BY <1>1, <1>2, <1>3
<1>9. ASSUME NEW q \in LiveHolding(tb, k) PROVE q = p
  <2>1. q \in Nodes(tb) /\ tb.node[q].key = k /\ ~tb.node[q].dead
    BY <1>1 DEF LiveHolding, Holding, TableShape
  <2> QED BY <1>1, <2>1 DEF TableInv, DeadInv
<1> HIDE DEF nd
<1>10. TableShape(ta) /\ SameParts(ta, tb) /\ ta.lastfree = tb.lastfree /\ ta.node = nd
  BY <1>7 DEF Renoded
<1>11. /\ Nodes(ta) = Nodes(tb)
       /\ \A j : mainposition(ta, j) = mainposition(tb, j)
       /\ \A j : InArray(ta, j) <=> InArray(tb, j)
  BY <1>10, SameFacts
<1>12. Kept(ta, tb) BY <1>10 DEF Kept, SameParts
<1>13. \A q \in Nodes(tb) :
         /\ ta.node[q].key = tb.node[q].key /\ ta.node[q].next = tb.node[q].next
         /\ ta.node[q].dead = tb.node[q].dead
         /\ ta.node[q].val = IF q = p THEN v ELSE tb.node[q].val
  <2> TAKE q \in Nodes(tb)
  <2>1. CASE q = p
    <3>1. ta.node[q] = [key |-> x.key, val |-> v, next |-> x.next, dead |-> x.dead]
      BY <1>8, <1>10, <2>1
    <3> QED BY <2>1, <3>1
  <2>2. CASE q # p
    <3>1. ta.node[q] = tb.node[q] BY <1>8, <1>10, <2>2
    <3> QED BY <2>2, <3>1
  <2> QED BY <2>1, <2>2
<1>14. \A q \in Nodes(tb) : q = p <=> q \in LiveHolding(tb, k) BY <1>9
<1>15. Links(ta) = Links(tb) BY <1>11, <1>13 DEF Links
<1>16. ArrayInv(ta) BY <1>10 DEF ArrayInv, TableInv, SameParts
<1>17. FreeInv(ta)
  <2>1. FreeInv(tb) BY DEF TableInv
  <2>2. ~ta.dummy <=> ~tb.dummy BY <1>10 DEF SameParts
  <2> QED BY <2>1, <2>2, <1>1, <1>10, <1>11, <1>13 DEF FreeInv
<1>18. \A q \in Nodes(tb) : Home(ta, q) = Home(tb, q) BY <1>11, <1>13 DEF Home
<1>19. HomeInv(ta)
  <2>1. HomeInv(tb) BY DEF TableInv
  <2>2. ~ta.dummy <=> ~tb.dummy BY <1>10 DEF SameParts
  <2>3. \A q \in Nodes(tb) : tb.node[q].key # Nil => Home(tb, q) \in Nodes(tb)
    BY <1>1, HomeRange
  <2> QED BY <2>1, <2>2, <2>3, <1>11, <1>13, <1>15, <1>18 DEF HomeInv
<1>20. DeadInv(ta) BY <1>1, <1>11, <1>13, <1>15, SMTT(30) DEF TableInv, DeadInv
<1>21. TableInv(ta) BY <1>10, <1>11, <1>15, <1>16, <1>17, <1>19, <1>20 DEF TableInv
<1>22. LiveHolding(ta, k) = LiveHolding(tb, k)
  BY <1>1, <1>10, <1>11, <1>13 DEF LiveHolding, Holding, TableShape
<1>23. ASSUME NEW j \in Keys
       PROVE  GetValue(ta, j) = IF j = k THEN v ELSE GetValue(tb, j)
  <2>1. CASE j = k
    <3>1. p \in LiveHolding(ta, k) BY <1>22
    <3>2. GetValue(ta, k) = ta.node[p].val BY <3>1, <1>21, ValueFacts
    <3> QED BY <2>1, <3>2, <1>1, <1>13
  <2>2. CASE j # k /\ InArray(tb, j)
    <3>1. GetValue(ta, j) = ta.array[j] /\ GetValue(tb, j) = tb.array[j]
      BY <1>11, <1>21, <2>2, ValueFacts
    <3> QED BY <2>2, <3>1, <1>10 DEF SameParts
  <2>3. CASE j # k /\ ~InArray(tb, j)
    <3>1. \A w \in Vals : NodeHas(ta, j, w) <=> NodeHas(tb, j, w)
      BY <2>3, <1>1, <1>11, <1>13 DEF NodeHas
    <3>2. \A w \in Vals : GetValue(ta, j) = w <=> NodeHas(ta, j, w)
      BY <1>11, <1>21, <2>3, ValueFacts
    <3>3. \A w \in Vals : GetValue(tb, j) = w <=> NodeHas(tb, j, w) BY <2>3, ValueFacts
    <3>4. GetValue(ta, j) \in Slots /\ GetValue(tb, j) \in Slots BY <1>21, ValueFacts
    <3>5. GetValue(ta, j) = GetValue(tb, j) BY <3>1, <3>2, <3>3, <3>4, SlotsEqual
    <3> QED BY <2>3, <3>5
  <2> QED BY <2>1, <2>2, <2>3
<1> QED BY <1>10, <1>12, <1>13, <1>14, <1>21, <1>23 DEF Assigned

\* Storing in the cell that a lookup found.
LEMMA AssignWorks ==
  ASSUME NEW tb, TableInv(tb), NEW k \in Keys, NEW v \in Slots,
         NEW cell, cell = luaH_get(tb, k), cell.part # "none"
  PROVE  /\ Assigned(Assign(tb, cell, v), tb, k, v)
         /\ Value(tb, cell) = GetValue(tb, k)
<1>1. Value(tb, cell) = GetValue(tb, k) BY DEF GetValue
<1>2. CASE InArray(tb, k)
  <2>1. cell = [part |-> "array", at |-> k] BY <1>2, GetFinds
  <2>2. Assign(tb, cell, v) = [tb EXCEPT !.array[k] = v] BY <2>1 DEF Assign
  <2> QED BY <1>1, <1>2, <2>2, AssignArray
<1>3. CASE ~InArray(tb, k)
  <2>1. LiveHolding(tb, k) # {} BY <1>3, GetFinds
  <2>2. PICK p \in LiveHolding(tb, k) : TRUE BY <2>1
  <2>3. cell = [part |-> "hash", at |-> p] BY <2>2, GetFinds
  <2>4. Assign(tb, cell, v) = [tb EXCEPT !.node[p].val = v] BY <2>3 DEF Assign
  <2> QED BY <1>1, <2>2, <2>4, AssignNode
<1> QED BY <1>2, <1>3

-----------------------------------------------------------------------------
(* Tables that differ in their flags only.                                   *)

Alike(ta, tb) ==
  /\ ta.sizearray = tb.sizearray /\ ta.array = tb.array /\ ta.lsizenode = tb.lsizenode
  /\ ta.node = tb.node /\ ta.lastfree = tb.lastfree /\ ta.dummy = tb.dummy

LEMMA AlikeFacts ==
  ASSUME NEW tb, TableInv(tb), NEW ta, TableShape(ta), Alike(ta, tb)
  PROVE  /\ TableInv(ta)
         /\ Nodes(ta) = Nodes(tb) /\ sizenode(ta) = sizenode(tb)
         /\ \A k \in Keys : /\ InArray(ta, k) <=> InArray(tb, k)
                            /\ LiveHolding(ta, k) = LiveHolding(tb, k)
                            /\ luaH_get(ta, k) = luaH_get(tb, k)
                            /\ GetValue(ta, k) = GetValue(tb, k)
<1>1. ta.lsizenode = tb.lsizenode /\ ta.node = tb.node BY DEF Alike
<1>2. Nodes(ta) = Nodes(tb) /\ \A k : mainposition(ta, k) = mainposition(tb, k)
  BY <1>1, MainSame
<1>3. sizenode(ta) = sizenode(tb) BY <1>1 DEF sizenode
<1>4. \A k : InArray(ta, k) <=> InArray(tb, k) BY DEF Alike, InArray
<1>5. Links(ta) = Links(tb) BY <1>1, <1>2 DEF Links
<1>6. ArrayInv(ta) BY DEF ArrayInv, TableInv, Alike
<1>7. FreeInv(ta) BY <1>1, <1>2 DEF TableInv, FreeInv, Alike
<1>8. \A p : Home(ta, p) = Home(tb, p) BY <1>1, <1>2 DEF Home
<1>9. HomeInv(ta) BY <1>1, <1>2, <1>4, <1>5, <1>8 DEF TableInv, HomeInv, Alike
<1>10. DeadInv(ta) BY <1>1, <1>2, <1>5 DEF TableInv, DeadInv
<1>11. TableInv(ta) BY <1>2, <1>5, <1>6, <1>7, <1>9, <1>10 DEF TableInv
<1>12. \A k : LiveHolding(ta, k) = LiveHolding(tb, k) BY <1>1 DEF LiveHolding, Holding
<1>13. ASSUME NEW k \in Keys PROVE luaH_get(ta, k) = luaH_get(tb, k)
  <2>1. CASE InArray(tb, k)
    <3>1. luaH_get(tb, k) = [part |-> "array", at |-> k] BY <2>1, GetFinds
    <3>2. luaH_get(ta, k) = [part |-> "array", at |-> k] BY <1>4, <1>11, <2>1, GetFinds
    <3> QED BY <3>1, <3>2
  <2>2. CASE ~InArray(tb, k) /\ LiveHolding(tb, k) = {}
    <3>1. luaH_get(tb, k) = [part |-> "none", at |-> NoNode] BY <2>2, GetFinds
    <3>2. luaH_get(ta, k) = [part |-> "none", at |-> NoNode]
      BY <1>4, <1>11, <1>12, <2>2, GetFinds
    <3> QED BY <3>1, <3>2
  <2>3. CASE LiveHolding(tb, k) # {}
    <3>1. PICK p \in LiveHolding(tb, k) : TRUE BY <2>3
    <3>2. luaH_get(tb, k) = [part |-> "hash", at |-> p] BY <3>1, GetFinds
    <3>3. p \in LiveHolding(ta, k) BY <1>12, <3>1
    <3>4. luaH_get(ta, k) = [part |-> "hash", at |-> p] BY <1>11, <3>3, GetFinds
    <3> QED BY <3>2, <3>4
  <2> QED BY <2>1, <2>2, <2>3
<1>14. \A k \in Keys : GetValue(ta, k) = GetValue(tb, k)
  BY <1>13 DEF GetValue, Value, Alike
<1> QED BY <1>2, <1>3, <1>4, <1>11, <1>12, <1>13, <1>14

\* ta is tb with other flags.
Reflagged(ta, tb, F) ==
  /\ TableShape(ta) /\ Alike(ta, tb)
  /\ ta.flags = F /\ ta.self = tb.self /\ ta.full = tb.full

LEMMA FlagsReplaced ==
  ASSUME NEW tb, TableShape(tb), NEW F \in SUBSET Events
  PROVE  Reflagged([tb EXCEPT !.flags = F], tb, F)
<1> DEFINE ta == [tb EXCEPT !.flags = F]
<1>1. ta = [array |-> tb.array, sizearray |-> tb.sizearray, lsizenode |-> tb.lsizenode,
            node |-> tb.node, lastfree |-> tb.lastfree, dummy |-> tb.dummy,
            flags |-> F, self |-> tb.self, full |-> tb.full]
  BY DEF TableShape
<1> HIDE DEF ta
<1>2. Alike(ta, tb) BY <1>1 DEF Alike
<1>3. ta.flags = F BY <1>1
<1>4. ta.self = tb.self /\ ta.full = tb.full BY <1>1
<1>5. Nodes(ta) = Nodes(tb) /\ sizenode(ta) = sizenode(tb)
  BY <1>2, MainSame DEF Alike, sizenode
<1>6. ta = [array |-> ta.array, sizearray |-> ta.sizearray, lsizenode |-> ta.lsizenode,
            node |-> ta.node, lastfree |-> ta.lastfree, dummy |-> ta.dummy,
            flags |-> ta.flags, self |-> ta.self, full |-> ta.full]
  BY <1>1, <1>2, <1>3, <1>4 DEF Alike
<1>7. TableShape(ta) BY <1>2, <1>3, <1>4, <1>5, <1>6 DEF TableShape, Alike
<1> QED BY <1>2, <1>3, <1>4, <1>7 DEF Reflagged, ta
-----------------------------------------------------------------------------
(* Re-inserting an entry.                                                    *)

\* No entry was erased.
Packed(tb) == \A p \in Nodes(tb) : tb.node[p].key # Nil => tb.node[p].val # Nil

\* k has the value v, and all else is as before; ta and tb have the same sizes.
Reinserted(ta, tb, k, v) ==
  /\ TableInv(ta) /\ Kept(ta, tb) /\ Packed(ta)
  /\ \A j \in Keys : GetValue(ta, j) = IF j = k THEN v ELSE GetValue(tb, j)

LEMMA ReinsertWorks ==
  ASSUME NEW tb, TableInv(tb), Packed(tb), NEW k \in Keys, NEW v \in Vals,
         Absent(tb, k) => ~Crowded(tb)
  PROVE  Reinserted(Reinsert(tb, k, v), tb, k, v)
<1> DEFINE cell == luaH_get(tb, k)
           r == PlaceKey(tb, k)
           ta == Reinsert(tb, k, v)
<1>1. v \in Slots /\ v # Nil BY KeyAssumption DEF Slots
<1>2. ta = IF cell.part # "none" THEN Assign(tb, cell, v) ELSE Store(r, v)
  BY DEF Reinsert, ReinsertAt
<1> HIDE DEF ta
<1>3. CASE cell.part # "none"
  <2>1. ta = Assign(tb, cell, v) BY <1>2, <1>3
  <2>2. Assigned(ta, tb, k, v)
    <3>1. Assigned(Assign(tb, cell, v), tb, k, v) BY <1>1, <1>3, AssignWorks
    <3> QED BY <2>1, <3>1
  <2>3. Nodes(ta) = Nodes(tb)
    <3>1. Kept(ta, tb) BY <2>2 DEF Assigned
    <3> QED BY <3>1, KeptFacts
  <2>4. Packed(ta) BY <1>1, <2>2, <2>3 DEF Packed, Assigned
  <2> QED BY <2>2, <2>4 DEF Reinserted, Assigned, ta
<1>4. CASE cell.part = "none"
  <2>1. ta = Store(r, v) BY <1>2, <1>4
  <2>2. ~InArray(tb, k)
    <3>1. InArray(tb, k) => cell.part = "array" BY GetFinds
    <3> QED BY <1>4, <3>1
  <2>3. LiveHolding(tb, k) = {}
    <3>1. \A p \in LiveHolding(tb, k) : cell.part = "hash" BY GetFinds
    <3> QED BY <1>4, <3>1
  <2>4. Absent(tb, k) BY <2>2, <2>3 DEF Absent
  <2>5. r.at # NoNode /\ Inserted(r.tb, r.at, tb, k) BY <2>4, PlaceKeyWorks
  <2> DEFINE tc == r.tb
             at == r.at
  <2>6. ta = [tc EXCEPT !.node[at].val = v] BY <2>1, <2>5 DEF Store
  <2>7. Inserted(tc, at, tb, k) BY <2>5
  <2> HIDE DEF tc, at, r, cell
  <2>8. TableInv(tc) /\ SameParts(tc, tb) /\ at \in LiveHolding(tc, k)
    BY <2>7 DEF Inserted
  <2>9. Assigned(ta, tc, k, v) BY <1>1, <2>6, <2>8, AssignNode
  <2>10. \A j \in Keys : GetValue(tc, j) = GetValue(tb, j) BY <2>7, InsertedContent
  <2>11. TableInv(ta) /\ Kept(ta, tc) BY <2>9 DEF Assigned
  <2>12. Kept(ta, tb) BY <2>8, <2>11 DEF Kept, SameParts
  <2>13. Nodes(ta) = Nodes(tc) BY <2>11, KeptFacts
  <2>14. \A p \in Nodes(tc) \ {at} : tc.node[p].key # Nil => tc.node[p].val # Nil
    BY <2>7 DEF Inserted, Packed
  <2>15. Packed(ta)
    <3> SUFFICES ASSUME NEW p \in Nodes(tc), ta.node[p].key # Nil
                 PROVE  ta.node[p].val # Nil
      BY <2>13 DEF Packed
    <3>1. tc.node[p].key # Nil
          /\ ta.node[p].val = IF p \in LiveHolding(tc, k) THEN v ELSE tc.node[p].val
      BY <2>9 DEF Assigned
    <3>2. CASE p = at BY <1>1, <2>8, <3>1, <3>2
    <3>3. CASE p # at BY <1>1, <2>14, <3>1, <3>3
    <3> QED BY <3>2, <3>3
  <2>16. \A j \in Keys : GetValue(ta, j) = IF j = k THEN v ELSE GetValue(tb, j)
    BY <2>9, <2>10 DEF Assigned
  <2> QED BY <2>11, <2>12, <2>15, <2>16 DEF Reinserted, ta
<1> QED BY <1>3, <1>4

-----------------------------------------------------------------------------
(* Re-inserting all entries.                                                 *)

\* In a packed table the keys of nodes are alive and different.
LEMMA PackedKeys ==
  ASSUME NEW tb, TableInv(tb), Packed(tb)
  PROVE  /\ \A p \in Nodes(tb) : tb.node[p].key # Nil =>
              /\ tb.node[p].key \in Keys /\ ~InArray(tb, tb.node[p].key)
              /\ p \in LiveHolding(tb, tb.node[p].key)
              /\ GetValue(tb, tb.node[p].key) # Nil
         /\ \A p, q \in Nodes(tb) :
              tb.node[p].key # Nil /\ tb.node[p].key = tb.node[q].key => p = q
<1>1. TableShape(tb) /\ HomeInv(tb) /\ DeadInv(tb) BY DEF TableInv
<1>2. ASSUME NEW p \in Nodes(tb), tb.node[p].key # Nil
      PROVE  /\ tb.node[p].val # Nil /\ ~tb.node[p].dead
             /\ tb.node[p].key \in Keys /\ ~InArray(tb, tb.node[p].key)
             /\ p \in LiveHolding(tb, tb.node[p].key)
             /\ GetValue(tb, tb.node[p].key) # Nil
  <2>1. tb.node[p].val # Nil BY <1>2 DEF Packed
  <2>2. ~tb.node[p].dead BY <1>1, <2>1 DEF DeadInv
  <2>3. tb.node[p].key \in Keys BY <1>1, <1>2, HomeRange
  <2>4. ~InArray(tb, tb.node[p].key) BY <1>1, <1>2 DEF HomeInv
  <2>5. p \in LiveHolding(tb, tb.node[p].key)
    BY <1>1, <2>2 DEF LiveHolding, Holding, TableShape
  <2>6. GetValue(tb, tb.node[p].key) = tb.node[p].val BY <2>3, <2>5, ValueFacts
  <2> QED BY <2>1, <2>2, <2>3, <2>4, <2>5, <2>6
<1>3. ASSUME NEW p \in Nodes(tb), NEW q \in Nodes(tb), tb.node[p].key # Nil,
             tb.node[p].key = tb.node[q].key
      PROVE  p = q
  <2>1. ~tb.node[p].dead /\ ~tb.node[q].dead BY <1>2, <1>3
  <2> QED BY <1>1, <1>3, <2>1 DEF DeadInv
<1> QED BY <1>2, <1>3

\* A packed table has room while fewer keys are in it than its nodes can hold.
LEMMA NotCrowded ==
  ASSUME NEW tb, TableInv(tb), Packed(tb), NEW k, Absent(tb, k), NEW K, IsFiniteSet(K),
         k \in K, ~tb.dummy, Cardinality(K) <= sizenode(tb),
         \A j \in Keys : GetValue(tb, j) # Nil /\ ~InArray(tb, j) => j \in K
  PROVE  ~Crowded(tb)
<1> SUFFICES ASSUME \A p \in Nodes(tb) : tb.node[p].key # Nil PROVE FALSE
  BY DEF Crowded
<1> DEFINE f == [p \in Nodes(tb) |-> tb.node[p].key]
<1>1. IsFiniteSet(K \ {k}) /\ Cardinality(K \ {k}) = Cardinality(K) - 1
  BY FS_RemoveElement
<1>2. IsFiniteSet(Nodes(tb)) /\ Cardinality(Nodes(tb)) = sizenode(tb) /\ sizenode(tb) \in Nat
  BY SizeFacts DEF TableInv, TableShape
<1>3. f \in Injection(Nodes(tb), K \ {k})
  <2>1. \A p \in Nodes(tb) : f[p] \in K \ {k}
    <3> TAKE p \in Nodes(tb)
    <3>1. tb.node[p].key \in K BY PackedKeys
    <3>2. tb.node[p].key # k BY PackedKeys DEF Absent
    <3> QED BY <3>1, <3>2
  <2>2. \A p, q \in Nodes(tb) : f[p] = f[q] => p = q BY PackedKeys
  <2> QED BY <2>1, <2>2 DEF Injection, IsInjective
<1>4. Cardinality(Nodes(tb)) <= Cardinality(K \ {k})
  <2> HIDE DEF f
  <2> QED BY <1>1, <1>3, FS_Injection
<1>5. Cardinality(K) \in Nat BY FS_CardinalityType
<1> QED BY <1>1, <1>2, <1>4, <1>5

Entries(tb) == tb.sizearray + sizenode(tb)

\* The entries are what lookups find.
LEMMA EntryFacts ==
  ASSUME NEW tb, TableInv(tb)
  PROVE  /\ Entries(tb) \in Nat /\ tb.sizearray \in Nat /\ tb.sizearray <= Entries(tb)
         /\ \A i \in 1 .. Entries(tb) : EntryVal(tb, i) # Nil =>
              /\ EntryKey(tb, i) \in Keys /\ EntryVal(tb, i) \in Vals
              /\ GetValue(tb, EntryKey(tb, i)) = EntryVal(tb, i)
         /\ \A k \in Keys : GetValue(tb, k) # Nil =>
              \/ InArray(tb, k)
              \/ \E i \in tb.sizearray + 1 .. Entries(tb) :
                   EntryVal(tb, i) # Nil /\ EntryKey(tb, i) = k
         /\ \A k \in Keys : InArray(tb, k) =>
              /\ k \in 1 .. tb.sizearray
              /\ EntryKey(tb, k) = k /\ EntryVal(tb, k) = GetValue(tb, k)
<1>1. /\ TableShape(tb) /\ sizenode(tb) \in Nat \ {0}
      /\ tb.sizearray \in Nat
  BY SizeFacts DEF TableInv, TableShape
<1>2. Entries(tb) \in Nat /\ tb.sizearray <= Entries(tb) BY <1>1 DEF Entries
<1>3. ASSUME NEW i \in 1 .. Entries(tb), EntryVal(tb, i) # Nil
      PROVE  /\ EntryKey(tb, i) \in Keys /\ EntryVal(tb, i) \in Vals
             /\ GetValue(tb, EntryKey(tb, i)) = EntryVal(tb, i)
  <2>1. CASE i <= tb.sizearray
    <3>1. i \in 1 .. tb.sizearray BY <1>1, <1>2, <2>1
    <3>2. EntryKey(tb, i) = i /\ EntryVal(tb, i) = tb.array[i]
      BY <2>1 DEF EntryKey, EntryVal
    <3>3. i \in IntKeys BY <1>3, <3>1, <3>2 DEF TableInv, ArrayInv
    <3>4. i \in Keys /\ InArray(tb, i) BY <1>1, <3>1, <3>3 DEF Keys, InArray, arrayindex
    <3>5. GetValue(tb, i) = tb.array[i] BY <3>4, ValueFacts
    <3>6. tb.array[i] \in Slots BY <1>1, <3>1 DEF TableShape
    <3> QED BY <1>3, <3>2, <3>4, <3>5, <3>6 DEF Slots
  <2>2. CASE i > tb.sizearray
    <3> DEFINE p == Entries(tb) - i
    <3>1. p \in Nodes(tb) BY <1>1, <1>2, <2>2 DEF Nodes, Entries
    <3>2. EntryKey(tb, i) = tb.node[p].key /\ EntryVal(tb, i) = tb.node[p].val
      BY <1>1, <2>2 DEF EntryKey, EntryVal, EntryNode, Entries
    <3> HIDE DEF p
    <3>3. tb.node[p].key # Nil BY <1>3, <3>1, <3>2 DEF TableInv, FreeInv
    <3>4. tb.node[p].key \in Keys BY <1>1, <3>1, <3>3, HomeRange
    <3>5. ~tb.node[p].dead BY <1>3, <3>1, <3>2 DEF TableInv, DeadInv
    <3>6. p \in LiveHolding(tb, tb.node[p].key)
      BY <1>1, <3>1, <3>5 DEF LiveHolding, Holding, TableShape
    <3>7. GetValue(tb, tb.node[p].key) = tb.node[p].val BY <3>4, <3>6, ValueFacts
    <3>8. tb.node[p].val \in Slots BY <1>1, <3>1 DEF TableShape
    <3> QED BY <1>3, <3>2, <3>4, <3>7, <3>8 DEF Slots
  <2> QED BY <1>1, <1>2, <2>1, <2>2
<1>4. ASSUME NEW k \in Keys, GetValue(tb, k) # Nil, ~InArray(tb, k)
      PROVE  \E i \in tb.sizearray + 1 .. Entries(tb) :
               EntryVal(tb, i) # Nil /\ EntryKey(tb, i) = k
  <2>1. LiveHolding(tb, k) # {} BY <1>4, ValueFacts
  <2>2. PICK p \in LiveHolding(tb, k) : TRUE BY <2>1
  <2>3. p \in Nodes(tb) /\ tb.node[p].key = k
    BY <1>1, <2>2 DEF LiveHolding, Holding, TableShape
  <2>4. GetValue(tb, k) = tb.node[p].val BY <2>2, ValueFacts
  <2> DEFINE i == Entries(tb) - p
  <2>5. i \in tb.sizearray + 1 .. Entries(tb) /\ Entries(tb) - i = p /\ ~(i <= tb.sizearray)
    BY <1>1, <1>2, <2>3 DEF Nodes, Entries
  <2> HIDE DEF i
  <2>6. EntryNode(tb, i) = tb.node[p]
    <3>1. tb.sizearray + sizenode(tb) - i = p BY <1>1, <1>2, <2>5 DEF Entries
    <3> QED BY <3>1 DEF EntryNode
  <2>7. EntryKey(tb, i) = tb.node[p].key /\ EntryVal(tb, i) = tb.node[p].val
    BY <2>5, <2>6 DEF EntryKey, EntryVal
  <2> QED BY <1>4, <2>3, <2>4, <2>5, <2>7
<1>5. ASSUME NEW k \in Keys, InArray(tb, k)
      PROVE  /\ k \in 1 .. tb.sizearray
             /\ EntryKey(tb, k) = k /\ EntryVal(tb, k) = GetValue(tb, k)
  <2>1. k \in 1 .. tb.sizearray BY <1>1, <1>5, ArrayKey
  <2>2. GetValue(tb, k) = tb.array[k] BY <1>5, ValueFacts
  <2>3. k <= tb.sizearray BY <2>1
  <2> QED BY <2>1, <2>2, <2>3 DEF EntryKey, EntryVal
<1> QED BY <1>1, <1>2, <1>3, <1>4, <1>5

\* Re-inserting computes what its recursive definition says.
LEMMA ReinsertSteps ==
  ASSUME NEW new, NEW tb, NEW from \in Nat, Entries(tb) \in Nat, from <= Entries(tb)
  PROVE  \E entry :
           /\ entry[from] = new
           /\ \A i \in from + 1 .. Entries(tb) :
                entry[i] = IF EntryVal(tb, i) = Nil THEN entry[i - 1]
                           ELSE Reinsert(Forgetting(entry[i - 1], i > tb.sizearray),
                                         EntryKey(tb, i), EntryVal(tb, i))
           /\ ReinsertAll(new, tb, from) = entry[Entries(tb)]
<1> DEFINE N == Entries(tb)
           Body(f, i) == IF i = from THEN new
                         ELSE IF EntryVal(tb, i) = Nil THEN f[i - 1]
                         ELSE Reinsert(Forgetting(f[i - 1], i > tb.sizearray),
                                       EntryKey(tb, i), EntryVal(tb, i))
           Upto == {n \in Nat : \E f : f = [i \in from .. from + n |-> Body(f, i)]}
<1>1. \A f, g : \A i : f[i - 1] = g[i - 1] => Body(f, i) = Body(g, i)
  OBVIOUS
<1>2. \A f : Body(f, from) = new
  OBVIOUS
<1>3. \A f : \A i \in from + 1 .. N :
        Body(f, i) = IF EntryVal(tb, i) = Nil THEN f[i - 1]
                     ELSE Reinsert(Forgetting(f[i - 1], i > tb.sizearray),
                                   EntryKey(tb, i), EntryVal(tb, i))
  <2> TAKE f
  <2> TAKE i \in from + 1 .. N
  <2>1. i # from OBVIOUS
  <2> QED BY <2>1
<1> HIDE DEF Body
<1>4. 0 \in Upto
  <2> DEFINE f == [i \in from .. from |-> new]
  <2>1. f = [i \in from .. from |-> Body(f, i)] BY <1>2
  <2>2. from + 0 = from OBVIOUS
  <2> HIDE DEF f
  <2> QED BY <2>1, <2>2
<1>5. ASSUME NEW n \in Upto PROVE n + 1 \in Upto
  <2>1. n \in Nat /\ \E f : f = [i \in from .. from + n |-> Body(f, i)] BY <1>5
  <2>2. PICK f : f = [i \in from .. from + n |-> Body(f, i)] BY <2>1
  <2> DEFINE z == from + n + 1
             h == [i \in from .. z |-> IF i = z THEN Body(f, z) ELSE f[i]]
  <2>3. ASSUME NEW i \in from .. z PROVE h[i] = Body(h, i)
    <3>1. CASE i = from
      <4>1. i # z /\ i \in from .. from + n BY <2>1, <3>1
      <4>2. h[i] = f[i] BY <4>1
      <4>3. f[i] = Body(f, i) BY <2>2, <4>1, Zenon
      <4> HIDE DEF h
      <4> QED BY <1>2, <3>1, <4>2, <4>3
    <3>2. CASE i \in from + 1 .. from + n
      <4>1. h[i] = f[i] /\ h[i - 1] = f[i - 1] BY <2>1, <3>2
      <4>2. i \in from .. from + n BY <3>2
      <4>3. f[i] = Body(f, i) BY <2>2, <4>2, Zenon
      <4> QED BY <1>1, <4>1, <4>3
    <3>3. CASE i = z
      <4>1. h[i - 1] = f[i - 1] /\ h[i] = Body(f, i) BY <2>1, <3>3
      <4> QED BY <1>1, <4>1
    <3> QED BY <2>1, <3>1, <3>2, <3>3
  <2>4. h = [i \in from .. z |-> Body(h, i)] BY <2>3
  <2>5. from + (n + 1) = z BY <2>1
  <2> HIDE DEF h, z
  <2> QED BY <2>1, <2>4, <2>5
<1>6. N - from \in Upto
  <2>1. N - from \in Nat OBVIOUS
  <2> HIDE DEF N
  <2>2. Upto \in SUBSET Nat OBVIOUS
  <2> HIDE DEF Upto
  <2> QED BY <1>4, <1>5, <2>1, <2>2, SetInduction
<1> DEFINE entry == CHOOSE f : f = [i \in from .. N |-> Body(f, i)]
<1>7. entry = [i \in from .. N |-> Body(entry, i)]
  <2>1. from + (N - from) = N OBVIOUS
  <2>2. \E f : f = [i \in from .. N |-> Body(f, i)]
    <3> HIDE DEF N
    <3> QED BY <1>6, <2>1
  <2> QED BY <2>2
<1>8. ReinsertAll(new, tb, from) = entry[N]
  BY DEF ReinsertAll, Body, Entries
<1> HIDE DEF entry
<1>9. entry[from] = new
  <2>1. from \in from .. N OBVIOUS
  <2>2. entry[from] = Body(entry, from) BY <1>7, <2>1, Zenon
  <2> QED BY <1>2, <2>2
<1>10. \A i \in from + 1 .. N :
         entry[i] = IF EntryVal(tb, i) = Nil THEN entry[i - 1]
                    ELSE Reinsert(Forgetting(entry[i - 1], i > tb.sizearray),
                                  EntryKey(tb, i), EntryVal(tb, i))
  <2> TAKE i \in from + 1 .. N
  <2>1. i \in from .. N OBVIOUS
  <2>2. entry[i] = Body(entry, i) BY <1>7, <2>1, Zenon
  <2> QED BY <1>3, <2>2
<1> QED BY <1>8, <1>9, <1>10

\* Sizes and ownership are the same, and no absence has become known.
Quiet(ta, tb) ==
  /\ ta.sizearray = tb.sizearray /\ ta.lsizenode = tb.lsizenode /\ ta.dummy = tb.dummy
  /\ ta.self = tb.self /\ ta.full = tb.full /\ ta.flags \subseteq tb.flags

LEMMA QuietFacts ==
  ASSUME NEW ta, NEW tb, Quiet(ta, tb)
  PROVE  /\ Nodes(ta) = Nodes(tb) /\ sizenode(ta) = sizenode(tb)
         /\ \A k : InArray(ta, k) <=> InArray(tb, k)
<1>1. ta.lsizenode = tb.lsizenode /\ ta.sizearray = tb.sizearray BY DEF Quiet
<1> QED BY <1>1, MainSame DEF sizenode, InArray

LEMMA QuietTrans ==
  ASSUME NEW ta, NEW tb, NEW tc, Quiet(ta, tb), Quiet(tb, tc)
  PROVE  Quiet(ta, tc)
BY DEF Quiet

LEMMA ForgettingWorks ==
  ASSUME NEW tb, TableInv(tb), Packed(tb), NEW yes \in BOOLEAN
  PROVE  LET ta == Forgetting(tb, yes)
         IN  /\ TableInv(ta) /\ Packed(ta) /\ Quiet(ta, tb)
             /\ \A k \in Keys : GetValue(ta, k) = GetValue(tb, k)
<1> DEFINE ta == Forgetting(tb, yes)
<1>1. CASE ~yes
  <2>1. ta = tb BY <1>1 DEF Forgetting
  <2> QED BY <2>1 DEF Quiet
<1>2. CASE yes
  <2>1. ta = [tb EXCEPT !.flags = {}] BY <1>2 DEF Forgetting
  <2> HIDE DEF ta
  <2>2. Reflagged(ta, tb, {}) BY <2>1, FlagsReplaced DEF TableInv
  <2>3. TableShape(ta) /\ Alike(ta, tb) /\ Quiet(ta, tb)
    BY <2>2 DEF Reflagged, Alike, Quiet
  <2>4. Nodes(ta) = Nodes(tb) /\ TableInv(ta)
        /\ \A k \in Keys : GetValue(ta, k) = GetValue(tb, k)
    BY <2>3, AlikeFacts
  <2>5. Packed(ta) BY <2>3, <2>4 DEF Packed, Alike
  <2> QED BY <2>3, <2>4, <2>5 DEF ta
<1> QED BY <1>1, <1>2

\* The keys of tb that must be in nodes of new.
HashKeys(new, tb) == {k \in Keys : GetValue(tb, k) # Nil /\ ~InArray(new, k)}

Room(new, tb) ==
  /\ IsFiniteSet(HashKeys(new, tb)) /\ Cardinality(HashKeys(new, tb)) <= sizenode(new)
  /\ new.dummy => HashKeys(new, tb) = {}

\* x is new, with the first i entries of tb in it.
Loaded(x, new, tb, i) ==
  /\ TableInv(x) /\ Packed(x) /\ Quiet(x, new)
  /\ \A k \in Keys : GetValue(x, k) \in {GetValue(tb, k), Nil}
  /\ \A k \in Keys : InArray(tb, k) /\ k <= i => GetValue(x, k) = GetValue(tb, k)
  /\ \A e \in tb.sizearray + 1 .. i : EntryVal(tb, e) # Nil =>
       GetValue(x, EntryKey(tb, e)) = EntryVal(tb, e)

LEMMA LoadStep ==
  ASSUME NEW tb, TableInv(tb), NEW new, Room(new, tb),
         NEW i \in 1 .. Entries(tb), NEW x, Loaded(x, new, tb, i - 1),
         NEW ta, ta = IF EntryVal(tb, i) = Nil THEN x
                      ELSE Reinsert(Forgetting(x, i > tb.sizearray),
                                    EntryKey(tb, i), EntryVal(tb, i))
  PROVE  Loaded(ta, new, tb, i)
<1> DEFINE k == EntryKey(tb, i)
           v == EntryVal(tb, i)
<1>1. Entries(tb) \in Nat /\ tb.sizearray \in Nat /\ i \in Nat /\ i \in 1 .. Entries(tb)
  BY EntryFacts
<1>2. \A j \in Keys : InArray(tb, j) =>
        j \in Nat /\ EntryKey(tb, j) = j /\ EntryVal(tb, j) = GetValue(tb, j)
  BY EntryFacts
<1>3. CASE v = Nil
  <2>1. ta = x BY <1>3
  <2>2. ASSUME NEW j \in Keys, InArray(tb, j), j <= i PROVE GetValue(x, j) = GetValue(tb, j)
    <3>1. CASE j = i
      <4>1. GetValue(tb, j) = Nil BY <1>2, <1>3, <2>2, <3>1
      <4> QED BY <4>1 DEF Loaded
    <3>2. CASE j # i
      <4>1. j <= i - 1 BY <1>1, <1>2, <2>2, <3>2
      <4> QED BY <2>2, <4>1 DEF Loaded
    <3> QED BY <3>1, <3>2
  <2>3. ASSUME NEW e \in tb.sizearray + 1 .. i, EntryVal(tb, e) # Nil
        PROVE  GetValue(x, EntryKey(tb, e)) = EntryVal(tb, e)
    <3>1. e # i BY <1>3, <2>3
    <3>2. e \in tb.sizearray + 1 .. i - 1 BY <1>1, <3>1
    <3> QED BY <2>3, <3>2 DEF Loaded
  <2>4. TableInv(x) /\ Packed(x) /\ Quiet(x, new)
        /\ \A j \in Keys : GetValue(x, j) \in {GetValue(tb, j), Nil}
    BY DEF Loaded
  <2> QED BY <2>1, <2>2, <2>3, <2>4 DEF Loaded
<1>4. CASE v # Nil
  <2> DEFINE y == Forgetting(x, i > tb.sizearray)
  <2>1. ta = Reinsert(y, k, v) BY <1>4
  <2>2. k \in Keys /\ v \in Vals /\ GetValue(tb, k) = v BY <1>1, <1>4, EntryFacts
  <2>3. TableInv(x) /\ Packed(x) /\ Quiet(x, new) BY DEF Loaded
  <2>4. /\ TableInv(y) /\ Packed(y) /\ Quiet(y, x)
        /\ \A j \in Keys : GetValue(y, j) = GetValue(x, j)
    <3>1. (i > tb.sizearray) \in BOOLEAN OBVIOUS
    <3> QED BY <2>3, <3>1, ForgettingWorks
  <2> HIDE DEF y, k, v
  <2>5. Quiet(y, new) BY <2>3, <2>4, QuietTrans
  <2>6. sizenode(y) = sizenode(new) /\ \A j : InArray(y, j) <=> InArray(new, j)
    BY <2>5, QuietFacts
  <2>7. ASSUME Absent(y, k) PROVE ~Crowded(y)
    <3> DEFINE K == HashKeys(new, tb)
    <3>1. k \in K BY <1>4, <2>2, <2>6, <2>7 DEF HashKeys, Absent
    <3>2. \A j \in Keys : GetValue(y, j) # Nil /\ ~InArray(y, j) => j \in K
      <4> TAKE j \in Keys
      <4>1. GetValue(x, j) \in {GetValue(tb, j), Nil} BY DEF Loaded
      <4> QED BY <2>4, <2>6, <4>1 DEF HashKeys
    <3>3. IsFiniteSet(K) /\ Cardinality(K) <= sizenode(y) BY <2>6 DEF Room
    <3>4. ~y.dummy
      <4>1. ~new.dummy BY <3>1 DEF Room
      <4> QED BY <4>1, <2>5 DEF Quiet
    <3> HIDE DEF K
    <3> QED BY <2>4, <2>7, <3>1, <3>2, <3>3, <3>4, NotCrowded
  <2>8. Reinserted(ta, y, k, v) BY <2>1, <2>2, <2>4, <2>7, ReinsertWorks
  <2>9. TableInv(ta) /\ Packed(ta) /\ Kept(ta, y) BY <2>8 DEF Reinserted
  <2>10. Quiet(ta, new) BY <2>5, <2>9 DEF Quiet, Kept
  <2>11. \A j \in Keys : GetValue(ta, j) = IF j = k THEN v ELSE GetValue(x, j)
    BY <2>4, <2>8 DEF Reinserted
  <2>12. ASSUME NEW j \in Keys PROVE GetValue(ta, j) \in {GetValue(tb, j), Nil}
    <3>1. GetValue(x, j) \in {GetValue(tb, j), Nil} BY DEF Loaded
    <3> QED BY <2>2, <2>11, <3>1
  <2>13. ASSUME NEW j \in Keys, InArray(tb, j), j <= i
         PROVE  GetValue(ta, j) = GetValue(tb, j)
    <3>1. CASE j = k BY <2>2, <2>11, <3>1
    <3>2. CASE j # k
      <4>1. j # i BY <1>2, <2>13, <3>2 DEF k
      <4>2. j <= i - 1 BY <1>1, <1>2, <2>13, <4>1
      <4>3. GetValue(x, j) = GetValue(tb, j) BY <2>13, <4>2 DEF Loaded
      <4> QED BY <2>11, <3>2, <4>3
    <3> QED BY <3>1, <3>2
  <2>14. ASSUME NEW e \in tb.sizearray + 1 .. i, EntryVal(tb, e) # Nil
         PROVE  GetValue(ta, EntryKey(tb, e)) = EntryVal(tb, e)
    <3>1. e \in 1 .. Entries(tb) BY <1>1
    <3>2. EntryKey(tb, e) \in Keys /\ GetValue(tb, EntryKey(tb, e)) = EntryVal(tb, e)
      BY <2>14, <3>1, EntryFacts
    <3>3. CASE EntryKey(tb, e) = k BY <2>2, <2>11, <3>2, <3>3
    <3>4. CASE EntryKey(tb, e) # k
      <4>1. e # i BY <3>4 DEF k
      <4>2. e \in tb.sizearray + 1 .. i - 1 BY <1>1, <4>1
      <4>3. GetValue(x, EntryKey(tb, e)) = EntryVal(tb, e) BY <2>14, <4>2 DEF Loaded
      <4> QED BY <2>11, <3>2, <3>4, <4>3
    <3> QED BY <3>3, <3>4
  <2> QED BY <2>9, <2>10, <2>12, <2>13, <2>14 DEF Loaded
<1> QED BY <1>3, <1>4

\* ta has what tb has, in the sizes of new.
Reloaded(ta, new, tb) ==
  /\ TableInv(ta) /\ Packed(ta) /\ Quiet(ta, new)
  /\ \A k \in Keys : GetValue(ta, k) = GetValue(tb, k)

LEMMA ReinsertAllWorks ==
  ASSUME NEW tb, TableInv(tb), NEW new, Room(new, tb), NEW from \in 0 .. tb.sizearray,
         Loaded(new, new, tb, from)
  PROVE  Reloaded(ReinsertAll(new, tb, from), new, tb)
<1> DEFINE N == Entries(tb)
<1>1. N \in Nat /\ tb.sizearray \in Nat /\ tb.sizearray <= N /\ from \in Nat /\ from <= N
  BY EntryFacts
<1>2. PICK entry :
        /\ entry[from] = new
        /\ \A i \in from + 1 .. N :
             entry[i] = IF EntryVal(tb, i) = Nil THEN entry[i - 1]
                        ELSE Reinsert(Forgetting(entry[i - 1], i > tb.sizearray),
                                      EntryKey(tb, i), EntryVal(tb, i))
        /\ ReinsertAll(new, tb, from) = entry[N]
  BY <1>1, ReinsertSteps
<1> DEFINE T == {n \in Nat : from + n <= N => Loaded(entry[from + n], new, tb, from + n)}
<1>3. 0 \in T
  <2>1. from + 0 = from BY <1>1
  <2> QED BY <1>2, <2>1
<1>4. ASSUME NEW n \in T PROVE n + 1 \in T
  <2> SUFFICES ASSUME from + (n + 1) <= N
               PROVE  Loaded(entry[from + (n + 1)], new, tb, from + (n + 1))
    OBVIOUS
  <2> DEFINE i == from + (n + 1)
  <2>1. n \in Nat /\ i \in from + 1 .. N /\ i \in 1 .. N /\ i - 1 = from + n /\ from + n <= N
    BY <1>1
  <2>2. Loaded(entry[i - 1], new, tb, i - 1)
    <3>1. Loaded(entry[from + n], new, tb, from + n) BY <2>1
    <3> QED BY <2>1, <3>1
  <2> HIDE DEF i, T, N
  <2>3. entry[i] = IF EntryVal(tb, i) = Nil THEN entry[i - 1]
                   ELSE Reinsert(Forgetting(entry[i - 1], i > tb.sizearray),
                                 EntryKey(tb, i), EntryVal(tb, i))
    BY <1>2, <2>1
  <2>4. Loaded(entry[i], new, tb, i)
    <3>1. i \in 1 .. Entries(tb) BY <2>1 DEF N
    <3> HIDE DEF Loaded
    <3> QED BY <2>2, <2>3, <3>1, LoadStep
  <2> QED BY <2>4 DEF i
<1>5. Loaded(entry[N], new, tb, N)
  <2>1. N - from \in Nat /\ from + (N - from) = N BY <1>1
  <2>2. T \in SUBSET Nat OBVIOUS
  <2>3. T = Nat
    <3> HIDE DEF T
    <3> QED BY <1>3, <1>4, <2>2, SetInduction
  <2>4. N - from \in T BY <2>1, <2>3
  <2>5. N <= N BY <1>1
  <2> HIDE DEF N
  <2> QED BY <2>1, <2>4, <2>5
<1> DEFINE ta == entry[N]
<1>6. ASSUME NEW k \in Keys PROVE GetValue(ta, k) = GetValue(tb, k)
  <2>1. GetValue(ta, k) \in {GetValue(tb, k), Nil} BY <1>5 DEF Loaded
  <2>2. CASE InArray(tb, k)
    <3>1. k \in 1 .. tb.sizearray BY <2>2, EntryFacts
    <3>2. k <= N BY <1>1, <3>1
    <3> QED BY <1>5, <2>2, <3>2 DEF Loaded
  <2>3. CASE ~InArray(tb, k) /\ GetValue(tb, k) # Nil
    <3>1. PICK e \in tb.sizearray + 1 .. N : EntryVal(tb, e) # Nil /\ EntryKey(tb, e) = k
      BY <2>3, EntryFacts
    <3>2. GetValue(ta, k) = EntryVal(tb, e) BY <1>5, <3>1 DEF Loaded
    <3> QED BY <2>1, <3>1, <3>2
  <2>4. CASE GetValue(tb, k) = Nil BY <2>1, <2>4
  <2> QED BY <2>2, <2>3, <2>4
<1>7. TableInv(ta) /\ Packed(ta) /\ Quiet(ta, new) BY <1>5 DEF Loaded
<1> QED BY <1>2, <1>6, <1>7 DEF Reloaded

-----------------------------------------------------------------------------
(* New parts.                                                                *)

\* ta is tb with a hash part for size keys, which is empty.
EmptyHash(ta, tb, size) ==
  /\ TableShape(ta) /\ ta.array = tb.array /\ ta.sizearray = tb.sizearray
  /\ ta.flags = tb.flags /\ ta.self = tb.self /\ ta.full = tb.full
  /\ size <= sizenode(ta) /\ (ta.dummy <=> size = 0)
  /\ ~ta.dummy => ta.lastfree = sizenode(ta)
  /\ \A p \in Nodes(ta) : ta.node[p] = FreeNode

LEMMA NodeVectorFields ==
  ASSUME NEW ar, NEW n \in Nat, ar \in [1 .. n -> Slots], NEW ls, NEW nd, NEW lf, NEW du,
         NEW fl \in SUBSET Events, NEW se \in BOOLEAN, NEW fu \in BOOLEAN, NEW size \in Nat,
         NEW tb, tb = [array |-> ar, sizearray |-> n, lsizenode |-> ls,
                       node |-> nd, lastfree |-> lf, dummy |-> du,
                       flags |-> fl, self |-> se, full |-> fu]
  PROVE  EmptyHash(setnodevector(tb, size), tb, size)
<1> DEFINE ta == setnodevector(tb, size)
           none == size = 0
           lsize == IF size = 0 THEN 0 ELSE ceillog2(size)
           node == [p \in 0 .. 2 ^ lsize - 1 |-> FreeNode]
           free == IF none THEN 0 ELSE 2 ^ lsize
<1>1. lsize \in Nat /\ size <= 2 ^ lsize
  <2>1. CASE size = 0 BY <2>1, PowerOfZero
  <2>2. CASE size # 0 BY <2>2, LogIsEnough
  <2> QED BY <2>1, <2>2
<1>2. 2 ^ lsize \in Nat \ {0} BY <1>1, PowerAbove
<1>3. ta = [tb EXCEPT !.dummy = none, !.lsizenode = lsize, !.node = node, !.lastfree = free]
  BY DEF setnodevector, NodeVector
<1>4. free \in 0 .. 2 ^ lsize /\ none \in BOOLEAN /\ (none <=> size = 0)
      /\ (~none => free = 2 ^ lsize)
  BY <1>2
<1>5. /\ \A p \in 0 .. 2 ^ lsize - 1 : node[p] = FreeNode
      /\ node = [p \in 0 .. 2 ^ lsize - 1 |-> FreeNode]
  OBVIOUS
<1> HIDE DEF ta, none, lsize, node, free
<1>6. ta = [array |-> ar, sizearray |-> n, lsizenode |-> lsize,
            node |-> node, lastfree |-> free, dummy |-> none,
            flags |-> fl, self |-> se, full |-> fu]
  BY <1>3
<1>7. ta.array = ar /\ ta.sizearray = n /\ ta.lsizenode = lsize
  BY <1>6
<1>8. ta.node = node /\ ta.lastfree = free /\ ta.dummy = none
  BY <1>6
<1>9. ta.flags = fl /\ ta.self = se /\ ta.full = fu
  BY <1>6
<1>10. tb.array = ar /\ tb.sizearray = n /\ tb.flags = fl /\ tb.self = se /\ tb.full = fu
  OBVIOUS
<1>11. sizenode(ta) = 2 ^ lsize /\ Nodes(ta) = 0 .. 2 ^ lsize - 1
  BY <1>7 DEF sizenode, Nodes
<1>12. ta = [array |-> ta.array, sizearray |-> ta.sizearray, lsizenode |-> ta.lsizenode,
             node |-> ta.node, lastfree |-> ta.lastfree, dummy |-> ta.dummy,
             flags |-> ta.flags, self |-> ta.self, full |-> ta.full]
  BY <1>6, <1>7, <1>8, <1>9
<1>13. FreeNode \in NodeType(ta) BY DEF FreeNode, Slots, NodeType
<1>14. ta.node \in [Nodes(ta) -> NodeType(ta)]
  BY <1>5, <1>8, <1>11, <1>13
<1>15. TableShape(ta)
  <2>1. ta.sizearray \in Nat /\ ta.array \in [1 .. ta.sizearray -> Slots] BY <1>7
  <2>2. ta.lsizenode \in Nat BY <1>1, <1>7
  <2>3. ta.lastfree \in 0 .. sizenode(ta) /\ ta.dummy \in BOOLEAN BY <1>4, <1>8, <1>11
  <2>4. ta.flags \in SUBSET Events /\ ta.self \in BOOLEAN /\ ta.full \in BOOLEAN
    BY <1>9
  <2> QED BY <1>12, <1>14, <2>1, <2>2, <2>3, <2>4 DEF TableShape, NodeType
<1>16. \A p \in Nodes(ta) : ta.node[p] = FreeNode BY <1>5, <1>8, <1>11
<1>17. size <= sizenode(ta) /\ (ta.dummy <=> size = 0) /\ (~ta.dummy => ta.lastfree = sizenode(ta))
  BY <1>1, <1>4, <1>8, <1>11
<1> QED BY <1>7, <1>9, <1>10, <1>15, <1>16, <1>17 DEF EmptyHash, ta

\* A table with an empty hash part.
LEMMA EmptyHashFacts ==
  ASSUME NEW ta, NEW tb, NEW size \in Nat, EmptyHash(ta, tb, size), ArrayInv(ta)
  PROVE  /\ TableInv(ta) /\ Packed(ta)
         /\ \A k \in Keys : GetValue(ta, k) = IF InArray(ta, k) THEN ta.array[k] ELSE Nil
<1>1. TableShape(ta) /\ \A p \in Nodes(ta) : ta.node[p] = FreeNode BY DEF EmptyHash
<1>2. \A p \in Nodes(ta) : /\ ta.node[p].key = Nil /\ ta.node[p].val = Nil
                           /\ ta.node[p].next = NoNode /\ ~ta.node[p].dead
  BY <1>1 DEF FreeNode
<1>3. Nodes(ta) \in SUBSET Nat /\ NoNode \notin Nodes(ta) /\ sizenode(ta) \in Nat
  BY <1>1, SizeFacts DEF TableShape
<1>4. Chained(Nodes(ta), Links(ta))
  <2>1. \A p \in Nodes(ta) : Links(ta)[p] = NoNode BY <1>2 DEF Links
  <2> QED BY <2>1 DEF Chained
<1>5. FreeInv(ta)
  <2>1. \A p, q \in Nodes(ta) : ta.node[q].next # p BY <1>2, <1>3
  <2>2. ASSUME ~ta.dummy, NEW p \in Nodes(ta) PROVE ~(p >= ta.lastfree)
    <3>1. ta.lastfree = sizenode(ta) BY <2>2 DEF EmptyHash
    <3> QED BY <1>3, <3>1 DEF Nodes
  <2> QED BY <1>2, <2>1, <2>2 DEF FreeInv
<1>6. HomeInv(ta) BY <1>2 DEF HomeInv
<1>7. DeadInv(ta) BY <1>2 DEF DeadInv
<1>8. TableInv(ta) BY <1>1, <1>4, <1>5, <1>6, <1>7 DEF TableInv
<1>9. Packed(ta) BY <1>2 DEF Packed
<1>10. ASSUME NEW k \in Keys
       PROVE  GetValue(ta, k) = IF InArray(ta, k) THEN ta.array[k] ELSE Nil
  <2>1. LiveHolding(ta, k) = {}
    <3>1. \A p \in Nodes(ta) : ta.node[p].key # k BY <1>2, KeyAssumption
    <3> QED BY <1>1, <3>1 DEF LiveHolding, Holding, TableShape
  <2> QED BY <1>8, <2>1, ValueFacts
<1> QED BY <1>8, <1>9, <1>10

\* k has a slot in an array part of size n.
InSlots(k, n) == 0 < arrayindex(k) /\ arrayindex(k) <= n

\* The keys of tb that do not.
Rest(tb, n) == {k \in Keys : GetValue(tb, k) # Nil /\ ~InSlots(k, n)}

\* ta has what tb has, in an array part of size na and a hash part for nh keys.
Resized(ta, tb, na, nh) ==
  /\ TableInv(ta) /\ Packed(ta)
  /\ ta.sizearray = na /\ nh <= sizenode(ta) /\ (ta.dummy <=> nh = 0)
  /\ ta.self = tb.self /\ ta.full = tb.full /\ ta.flags \subseteq tb.flags
  /\ \A k \in Keys : GetValue(ta, k) = GetValue(tb, k)

LEMMA ResizeWorks ==
  ASSUME NEW tb, TableInv(tb), NEW na \in Nat, NEW nh \in Nat,
         IsFiniteSet(Rest(tb, na)), Cardinality(Rest(tb, na)) <= nh
  PROVE  Resized(resize(tb, na, nh), tb, na, nh)
<1> DEFINE ar == [i \in 1 .. na |-> IF i <= tb.sizearray THEN tb.array[i] ELSE Nil]
           tc == setarrayvector(tb, na)
           new == setnodevector(tc, nh)
           from == IF na < tb.sizearray THEN na ELSE tb.sizearray
           ta == resize(tb, na, nh)
<1>1. ta = ReinsertAll(new, tb, from) BY DEF resize
<1>2. TableShape(tb) /\ tb.sizearray \in Nat BY DEF TableInv, TableShape
<1>3. /\ ar \in [1 .. na -> Slots]
      /\ \A i \in 1 .. na : ar[i] = IF i <= tb.sizearray THEN tb.array[i] ELSE Nil
  <2>1. \A i \in 1 .. na : i <= tb.sizearray => i \in 1 .. tb.sizearray BY <1>2
  <2>2. \A i \in 1 .. na : (IF i <= tb.sizearray THEN tb.array[i] ELSE Nil) \in Slots
    BY <1>2, <2>1 DEF TableShape, Slots
  <2> QED BY <2>2
<1>4. tc = [tb EXCEPT !.array = ar, !.sizearray = na] BY DEF setarrayvector
<1>5. from \in 0 .. tb.sizearray /\ from \in Nat /\ from <= na BY <1>2
<1> HIDE DEF ar, tc, from, ta
<1>6. tc = [array |-> ar, sizearray |-> na, lsizenode |-> tb.lsizenode,
            node |-> tb.node, lastfree |-> tb.lastfree, dummy |-> tb.dummy,
            flags |-> tb.flags, self |-> tb.self, full |-> tb.full]
  BY <1>2, <1>4 DEF TableShape
<1>7. EmptyHash(new, tc, nh)
  <2>1. tb.flags \in SUBSET Events /\ tb.self \in BOOLEAN /\ tb.full \in BOOLEAN
    BY <1>2 DEF TableShape
  <2>2. PICK fl \in SUBSET Events, se, fu \in BOOLEAN :
          fl = tb.flags /\ se = tb.self /\ fu = tb.full
    BY <2>1
  <2>3. PICK ls, nd, lf, du :
          ls = tb.lsizenode /\ nd = tb.node /\ lf = tb.lastfree /\ du = tb.dummy
    OBVIOUS
  <2>4. tc = [array |-> ar, sizearray |-> na, lsizenode |-> ls,
              node |-> nd, lastfree |-> lf, dummy |-> du,
              flags |-> fl, self |-> se, full |-> fu]
    BY <1>6, <2>2, <2>3
  <2>5. ar \in [1 .. na -> Slots] BY <1>3
  <2>6. EmptyHash(setnodevector(tc, nh), tc, nh) BY ONLY <2>4, <2>5, NodeVectorFields
  <2> QED BY <2>6
<1> HIDE DEF new
<1>8. tc.array = ar /\ tc.sizearray = na /\ tc.flags = tb.flags
      /\ tc.self = tb.self /\ tc.full = tb.full
  BY <1>6
<1>9. /\ new.array = ar /\ new.sizearray = na
      /\ new.flags = tb.flags /\ new.self = tb.self /\ new.full = tb.full
      /\ nh <= sizenode(new) /\ (new.dummy <=> nh = 0) /\ TableShape(new)
  BY <1>7, <1>8 DEF EmptyHash
<1>10. ArrayInv(new)
  <2>1. \A i \in 1 .. na : ar[i] # Nil => i \in 1 .. tb.sizearray /\ tb.array[i] # Nil
    BY <1>2, <1>3
  <2> QED BY <1>9, <2>1 DEF TableInv, ArrayInv
<1>11. /\ TableInv(new) /\ Packed(new)
       /\ \A k \in Keys : GetValue(new, k) = IF InArray(new, k) THEN new.array[k] ELSE Nil
  BY <1>7, <1>10, EmptyHashFacts
<1>12. \A k : InArray(new, k) <=> InSlots(k, na) BY <1>9 DEF InArray, InSlots
<1>13. HashKeys(new, tb) = Rest(tb, na) BY <1>12 DEF HashKeys, Rest
<1>14. Room(new, tb)
  <2>1. Cardinality(Rest(tb, na)) \in Nat BY FS_CardinalityType
  <2>2. sizenode(new) \in Nat BY <1>9, SizeFacts DEF TableShape
  <2>3. Cardinality(Rest(tb, na)) <= sizenode(new) BY <1>9, <2>1, <2>2
  <2>4. ASSUME new.dummy PROVE Rest(tb, na) = {}
    <3>1. Cardinality(Rest(tb, na)) = 0 BY <1>9, <2>1, <2>4
    <3> QED BY <3>1, FS_EmptySet
  <2> QED BY <1>13, <2>3, <2>4 DEF Room
<1>15. \A k \in Keys : InArray(new, k) =>
         /\ k \in 1 .. na
         /\ GetValue(new, k) = IF k <= tb.sizearray THEN tb.array[k] ELSE Nil
  <2> TAKE k \in Keys
  <2> HAVE InArray(new, k)
  <2>1. k \in 1 .. na BY <1>9, <1>11, ArrayKey
  <2> QED BY <1>3, <1>9, <1>11, <2>1
<1>16. \A k \in Keys : InArray(tb, k) =>
         k \in IntKeys /\ k \in 1 .. tb.sizearray /\ GetValue(tb, k) = tb.array[k]
  BY <1>2, ArrayKey, ValueFacts
<1>17. Loaded(new, new, tb, from)
  <2>1. Quiet(new, new) BY DEF Quiet
  <2>2. ASSUME NEW k \in Keys PROVE GetValue(new, k) \in {GetValue(tb, k), Nil}
    <3>1. CASE InArray(new, k) /\ k <= tb.sizearray
      <4>1. InArray(tb, k)
        <5>1. arrayindex(k) = k BY <1>9, <3>1, ArrayKey DEF arrayindex
        <5>2. k \in 1 .. na BY <1>15, <3>1
        <5> QED BY <3>1, <5>1, <5>2 DEF InArray
      <4>2. GetValue(tb, k) = tb.array[k] BY <1>16, <4>1
      <4> QED BY <1>15, <3>1, <4>2
    <3>2. CASE InArray(new, k) /\ ~(k <= tb.sizearray) BY <1>15, <3>2
    <3>3. CASE ~InArray(new, k) BY <1>11, <3>3
    <3> QED BY <3>1, <3>2, <3>3
  <2>3. ASSUME NEW k \in Keys, InArray(tb, k), k <= from
        PROVE  GetValue(new, k) = GetValue(tb, k)
    <3>1. k \in IntKeys /\ k \in 1 .. tb.sizearray /\ GetValue(tb, k) = tb.array[k]
      BY <1>16, <2>3
    <3>2. InArray(new, k)
      <4>1. arrayindex(k) = k BY <3>1 DEF arrayindex
      <4>2. 0 < k /\ k <= na BY <1>2, <1>5, <2>3, <3>1
      <4> QED BY <1>12, <4>1, <4>2 DEF InSlots
    <3>3. k <= tb.sizearray BY <3>1
    <3> QED BY <1>15, <3>1, <3>2, <3>3
  <2>4. \A e \in tb.sizearray + 1 .. from : FALSE BY <1>2, <1>5
  <2> QED BY <1>11, <2>1, <2>2, <2>3, <2>4 DEF Loaded
<1>18. Reloaded(ta, new, tb) BY <1>1, <1>5, <1>14, <1>17, ReinsertAllWorks
<1>19. TableInv(ta) /\ Packed(ta) /\ Quiet(ta, new) /\ sizenode(ta) = sizenode(new)
       /\ \A k \in Keys : GetValue(ta, k) = GetValue(tb, k)
  BY <1>18, QuietFacts DEF Reloaded
<1> QED BY <1>9, <1>19 DEF Resized, Quiet, ta

-----------------------------------------------------------------------------
(* Counting.                                                                 *)

Live(tb) == {k \in Keys : GetValue(tb, k) # Nil}

SlotsInUse(tb) == {k \in 1 .. tb.sizearray : tb.array[k] # Nil}
NodesInUse(tb) == {p \in Nodes(tb) : tb.node[p].val # Nil}

\* A node with a value has a live key that has no slot.
LEMMA UsedNode ==
  ASSUME NEW tb, TableInv(tb), NEW p \in NodesInUse(tb)
  PROVE  /\ p \in Nodes(tb) /\ tb.node[p].key \in Keys
         /\ ~tb.dummy /\ ~InArray(tb, tb.node[p].key)
         /\ GetValue(tb, tb.node[p].key) # Nil
<1>1. p \in Nodes(tb) /\ tb.node[p].val # Nil BY DEF NodesInUse
<1>2. TableShape(tb) /\ HomeInv(tb) /\ FreeInv(tb) /\ DeadInv(tb) BY DEF TableInv
<1>3. tb.node[p].key # Nil BY <1>1, <1>2 DEF FreeInv
<1>4. tb.node[p].key \in Keys BY <1>1, <1>2, <1>3, HomeRange
<1>5. ~tb.dummy /\ ~InArray(tb, tb.node[p].key) BY <1>1, <1>2, <1>3 DEF HomeInv
<1>6. ~tb.node[p].dead BY <1>1, <1>2 DEF DeadInv
<1>7. p \in LiveHolding(tb, tb.node[p].key)
  BY <1>1, <1>2, <1>6 DEF LiveHolding, Holding, TableShape
<1>8. GetValue(tb, tb.node[p].key) = tb.node[p].val BY <1>4, <1>7, ValueFacts
<1> QED BY <1>1, <1>4, <1>5, <1>8

\* There are no more live keys without a slot than nodes with a value.
LEMMA CountHashed ==
  ASSUME NEW tb, TableInv(tb)
  PROVE  LET S == {k \in Live(tb) : ~InArray(tb, k)}
         IN  /\ IsFiniteSet(S) /\ IsFiniteSet(NodesInUse(tb))
             /\ Cardinality(S) <= Cardinality(NodesInUse(tb))
             /\ Cardinality(NodesInUse(tb)) <= sizenode(tb)
             /\ tb.dummy => Cardinality(S) = 0
<1> DEFINE S == {k \in Live(tb) : ~InArray(tb, k)}
           f == [p \in NodesInUse(tb) |-> tb.node[p].key]
<1>1. TableShape(tb) BY DEF TableInv
<1>2. IsFiniteSet(Nodes(tb)) /\ Cardinality(Nodes(tb)) = sizenode(tb)
  BY <1>1, SizeFacts DEF TableShape
<1>3. IsFiniteSet(NodesInUse(tb)) /\ Cardinality(NodesInUse(tb)) <= sizenode(tb)
  BY <1>2, FS_Subset DEF NodesInUse
<1>4. f \in Surjection(NodesInUse(tb), S)
  <2>1. \A p \in NodesInUse(tb) : f[p] \in S BY UsedNode DEF Live
  <2>2. \A k \in S : \E p \in NodesInUse(tb) : f[p] = k
    <3> TAKE k \in S
    <3>1. k \in Keys /\ GetValue(tb, k) # Nil /\ ~InArray(tb, k) BY DEF Live
    <3>2. LiveHolding(tb, k) # {} BY <3>1, ValueFacts
    <3>3. PICK p \in LiveHolding(tb, k) : TRUE BY <3>2
    <3>4. p \in Nodes(tb) /\ tb.node[p].key = k
      BY <1>1, <3>3 DEF LiveHolding, Holding, TableShape
    <3>5. tb.node[p].val # Nil BY <3>1, <3>3, ValueFacts
    <3>6. p \in NodesInUse(tb) BY <3>4, <3>5 DEF NodesInUse
    <3> QED BY <3>4, <3>6
  <2> QED BY <2>1, <2>2 DEF Surjection
<1>5. IsFiniteSet(S) /\ Cardinality(S) <= Cardinality(NodesInUse(tb))
  <2> HIDE DEF f, S
  <2> QED BY <1>3, <1>4, FS_Surjection
<1>6. ASSUME tb.dummy PROVE Cardinality(S) = 0
  <2>1. NodesInUse(tb) = {} BY <1>6, UsedNode
  <2>2. S = {} BY <1>4, <2>1 DEF Surjection
  <2> HIDE DEF S
  <2> QED BY <2>2, FS_EmptySet
<1> QED BY <1>3, <1>5, <1>6

LEMMA CountLive ==
  ASSUME NEW tb, TableInv(tb)
  PROVE  /\ IsFiniteSet(Live(tb)) /\ IsFiniteSet(SlotsInUse(tb)) /\ IsFiniteSet(NodesInUse(tb))
         /\ Cardinality(Live(tb)) <= Cardinality(SlotsInUse(tb)) + Cardinality(NodesInUse(tb))
<1> DEFINE A == {k \in Live(tb) : InArray(tb, k)}
           S == {k \in Live(tb) : ~InArray(tb, k)}
<1>1. TableShape(tb) /\ tb.sizearray \in Nat BY DEF TableInv, TableShape
<1>2. IsFiniteSet(SlotsInUse(tb))
  <2>1. IsFiniteSet(1 .. tb.sizearray) BY <1>1, FS_Interval
  <2> QED BY <2>1, FS_Subset DEF SlotsInUse
<1>3. A \in SUBSET SlotsInUse(tb)
  <2>1. ASSUME NEW k \in A PROVE k \in SlotsInUse(tb)
    <3>1. k \in Keys /\ GetValue(tb, k) # Nil /\ InArray(tb, k) BY DEF Live
    <3>2. k \in 1 .. tb.sizearray BY <1>1, <3>1, ArrayKey
    <3>3. tb.array[k] # Nil BY <3>1, ValueFacts
    <3> QED BY <3>2, <3>3 DEF SlotsInUse
  <2> QED BY <2>1
<1>4. IsFiniteSet(A) /\ Cardinality(A) <= Cardinality(SlotsInUse(tb))
  BY <1>2, <1>3, FS_Subset
<1>5. IsFiniteSet(S) /\ IsFiniteSet(NodesInUse(tb)) /\ Cardinality(S) <= Cardinality(NodesInUse(tb))
  BY CountHashed
<1>6. Live(tb) = A \cup S OBVIOUS
<1>7. A \cap S = {} OBVIOUS
<1> HIDE DEF A, S
<1>8. IsFiniteSet(A \cup S)
      /\ Cardinality(A \cup S) = Cardinality(A) + Cardinality(S) - Cardinality(A \cap S)
  BY <1>4, <1>5, FS_Union
<1>9. Cardinality(A \cap S) = 0 BY <1>7, FS_EmptySet
<1>10. /\ Cardinality(A) \in Nat /\ Cardinality(S) \in Nat
       /\ Cardinality(SlotsInUse(tb)) \in Nat /\ Cardinality(NodesInUse(tb)) \in Nat
  BY <1>2, <1>4, <1>5, FS_CardinalityType
<1> QED BY <1>2, <1>4, <1>5, <1>6, <1>8, <1>9, <1>10

\* The keys that must be in nodes when there are n slots, and k among them.
Demand(tb, k, n) == {j \in Keys : (GetValue(tb, j) # Nil \/ j = k) /\ ~InSlots(j, n)}

\* The numbers that could live in an array part are live, or the new key.
LEMMA CandidateFacts ==
  ASSUME NEW tb, TableInv(tb), NEW k \in Keys
  PROVE  /\ IsFiniteSet(ArrayCandidates(tb, k))
         /\ \A j \in ArrayCandidates(tb, k) : j \in IntKeys /\ j > 0 /\ j \in Live(tb) \cup {k}
<1>1. TableShape(tb) /\ tb.sizearray \in Nat BY DEF TableInv, TableShape
<1>2. MAXASIZE \in Nat BY KeyAssumption, PowerAbove DEF MAXASIZE
<1>3. ASSUME NEW j \in 1 .. tb.sizearray, tb.array[j] # Nil
      PROVE  j \in IntKeys /\ j > 0 /\ j \in Live(tb)
  <2>1. j \in IntKeys BY <1>3 DEF TableInv, ArrayInv
  <2>2. InArray(tb, j) /\ j \in Keys BY <1>1, <2>1 DEF InArray, arrayindex, Keys
  <2>3. GetValue(tb, j) = tb.array[j] BY <2>2, ValueFacts
  <2> QED BY <1>3, <2>1, <2>2, <2>3 DEF Live
<1>4. DOMAIN tb.node = Nodes(tb) BY <1>1 DEF TableShape
<1>5. ASSUME NEW j \in IntKeys, NEW p \in DOMAIN tb.node, tb.node[p].key = j, tb.node[p].val # Nil
      PROVE  j \in Live(tb)
  <2>1. p \in NodesInUse(tb) BY <1>4, <1>5 DEF NodesInUse
  <2> QED BY <1>5, <2>1, UsedNode DEF Live
<1>6. \A j \in ArrayCandidates(tb, k) :
        /\ j \in IntKeys /\ j > 0 /\ j \in Live(tb) \cup {k}
        /\ j \in 1 .. tb.sizearray \/ j \in 1 .. MAXASIZE
  BY <1>2, <1>3, <1>5, KeyAssumption DEF ArrayCandidates
<1>7. IsFiniteSet((1 .. tb.sizearray) \cup (1 .. MAXASIZE))
  <2>1. IsFiniteSet(1 .. tb.sizearray) BY <1>1, FS_Interval
  <2>2. IsFiniteSet(1 .. MAXASIZE) BY <1>2, FS_Interval
  <2> QED BY <2>1, <2>2, FS_Union
<1>8. IsFiniteSet(ArrayCandidates(tb, k))
  <2>1. ArrayCandidates(tb, k) \in SUBSET ((1 .. tb.sizearray) \cup (1 .. MAXASIZE)) BY <1>6
  <2> QED BY <1>7, <2>1, FS_Subset
<1> QED BY <1>6, <1>8

\* computesizes counts the candidates that get a slot.
LEMMA SizesFacts ==
  ASSUME NEW C, IsFiniteSet(C)
  PROVE  LET s == computesizes(C)
         IN  /\ s.n \in Nat
             /\ \/ s.na = 0
                \/ s.na = Cardinality({k \in C : k <= s.n})
<1> DEFINE Below(i) == Cardinality({k \in C : k <= 2 ^ i})
           fit == {i \in 0 .. MAXBITS : /\ 2 ^ i \div 2 < Cardinality(C)
                                        /\ \E k \in C : ceillog2(k) = i
                                        /\ Below(i) > 2 ^ i \div 2}
<1>1. computesizes(C) = IF fit = {} THEN [n |-> 0, na |-> 0]
                        ELSE [n |-> 2 ^ Max(fit), na |-> Below(Max(fit))]
  BY DEF computesizes
<1>2. CASE fit = {} BY <1>1, <1>2
<1>3. CASE fit # {}
  <2> DEFINE i == Max(fit)
  <2>1. i \in fit
    <3>1. fit \in SUBSET (0 .. MAXBITS) OBVIOUS
    <3>2. MAXBITS \in Nat BY KeyAssumption
    <3> HIDE DEF fit
    <3> QED BY <1>3, <3>1, <3>2, GreatestNatural
  <2>2. computesizes(C) = [n |-> 2 ^ i, na |-> Below(i)] BY <1>1, <1>3
  <2>3. i \in 0 .. MAXBITS BY <2>1
  <2> HIDE DEF i, fit
  <2>4. i \in Nat BY <2>3, KeyAssumption
  <2>5. 2 ^ i \in Nat BY <2>4, PowerAbove
  <2>6. computesizes(C).n = 2 ^ i /\ computesizes(C).na = Below(i) BY <2>2
  <2> QED BY <2>5, <2>6
<1> QED BY <1>2, <1>3

-----------------------------------------------------------------------------
(* Rehashing and new keys.                                                   *)

\* The count of a rehash covers every key that needs a node, the new one too.
LEMMA DemandCovered ==
  ASSUME NEW tb, TableInv(tb), NEW k \in Keys, GetValue(tb, k) = Nil
  PROVE  LET s  == computesizes(ArrayCandidates(tb, k))
             nh == TotalUse(tb) - s.na
         IN  /\ s.n \in Nat /\ nh \in Nat
             /\ IsFiniteSet(Demand(tb, k, s.n)) /\ Cardinality(Demand(tb, k, s.n)) <= nh
<1> DEFINE C == ArrayCandidates(tb, k)
           s == computesizes(C)
           n == s.n
           L == Live(tb) \cup {k}
           S == {j \in L : InSlots(j, n)}
           D == Demand(tb, k, n)
           B == {j \in C : j <= n}
<1>1. IsFiniteSet(C) /\ \A j \in C : j \in IntKeys /\ j > 0 /\ j \in L
  BY CandidateFacts
<1>2. n \in Nat /\ (s.na = 0 \/ s.na = Cardinality(B)) BY <1>1, SizesFacts
<1>3. /\ IsFiniteSet(Live(tb)) /\ IsFiniteSet(SlotsInUse(tb)) /\ IsFiniteSet(NodesInUse(tb))
      /\ Cardinality(Live(tb)) <= Cardinality(SlotsInUse(tb)) + Cardinality(NodesInUse(tb))
  BY CountLive
<1>4. TotalUse(tb) = Cardinality(SlotsInUse(tb)) + Cardinality(NodesInUse(tb)) + 1
  BY DEF TotalUse, SlotsInUse, NodesInUse, TableInv, TableShape
<1>5. IsFiniteSet(L) /\ Cardinality(L) = Cardinality(Live(tb)) + 1
  <2>1. k \notin Live(tb) BY DEF Live
  <2> QED BY <1>3, <2>1, FS_AddElement
<1>6. D = L \ S BY DEF Demand, Live
<1>7. L \cap S = S OBVIOUS
<1>8. B \subseteq S
  <2>1. ASSUME NEW j \in B PROVE j \in S
    <3>1. j \in IntKeys /\ j > 0 /\ j \in L /\ j <= n BY <1>1
    <3>2. arrayindex(j) = j /\ j \in Int BY <3>1, KeyAssumption DEF arrayindex
    <3>3. InSlots(j, n) BY <1>2, <3>1, <3>2 DEF InSlots
    <3> QED BY <3>1, <3>3
  <2> QED BY <2>1
<1>9. S \in SUBSET L OBVIOUS
<1> HIDE DEF s, n, L, S, D, B, C
<1>10. IsFiniteSet(D) /\ Cardinality(D) = Cardinality(L) - Cardinality(S)
  <2>1. IsFiniteSet(L \ S) /\ Cardinality(L \ S) = Cardinality(L) - Cardinality(L \cap S)
    BY <1>5, FS_Difference
  <2> QED BY <1>6, <1>7, <2>1
<1>11. IsFiniteSet(S) BY <1>5, <1>9, FS_Subset
<1>12. IsFiniteSet(B) /\ Cardinality(B) <= Cardinality(S) BY <1>8, <1>11, FS_Subset
<1>13. /\ Cardinality(S) \in Nat /\ Cardinality(D) \in Nat /\ Cardinality(B) \in Nat
       /\ Cardinality(Live(tb)) \in Nat
       /\ Cardinality(SlotsInUse(tb)) \in Nat /\ Cardinality(NodesInUse(tb)) \in Nat
  BY <1>3, <1>10, <1>11, <1>12, FS_CardinalityType
<1>14. s.na \in Nat /\ s.na <= Cardinality(S) BY <1>2, <1>12, <1>13
<1>15. Cardinality(D) <= TotalUse(tb) - s.na /\ TotalUse(tb) - s.na \in Nat
  BY <1>3, <1>4, <1>5, <1>10, <1>13, <1>14
<1> QED BY <1>2, <1>10, <1>15 DEF s, n, D, C

\* What a rehash returns, and that the new key fits.
Rehashed(ta, tb, k, na, nh) ==
  /\ na \in Nat /\ nh \in Nat /\ Resized(ta, tb, na, nh)
  /\ IsFiniteSet(Demand(tb, k, na)) /\ Cardinality(Demand(tb, k, na)) <= nh

LEMMA RehashWorks ==
  ASSUME NEW tb, TableInv(tb), NEW k \in Keys, GetValue(tb, k) = Nil
  PROVE  \E na, nh : Rehashed(rehash(tb, k), tb, k, na, nh)
<1> DEFINE s == computesizes(ArrayCandidates(tb, k))
           na == s.n
           nh == TotalUse(tb) - s.na
<1>1. /\ na \in Nat /\ nh \in Nat
      /\ IsFiniteSet(Demand(tb, k, na)) /\ Cardinality(Demand(tb, k, na)) <= nh
  BY DemandCovered
<1>2. rehash(tb, k) = resize(tb, na, nh) BY DEF rehash
<1> HIDE DEF s, na, nh
<1>3. IsFiniteSet(Rest(tb, na)) /\ Cardinality(Rest(tb, na)) <= nh
  <2>1. Rest(tb, na) \in SUBSET Demand(tb, k, na) BY DEF Rest, Demand
  <2>2. IsFiniteSet(Rest(tb, na)) /\ Cardinality(Rest(tb, na)) <= Cardinality(Demand(tb, k, na))
    BY <1>1, <2>1, FS_Subset
  <2>3. Cardinality(Rest(tb, na)) \in Nat /\ Cardinality(Demand(tb, k, na)) \in Nat
    BY <1>1, <2>2, FS_CardinalityType
  <2> QED BY <1>1, <2>2, <2>3
<1>4. Resized(resize(tb, na, nh), tb, na, nh) BY <1>1, <1>3, ResizeWorks
<1> QED BY <1>1, <1>2, <1>4 DEF Rehashed

\* The cell of k was made, and no value has changed.
Made(r, tb, k) ==
  /\ TableInv(r.tb) /\ r.cell = luaH_get(r.tb, k) /\ r.cell.part # "none"
  /\ r.tb.self = tb.self /\ r.tb.full = tb.full /\ r.tb.flags \subseteq tb.flags
  /\ \A j \in Keys : GetValue(r.tb, j) = GetValue(tb, j)

LEMMA HashedWorks ==
  ASSUME NEW tb, TableInv(tb), NEW k \in Keys, NEW r, r.at # NoNode,
         Inserted(r.tb, r.at, tb, k)
  PROVE  Made(Hashed(r), tb, k)
<1>1. Hashed(r).tb = r.tb /\ Hashed(r).cell = [part |-> "hash", at |-> r.at]
  BY DEF Hashed
<1>2. TableInv(r.tb) /\ r.at \in LiveHolding(r.tb, k) /\ SameParts(r.tb, tb)
  BY DEF Inserted
<1>3. luaH_get(r.tb, k) = [part |-> "hash", at |-> r.at] BY <1>2, GetFinds
<1>4. \A j \in Keys : GetValue(r.tb, j) = GetValue(tb, j) BY InsertedContent
<1>5. Hashed(r).cell.part # "none" BY <1>1
<1> QED BY <1>1, <1>2, <1>3, <1>4, <1>5 DEF Made, SameParts

LEMMA MadeTrans ==
  ASSUME NEW r, NEW ta, NEW tb, NEW k, Made(r, ta, k),
         ta.self = tb.self, ta.full = tb.full, ta.flags \subseteq tb.flags,
         \A j \in Keys : GetValue(ta, j) = GetValue(tb, j)
  PROVE  Made(r, tb, k)
BY DEF Made

\* A key without a cell is in no slot and in no node.
LEMMA NoCell ==
  ASSUME NEW tb, TableInv(tb), NEW k \in Keys, luaH_get(tb, k).part = "none"
  PROVE  Absent(tb, k) /\ GetValue(tb, k) = Nil
<1>1. ~InArray(tb, k)
  <2>1. InArray(tb, k) => luaH_get(tb, k).part = "array" BY GetFinds
  <2> QED BY <2>1
<1>2. LiveHolding(tb, k) = {}
  <2>1. \A p \in LiveHolding(tb, k) : luaH_get(tb, k).part = "hash" BY GetFinds
  <2> QED BY <2>1
<1> QED BY <1>1, <1>2, ValueFacts DEF Absent

\* After a rehash the new key finds a place.
LEMMA AfterRehash ==
  ASSUME NEW tb, NEW k \in Keys, NEW na, NEW nh, NEW tc, Rehashed(tc, tb, k, na, nh)
  PROVE  Made(CellAfterRehash([tc EXCEPT !.flags = {}], k), tb, k)
<1> DEFINE ta == [tc EXCEPT !.flags = {}]
           r == CellAfterRehash(ta, k)
           cell == luaH_get(ta, k)
<1>1. Resized(tc, tb, na, nh) /\ na \in Nat /\ nh \in Nat BY DEF Rehashed
<1>2. TableInv(tc) /\ Packed(tc) BY <1>1 DEF Resized
<1>3. Reflagged(ta, tc, {}) BY <1>2, FlagsReplaced DEF TableInv
<1>4. r = IF cell.part # "none" THEN [tb |-> ta, cell |-> cell] ELSE Hashed(PlaceKey(ta, k))
  BY DEF CellAfterRehash
<1> HIDE DEF ta, r
<1>5. TableShape(ta) /\ Alike(ta, tc) BY <1>3 DEF Reflagged
<1>6. TableInv(ta) /\ Nodes(ta) = Nodes(tc) /\ sizenode(ta) = sizenode(tc)
      /\ \A j \in Keys : /\ InArray(ta, j) <=> InArray(tc, j)
                         /\ GetValue(ta, j) = GetValue(tc, j)
  BY <1>2, <1>5, AlikeFacts
<1>7. Packed(ta) BY <1>2, <1>5, <1>6 DEF Packed, Alike
<1>8. ta.self = tb.self /\ ta.full = tb.full /\ ta.flags \subseteq tb.flags
  BY <1>1, <1>3 DEF Reflagged, Resized
<1>9. \A j \in Keys : GetValue(ta, j) = GetValue(tb, j) BY <1>1, <1>6 DEF Resized
<1>10. ta.sizearray = na /\ nh <= sizenode(ta) /\ (ta.dummy <=> nh = 0)
  BY <1>1, <1>5, <1>6 DEF Resized, Alike
<1>11. CASE cell.part # "none"
  <2>1. r.tb = ta /\ r.cell = cell BY <1>4, <1>11
  <2> QED BY <1>6, <1>8, <1>9, <1>11, <2>1 DEF Made, r, ta
<1>12. CASE cell.part = "none"
  <2>1. r = Hashed(PlaceKey(ta, k)) BY <1>4, <1>12
  <2>2. Absent(ta, k) BY <1>6, <1>12, NoCell
  <2> DEFINE K == Demand(tb, k, na)
  <2>3. \A j : InArray(ta, j) <=> InSlots(j, na) BY <1>10 DEF InArray, InSlots
  <2>4. k \in K BY <2>2, <2>3 DEF Demand, Absent
  <2>5. \A j \in Keys : GetValue(ta, j) # Nil /\ ~InArray(ta, j) => j \in K
    BY <1>9, <2>3 DEF Demand
  <2>6. IsFiniteSet(K) /\ Cardinality(K) <= nh BY DEF Rehashed
  <2> HIDE DEF K
  <2>7. Cardinality(K) \in Nat /\ Cardinality(K) # 0
    BY <2>4, <2>6, FS_CardinalityType, FS_EmptySet
  <2>8. sizenode(ta) \in Nat BY <1>5, SizeFacts DEF TableShape
  <2>9. Cardinality(K) <= sizenode(ta) /\ ~ta.dummy BY <1>1, <1>10, <2>6, <2>7, <2>8
  <2>10. ~Crowded(ta) BY <1>6, <1>7, <2>2, <2>4, <2>5, <2>6, <2>9, NotCrowded
  <2>11. PlaceKey(ta, k).at # NoNode /\ Inserted(PlaceKey(ta, k).tb, PlaceKey(ta, k).at, ta, k)
    BY <1>6, <2>2, <2>10, PlaceKeyWorks
  <2>12. Made(r, ta, k) BY <1>6, <2>1, <2>11, HashedWorks
  <2> QED BY <1>8, <1>9, <2>12, MadeTrans DEF r, ta
<1> QED BY <1>11, <1>12

LEMMA NewKeyWorks ==
  ASSUME NEW tb, TableInv(tb), NEW k \in Keys, Absent(tb, k), GetValue(tb, k) = Nil
  PROVE  Made(newkey(tb, k), tb, k)
<1> DEFINE r == PlaceKey(tb, k)
           tc == rehash(tb, k)
<1>1. newkey(tb, k) = IF r.at # NoNode THEN Hashed(r)
                      ELSE CellAfterRehash([tc EXCEPT !.flags = {}], k)
  BY DEF newkey
<1>2. CASE r.at # NoNode
  <2>1. Inserted(r.tb, r.at, tb, k) BY <1>2, PlaceKeyWorks
  <2>2. newkey(tb, k) = Hashed(r) BY <1>1, <1>2
  <2> HIDE DEF r
  <2> QED BY <1>2, <2>1, <2>2, HashedWorks
<1>3. CASE r.at = NoNode
  <2>1. newkey(tb, k) = CellAfterRehash([tc EXCEPT !.flags = {}], k) BY <1>1, <1>3
  <2>2. PICK na, nh : Rehashed(tc, tb, k, na, nh) BY RehashWorks
  <2> HIDE DEF tc
  <2> QED BY <2>1, <2>2, AfterRehash
<1> QED BY <1>2, <1>3

LEMMA SetNumWorks ==
  ASSUME NEW tb, TableInv(tb), NEW k \in Keys
  PROVE  Made(luaH_setnum(tb, k), tb, k)
<1> DEFINE cell == luaH_get(tb, k)
<1>1. luaH_setnum(tb, k) = IF cell.part # "none" THEN [tb |-> tb, cell |-> cell]
                           ELSE newkey(tb, k)
  BY DEF luaH_setnum
<1>2. CASE cell.part # "none"
  <2>1. luaH_setnum(tb, k) = [tb |-> tb, cell |-> cell] BY <1>1, <1>2
  <2>2. luaH_setnum(tb, k).tb = tb /\ luaH_setnum(tb, k).cell = cell BY <2>1
  <2> QED BY <1>2, <2>2 DEF Made
<1>3. CASE cell.part = "none"
  <2>1. luaH_setnum(tb, k) = newkey(tb, k) BY <1>1, <1>3
  <2> QED BY <1>3, <2>1, NoCell, NewKeyWorks
<1> QED BY <1>2, <1>3

LEMMA SetWorks ==
  ASSUME NEW tb, TableInv(tb), NEW k \in Keys
  PROVE  Made(luaH_set(tb, k), tb, k) /\ luaH_set(tb, k).tb.flags = {}
<1> DEFINE ta == [tb EXCEPT !.flags = {}]
<1>1. Reflagged(ta, tb, {}) BY FlagsReplaced DEF TableInv
<1>2. luaH_set(tb, k) = luaH_setnum(ta, k) BY DEF luaH_set
<1> HIDE DEF ta
<1>3. TableInv(ta) /\ \A j \in Keys : GetValue(ta, j) = GetValue(tb, j)
  BY <1>1, AlikeFacts DEF Reflagged
<1>4. Made(luaH_set(tb, k), ta, k) BY <1>2, <1>3, SetNumWorks
<1>5. Made(luaH_set(tb, k), tb, k) BY <1>1, <1>3, <1>4, MadeTrans DEF Reflagged
<1>6. luaH_set(tb, k).tb.flags = {} BY <1>1, <1>4 DEF Made, Reflagged
<1> QED BY <1>5, <1>6

-----------------------------------------------------------------------------
(* The other operations.                                                     *)

\* A new table is empty.
LEMMA NewWorks ==
  ASSUME NEW na \in Nat, NEW nh \in Nat
  PROVE  LET ta == luaH_new(na, nh)
         IN  /\ TableInv(ta) /\ ta.flags = {} /\ ~ta.self /\ ~ta.full
             /\ \A k \in Keys : GetValue(ta, k) = Nil
<1> DEFINE ar == NewArray(na)
           ta == luaH_new(na, nh)
           tb == [array |-> ar, sizearray |-> na, lsizenode |-> 0,
                  node |-> << >>, lastfree |-> 0, dummy |-> TRUE, flags |-> {},
                  self |-> FALSE, full |-> FALSE]
<1>1. ar \in [1 .. na -> Slots] /\ \A i \in 1 .. na : ar[i] = Nil BY DEF NewArray, Slots
<1>2. ta = setnodevector(tb, nh) BY DEF luaH_new
<1>3. \A se, fu, du : EmptyHash(setnodevector(
        [array |-> ar, sizearray |-> na, lsizenode |-> 0,
         node |-> << >>, lastfree |-> 0, dummy |-> du, flags |-> {},
         self |-> se, full |-> fu], nh),
        [array |-> ar, sizearray |-> na, lsizenode |-> 0,
         node |-> << >>, lastfree |-> 0, dummy |-> du, flags |-> {},
         self |-> se, full |-> fu], nh) \/ se \notin BOOLEAN \/ fu \notin BOOLEAN
  <2> HIDE DEF ar
  <2> TAKE se, fu, du
  <2> SUFFICES ASSUME se \in BOOLEAN, fu \in BOOLEAN
               PROVE EmptyHash(setnodevector(
                       [array |-> ar, sizearray |-> na, lsizenode |-> 0,
                        node |-> << >>, lastfree |-> 0, dummy |-> du, flags |-> {},
                        self |-> se, full |-> fu], nh),
                       [array |-> ar, sizearray |-> na, lsizenode |-> 0,
                        node |-> << >>, lastfree |-> 0, dummy |-> du, flags |-> {},
                        self |-> se, full |-> fu], nh)
    OBVIOUS
  <2>1. {} \in SUBSET Events OBVIOUS
  <2> DEFINE tc == [array |-> ar, sizearray |-> na, lsizenode |-> 0,
                    node |-> << >>, lastfree |-> 0, dummy |-> du, flags |-> {},
                    self |-> se, full |-> fu]
  <2>2. tc = [array |-> ar, sizearray |-> na, lsizenode |-> 0,
              node |-> << >>, lastfree |-> 0, dummy |-> du, flags |-> {},
              self |-> se, full |-> fu]
    OBVIOUS
  <2> HIDE DEF tc
  <2>3. EmptyHash(setnodevector(tc, nh), tc, nh) BY <1>1, <2>1, <2>2, NodeVectorFields
  <2> QED BY <2>2, <2>3
<1>4. EmptyHash(ta, tb, nh)
  <2>1. TRUE \in BOOLEAN /\ FALSE \in BOOLEAN OBVIOUS
  <2> HIDE DEF ar, ta
  <2> QED BY <1>2, <1>3, <2>1, Zenon
<1>5. tb.array = ar /\ tb.sizearray = na /\ tb.flags = {} OBVIOUS
<1>6. (tb.self <=> FALSE) /\ (tb.full <=> FALSE) /\ tb.self \in BOOLEAN /\ tb.full \in BOOLEAN
  OBVIOUS
<1> HIDE DEF tb, ta, ar
<1>7. ta.array = ar /\ ta.sizearray = na /\ ta.flags = {} /\ ta.self = tb.self /\ ta.full = tb.full
  BY <1>4, <1>5 DEF EmptyHash
<1>8. ArrayInv(ta) BY <1>1, <1>7 DEF ArrayInv
<1>9. TableInv(ta) /\ \A k \in Keys : GetValue(ta, k) = IF InArray(ta, k) THEN ta.array[k] ELSE Nil
  BY <1>4, <1>8, EmptyHashFacts
<1>10. ASSUME NEW k \in Keys PROVE GetValue(ta, k) = Nil
  <2>1. CASE InArray(ta, k)
    <3>1. k \in 1 .. ta.sizearray BY <1>9, <2>1, ArrayKey DEF TableInv
    <3> QED BY <1>1, <1>7, <1>9, <2>1, <3>1
  <2>2. CASE ~InArray(ta, k) BY <1>9, <2>2
  <2> QED BY <2>1, <2>2
<1>11. ~ta.self /\ ~ta.full BY <1>6, <1>7
<1> QED BY <1>7, <1>9, <1>10, <1>11 DEF ta

\* The key in p is dead, and all else is as before.
Buried(ta, tb, p) ==
  /\ TableInv(ta) /\ SameParts(ta, tb) /\ ta.lastfree = tb.lastfree
  /\ \A q \in Nodes(tb) :
       /\ ta.node[q].key = tb.node[q].key /\ ta.node[q].val = tb.node[q].val
       /\ ta.node[q].next = tb.node[q].next
       /\ q # p => ta.node[q].dead = tb.node[q].dead
  /\ \A k \in Keys : GetValue(ta, k) = GetValue(tb, k)

LEMMA RemoveFields ==
  ASSUME NEW tb, TableShape(tb), NEW p \in Nodes(tb)
  PROVE  LET ta == [tb EXCEPT !.node[p].dead = TRUE]
         IN  /\ TableShape(ta) /\ SameParts(ta, tb) /\ ta.lastfree = tb.lastfree
             /\ \A q \in Nodes(tb) :
                  /\ ta.node[q].key = tb.node[q].key /\ ta.node[q].val = tb.node[q].val
                  /\ ta.node[q].next = tb.node[q].next
                  /\ q # p => ta.node[q].dead = tb.node[q].dead
             /\ ta.node[p].dead
<1> DEFINE x == tb.node[p]
           new(b) == [key |-> x.key, val |-> x.val, next |-> x.next, dead |-> b]
           y == [x EXCEPT !.dead = TRUE]
           nd == [tb.node EXCEPT ![p] = y]
           ta == [tb EXCEPT !.node[p].dead = TRUE]
<1>1. tb.node \in [Nodes(tb) -> NodeType(tb)] /\ x \in NodeType(tb) BY NodesTyped
<1>2. y = new(TRUE) BY <1>1, NodeFields
<1>3. \A b \in BOOLEAN : /\ new(b).key = x.key /\ new(b).val = x.val /\ new(b).next = x.next
                         /\ (new(b).dead <=> b) /\ new(b) \in NodeType(tb)
  BY <1>1, NodeFields DEF NodeType
<1>4. TRUE \in BOOLEAN OBVIOUS
<1> HIDE DEF new
<1>5. /\ y.key = x.key /\ y.val = x.val /\ y.next = x.next
      /\ (y.dead <=> TRUE) /\ y \in NodeType(tb)
  BY <1>2, <1>3, <1>4, Zenon
<1>6. ta = [tb EXCEPT !.node = nd] OBVIOUS
<1> HIDE DEF y, ta
<1>7. nd \in [Nodes(tb) -> NodeType(tb)] /\ nd[p] = y
      /\ \A q \in Nodes(tb) \ {p} : nd[q] = tb.node[q]
  BY <1>1, <1>5
<1> HIDE DEF nd
<1>8. Renoded(ta, tb, tb.lastfree, nd) BY <1>6, <1>7, NodesReplaced
<1>9. TableShape(ta) /\ SameParts(ta, tb) /\ ta.lastfree = tb.lastfree /\ ta.node = nd
  BY <1>8 DEF Renoded
<1> QED BY <1>5, <1>7, <1>9 DEF ta

LEMMA RemoveWorks ==
  ASSUME NEW tb, TableInv(tb), NEW p \in Nodes(tb), tb.node[p].val = Nil, ~tb.node[p].dead,
         tb.node[p].key # Nil
  PROVE  Buried([tb EXCEPT !.node[p].dead = TRUE], tb, p)
<1> DEFINE ta == [tb EXCEPT !.node[p].dead = TRUE]
<1>1. TableShape(tb) BY DEF TableInv
<1>2. /\ TableShape(ta) /\ SameParts(ta, tb) /\ ta.lastfree = tb.lastfree
      /\ \A q \in Nodes(tb) :
           /\ ta.node[q].key = tb.node[q].key /\ ta.node[q].val = tb.node[q].val
           /\ ta.node[q].next = tb.node[q].next
           /\ q # p => ta.node[q].dead = tb.node[q].dead
      /\ ta.node[p].dead
  BY <1>1, RemoveFields
<1> HIDE DEF ta
<1>9. TableShape(ta) /\ SameParts(ta, tb) /\ ta.lastfree = tb.lastfree BY <1>2
<1>10. /\ Nodes(ta) = Nodes(tb)
       /\ \A j : mainposition(ta, j) = mainposition(tb, j)
       /\ \A j : InArray(ta, j) <=> InArray(tb, j)
  BY <1>9, SameFacts
<1>11. ASSUME NEW q \in Nodes(tb)
       PROVE  /\ ta.node[q].key = tb.node[q].key /\ ta.node[q].val = tb.node[q].val
              /\ ta.node[q].next = tb.node[q].next
              /\ q # p => ta.node[q].dead = tb.node[q].dead
  BY <1>2
<1>12. ta.node[p].dead BY <1>2
<1>13. Links(ta) = Links(tb) BY <1>10, <1>11 DEF Links
<1>14. ArrayInv(ta) BY <1>9 DEF ArrayInv, TableInv, SameParts
<1>15. FreeInv(ta)
  <2>1. FreeInv(tb) BY DEF TableInv
  <2>2. ~ta.dummy <=> ~tb.dummy BY <1>9 DEF SameParts
  <2>3. \A q \in Nodes(tb) : tb.node[q].key = Nil => q # p OBVIOUS
  <2>4. \A q \in Nodes(tb) : ta.node[q].key = Nil =>
          /\ ta.node[q].val = Nil /\ ta.node[q].next = NoNode /\ ~ta.node[q].dead
          /\ \A r \in Nodes(tb) : ta.node[r].next # q
    BY <2>1, <2>3, <1>11 DEF FreeInv
  <2>5. ~ta.dummy => \A q \in Nodes(tb) : q >= ta.lastfree => ta.node[q].key # Nil
    BY <2>1, <2>2, <1>9, <1>11 DEF FreeInv
  <2> QED BY <2>4, <2>5, <1>10 DEF FreeInv
<1>16. \A q \in Nodes(tb) : Home(ta, q) = Home(tb, q) BY <1>10, <1>11 DEF Home
<1>17. HomeInv(ta)
  <2>1. HomeInv(tb) BY DEF TableInv
  <2>2. ~ta.dummy <=> ~tb.dummy BY <1>9 DEF SameParts
  <2>3. \A q \in Nodes(tb) : tb.node[q].key # Nil => Home(tb, q) \in Nodes(tb)
    BY <1>1, HomeRange
  <2> QED BY <2>1, <2>2, <2>3, <1>10, <1>11, <1>13, <1>16 DEF HomeInv
<1>18. DeadInv(ta)
  <2>1. DeadInv(tb) BY DEF TableInv
  <2>2. \A q \in Nodes(tb) : ta.node[q].dead => ta.node[q].val = Nil
    BY <2>1, <1>11 DEF DeadInv
  <2>3. ASSUME NEW q \in Nodes(tb), NEW r \in Nodes(tb), ta.node[q].key # Nil,
               ta.node[q].key = ta.node[r].key, ~ta.node[q].dead
        PROVE  /\ ~ta.node[r].dead => q = r
               /\ Reaches(Nodes(tb), Links(tb), q, r)
    <3>1. q # p /\ ~tb.node[q].dead BY <1>11, <1>12, <2>3
    <3>2. tb.node[q].key # Nil /\ tb.node[q].key = tb.node[r].key BY <1>11, <2>3
    <3>3. ~ta.node[r].dead => ~tb.node[r].dead BY <1>11, <1>12
    <3> QED BY <2>1, <3>1, <3>2, <3>3 DEF DeadInv
  <2> QED BY <2>2, <2>3, <1>10, <1>13 DEF DeadInv
<1>19. Chained(Nodes(ta), Links(ta)) BY <1>10, <1>13 DEF TableInv
<1>20. TableInv(ta) BY <1>9, <1>14, <1>15, <1>17, <1>18, <1>19 DEF TableInv
<1>21. ASSUME NEW k \in Keys PROVE GetValue(ta, k) = GetValue(tb, k)
  <2>1. CASE InArray(tb, k)
    <3>1. InArray(ta, k) BY <1>10, <2>1
    <3>2. GetValue(ta, k) = ta.array[k] BY <1>20, <3>1, ValueFacts
    <3>3. GetValue(tb, k) = tb.array[k] BY <2>1, ValueFacts
    <3> QED BY <1>9, <3>2, <3>3 DEF SameParts
  <2>2. CASE ~InArray(tb, k)
    <3>1. \A w \in Vals : NodeHas(ta, k, w) <=> NodeHas(tb, k, w) BY <1>10, <1>11 DEF NodeHas
    <3>2. \A w \in Vals : GetValue(ta, k) = w <=> NodeHas(ta, k, w)
      BY <1>10, <1>20, <2>2, ValueFacts
    <3>3. \A w \in Vals : GetValue(tb, k) = w <=> NodeHas(tb, k, w) BY <2>2, ValueFacts
    <3>4. GetValue(ta, k) \in Slots /\ GetValue(tb, k) \in Slots BY <1>20, ValueFacts
    <3> QED BY <3>1, <3>2, <3>3, <3>4, SlotsEqual
  <2> QED BY <2>1, <2>2
<1> QED BY <1>9, <1>11, <1>20, <1>21 DEF Buried, ta

\* Storing in the cell that was made.
Written(ta, tb, k, v) ==
  /\ TableInv(ta) /\ ta.self = tb.self /\ ta.full = tb.full
  /\ \A j \in Keys : GetValue(ta, j) = IF j = k THEN v ELSE GetValue(tb, j)

LEMMA WriteWorks ==
  ASSUME NEW tb, TableInv(tb), NEW k \in Keys, NEW v \in Slots, NEW r, Made(r, tb, k)
  PROVE  Written(Assign(r.tb, r.cell, v), tb, k, v)
         /\ Assign(r.tb, r.cell, v).flags = r.tb.flags
         /\ Value(r.tb, r.cell) = GetValue(tb, k)
<1> DEFINE tc == r.tb
           cell == r.cell
           ta == Assign(tc, cell, v)
<1>1. TableInv(tc) /\ cell = luaH_get(tc, k) /\ cell.part # "none" BY DEF Made
<1> HIDE DEF tc, cell
<1>2. Assigned(ta, tc, k, v) /\ Value(tc, cell) = GetValue(tc, k) BY <1>1, AssignWorks
<1> HIDE DEF ta
<1>3. /\ TableInv(ta) /\ ta.flags = tc.flags /\ ta.self = tc.self /\ ta.full = tc.full
      /\ \A j \in Keys : GetValue(ta, j) = IF j = k THEN v ELSE GetValue(tc, j)
  BY <1>2 DEF Assigned, Kept
<1>4. tc.self = tb.self /\ tc.full = tb.full /\ \A j \in Keys : GetValue(tc, j) = GetValue(tb, j)
  BY DEF Made, tc
<1>5. Written(ta, tb, k, v) BY <1>3, <1>4 DEF Written
<1> QED BY <1>2, <1>3, <1>4, <1>5 DEF ta, tc, cell

\* Asking for a tag method changes the flags only.
LEMMA AskWorks ==
  ASSUME NEW tb, TableInv(tb), NEW e \in Events
  PROVE  LET ta == fasttm(tb, e)
         IN  /\ TableInv(ta) /\ ta.self = tb.self /\ ta.full = tb.full /\ Alike(ta, tb)
             /\ \A k \in Keys : GetValue(ta, k) = GetValue(tb, k) /\ luaH_get(ta, k) = luaH_get(tb, k)
             /\ \/ ta.flags = tb.flags
                \/ ta.flags = tb.flags \cup {e} /\ GetValue(tb, e) = Nil
<1> DEFINE ta == fasttm(tb, e)
           F == tb.flags \cup {e}
<1>1. CASE e \in tb.flags \/ GetValue(tb, e) # Nil
  <2>1. ta = tb BY <1>1 DEF fasttm
  <2> QED BY <2>1 DEF Alike
<1>2. CASE ~(e \in tb.flags \/ GetValue(tb, e) # Nil)
  <2>1. ta = [tb EXCEPT !.flags = F] BY <1>2 DEF fasttm
  <2>2. F \in SUBSET Events BY DEF TableInv, TableShape
  <2> HIDE DEF ta, F
  <2>3. Reflagged(ta, tb, F) BY <2>1, <2>2, FlagsReplaced DEF TableInv
  <2>4. /\ TableInv(ta)
        /\ \A k \in Keys : GetValue(ta, k) = GetValue(tb, k) /\ luaH_get(ta, k) = luaH_get(tb, k)
    BY <2>3, AlikeFacts DEF Reflagged
  <2> QED BY <1>2, <2>3, <2>4 DEF Reflagged, ta, F
<1> QED BY <1>1, <1>2

-----------------------------------------------------------------------------
(* The table.                                                                *)

\* The table is well formed, holds what was stored, and its cached absences
\* are absences.
TableGood(tb, mp) ==
  /\ TableInv(tb) /\ ~tb.full
  /\ mp \in [Keys -> Slots] /\ \A k \in Keys : GetValue(tb, k) = mp[k]
  /\ \A e \in tb.flags : GetValue(tb, e) = Nil \/ (tb.self /\ e = NewIndex)

StoreInv == TableGood(t, m)

LEMMA EventKeys == Events \subseteq Keys /\ Events \cap IntKeys = {} /\ NewIndex \in Events
BY KeyAssumption DEF Keys

LEMMA InitStore == Init => StoreInv
<1> SUFFICES ASSUME Init PROVE StoreInv
  OBVIOUS
<1>1. PICK s \in InitSizes : t = luaH_new(s[1], s[2]) BY DEF Init
<1> DEFINE na == s[1]
           nh == s[2]
<1>2. na \in Nat /\ nh \in Nat /\ t = luaH_new(na, nh) BY <1>1, KeyAssumption
<1> HIDE DEF na, nh
<1>3. TableInv(t) /\ t.flags = {} /\ ~t.full /\ \A k \in Keys : GetValue(t, k) = Nil
  BY <1>2, NewWorks
<1>4. m = [k \in Keys |-> Nil] BY DEF Init
<1>5. m \in [Keys -> Slots] /\ \A k \in Keys : m[k] = Nil BY <1>4 DEF Slots
<1> QED BY <1>3, <1>5 DEF StoreInv, TableGood

\* Assigning a key in the cell that luaH_set or luaH_setnum made.
LEMMA GoodWrite ==
  ASSUME NEW tb, NEW mp, TableGood(tb, mp), NEW k \in Keys, NEW v \in Slots,
         NEW ta, Written(ta, tb, k, v),
         \A e \in ta.flags : (e # k /\ e \in tb.flags) \/ (tb.self /\ e = NewIndex)
  PROVE  TableGood(ta, [mp EXCEPT ![k] = v])
<1> DEFINE mq == [mp EXCEPT ![k] = v]
<1>1. mq \in [Keys -> Slots] /\ \A j \in Keys : mq[j] = IF j = k THEN v ELSE mp[j]
  BY DEF TableGood
<1>2. TableInv(ta) /\ ~ta.full /\ ta.self = tb.self
      /\ \A j \in Keys : GetValue(ta, j) = IF j = k THEN v ELSE GetValue(tb, j)
  BY DEF Written, TableGood
<1>3. \A j \in Keys : GetValue(ta, j) = mq[j] BY <1>1, <1>2 DEF TableGood
<1>4. ASSUME NEW e \in ta.flags PROVE GetValue(ta, e) = Nil \/ (ta.self /\ e = NewIndex)
  <2>1. e \in Keys BY <1>2, EventKeys DEF TableInv, TableShape
  <2>2. CASE e # k /\ e \in tb.flags
    <3>1. GetValue(ta, e) = GetValue(tb, e) BY <1>2, <2>1, <2>2
    <3> QED BY <1>2, <2>2, <3>1 DEF TableGood
  <2>3. CASE tb.self /\ e = NewIndex BY <1>2, <2>3
  <2> QED BY <2>2, <2>3
<1> HIDE DEF mq
<1> QED BY <1>1, <1>2, <1>3, <1>4 DEF TableGood, mq

\* Values are the same, and no absence has become known.
LEMMA GoodSame ==
  ASSUME NEW tb, NEW mp, TableGood(tb, mp), NEW ta, TableInv(ta), ta.full = tb.full,
         ta.self = tb.self \/ ta.self, \A k \in Keys : GetValue(ta, k) = GetValue(tb, k),
         \A e \in ta.flags : e \in tb.flags \/ GetValue(tb, e) = Nil
  PROVE  TableGood(ta, mp)
<1>1. \A e \in ta.flags : e \in Keys BY EventKeys DEF TableInv, TableShape
<1>2. \A e \in ta.flags : GetValue(ta, e) = Nil \/ (ta.self /\ e = NewIndex)
  BY <1>1 DEF TableGood
<1> QED BY <1>2 DEF TableGood

LEMMA RawSetStore ==
  ASSUME StoreInv, NEW k \in Keys, NEW v \in Vals \cup {Nil}, RawSet(k, v)
  PROVE  StoreInv'
<1> DEFINE r == luaH_set(t, k)
<1>1. TableGood(t, m) /\ TableInv(t) /\ v \in Slots BY DEF StoreInv, TableGood, Slots
<1>2. t' = Assign(r.tb, r.cell, v) /\ m' = [m EXCEPT ![k] = v] BY DEF RawSet, Stored
<1>3. Made(r, t, k) /\ r.tb.flags = {} BY <1>1, SetWorks
<1> HIDE DEF r
<1>4. Written(t', t, k, v) /\ t'.flags = {} BY <1>1, <1>2, <1>3, WriteWorks
<1>5. TableGood(t', m') BY <1>1, <1>2, <1>4, GoodWrite
<1> QED BY <1>5 DEF StoreInv

LEMMA RawSetIStore ==
  ASSUME StoreInv, NEW k \in Keys, NEW v \in Vals \cup {Nil}, RawSetI(k, v)
  PROVE  StoreInv'
<1> DEFINE r == luaH_setnum(t, k)
<1>1. TableGood(t, m) /\ TableInv(t) /\ v \in Slots BY DEF StoreInv, TableGood, Slots
<1>2. t' = Assign(r.tb, r.cell, v) /\ m' = [m EXCEPT ![k] = v] /\ k \in IntKeys
  BY DEF RawSetI, Stored
<1>3. Made(r, t, k) BY <1>1, SetNumWorks
<1> HIDE DEF r
<1>4. Written(t', t, k, v) /\ t'.flags = r.tb.flags BY <1>1, <1>2, <1>3, WriteWorks
<1>5. t'.flags \subseteq t.flags BY <1>3, <1>4 DEF Made
<1>6. \A e \in t'.flags : e # k /\ e \in t.flags
  BY <1>1, <1>2, <1>5, EventKeys DEF TableInv, TableShape
<1>7. TableGood(t', m') BY <1>1, <1>2, <1>4, <1>6, GoodWrite
<1> QED BY <1>7 DEF StoreInv

LEMMA SetTableStore ==
  ASSUME StoreInv, NEW k \in Keys, NEW v \in Vals \cup {Nil}, SetTable(k, v)
  PROVE  StoreInv'
<1> DEFINE r == luaH_set(t, k)
           asked == IF Value(r.tb, r.cell) # Nil THEN r.tb ELSE fasttm(r.tb, NewIndex)
<1>1. TableGood(t, m) /\ TableInv(t) /\ v \in Slots /\ NewIndex \in Events
  BY EventKeys DEF StoreInv, TableGood, Slots
<1>2. Made(r, t, k) /\ r.tb.flags = {} BY <1>1, SetWorks
<1>3. /\ t.self
      /\ \/ /\ Value(r.tb, r.cell) # Nil \/ NewIndex \in asked.flags
            /\ t' = Assign(asked, r.cell, v) /\ m' = [m EXCEPT ![k] = v]
         \/ /\ ~(Value(r.tb, r.cell) # Nil \/ NewIndex \in asked.flags)
            /\ t' = asked /\ m' = m
  BY DEF SetTable, Stored
<1>4. asked = r.tb \/ asked = fasttm(r.tb, NewIndex) OBVIOUS
<1> HIDE DEF r, asked
<1>5. TableInv(r.tb) BY <1>2 DEF Made
<1>6. /\ TableInv(asked) /\ asked.self = r.tb.self /\ asked.full = r.tb.full
      /\ \A j \in Keys : GetValue(asked, j) = GetValue(r.tb, j) /\ luaH_get(asked, j) = luaH_get(r.tb, j)
      /\ asked.flags \subseteq {NewIndex}
      /\ NewIndex \in asked.flags => GetValue(r.tb, NewIndex) = Nil
  <2>1. CASE asked = r.tb BY <1>2, <1>5, <2>1
  <2>2. CASE asked = fasttm(r.tb, NewIndex)
    <3>1. /\ TableInv(asked) /\ asked.self = r.tb.self /\ asked.full = r.tb.full
          /\ \A j \in Keys : GetValue(asked, j) = GetValue(r.tb, j)
                             /\ luaH_get(asked, j) = luaH_get(r.tb, j)
          /\ \/ asked.flags = r.tb.flags
             \/ asked.flags = r.tb.flags \cup {NewIndex} /\ GetValue(r.tb, NewIndex) = Nil
      BY <1>1, <1>5, <2>2, AskWorks
    <3> QED BY <1>2, <3>1
  <2> QED BY <1>4, <2>1, <2>2
<1>7. \A j \in Keys : GetValue(asked, j) = GetValue(t, j) BY <1>2, <1>6 DEF Made
<1>8. asked.self = t.self /\ asked.full = t.full BY <1>2, <1>6 DEF Made
<1>9. CASE t' = Assign(asked, r.cell, v) /\ m' = [m EXCEPT ![k] = v]
  <2>1. r.cell = luaH_get(asked, k) /\ r.cell.part # "none" BY <1>2, <1>6 DEF Made
  <2>2. Assigned(t', asked, k, v) BY <1>1, <1>6, <1>9, <2>1, AssignWorks
  <2>3. TableInv(t') /\ t'.self = asked.self /\ t'.full = asked.full /\ t'.flags = asked.flags
        /\ \A j \in Keys : GetValue(t', j) = IF j = k THEN v ELSE GetValue(asked, j)
    BY <2>2 DEF Assigned, Kept
  <2>4. Written(t', t, k, v) BY <1>7, <1>8, <2>3 DEF Written
  <2>5. \A e \in t'.flags : t.self /\ e = NewIndex BY <1>3, <1>6, <2>3
  <2>6. TableGood(t', m') BY <1>1, <1>9, <2>4, <2>5, GoodWrite
  <2> QED BY <2>6 DEF StoreInv
<1>10. CASE t' = asked /\ m' = m
  <2>1. \A e \in asked.flags : GetValue(t, e) = Nil
    <3>1. NewIndex \in Keys BY EventKeys
    <3>2. GetValue(r.tb, NewIndex) = GetValue(t, NewIndex) BY <1>2, <3>1 DEF Made
    <3> QED BY <1>6, <3>2
  <2>2. TableGood(asked, m) BY <1>1, <1>6, <1>7, <1>8, <2>1, GoodSame
  <2> QED BY <1>10, <2>2 DEF StoreInv
<1> QED BY <1>3, <1>9, <1>10

LEMMA AskStore ==
  ASSUME StoreInv, NEW e \in Events, AskEvent(e)
  PROVE  StoreInv'
<1>1. TableGood(t, m) /\ TableInv(t) BY DEF StoreInv, TableGood
<1>2. t' = fasttm(t, e) /\ m' = m BY DEF AskEvent
<1>3. /\ TableInv(t') /\ t'.self = t.self /\ t'.full = t.full
      /\ \A k \in Keys : GetValue(t', k) = GetValue(t, k)
      /\ \/ t'.flags = t.flags
         \/ t'.flags = t.flags \cup {e} /\ GetValue(t, e) = Nil
  BY <1>1, <1>2, AskWorks
<1>4. \A f \in t'.flags : f \in t.flags \/ GetValue(t, f) = Nil BY <1>3
<1>5. TableGood(t', m) BY <1>1, <1>3, <1>4, GoodSame
<1> QED BY <1>2, <1>5 DEF StoreInv

LEMMA OwnStore ==
  ASSUME StoreInv, OwnMetatable
  PROVE  StoreInv'
<1>1. TableGood(t, m) /\ TableInv(t) /\ TableShape(t)
  BY DEF StoreInv, TableGood, TableInv
<1>2. t' = [t EXCEPT !.self = TRUE] /\ m' = m BY DEF OwnMetatable
<1>3. t' = [array |-> t.array, sizearray |-> t.sizearray, lsizenode |-> t.lsizenode,
            node |-> t.node, lastfree |-> t.lastfree, dummy |-> t.dummy,
            flags |-> t.flags, self |-> TRUE, full |-> t.full]
  BY <1>1, <1>2 DEF TableShape
<1>4. Alike(t', t) BY <1>3 DEF Alike
<1>5. t'.flags = t.flags /\ t'.full = t.full /\ t'.self = TRUE BY <1>3
<1>6. Nodes(t') = Nodes(t) /\ sizenode(t') = sizenode(t)
  BY <1>4, MainSame DEF Alike, sizenode
<1>7. TableShape(t')
  <2>1. t' = [array |-> t'.array, sizearray |-> t'.sizearray, lsizenode |-> t'.lsizenode,
              node |-> t'.node, lastfree |-> t'.lastfree, dummy |-> t'.dummy,
              flags |-> t'.flags, self |-> t'.self, full |-> t'.full]
    BY <1>3
  <2> QED BY <1>1, <1>4, <1>5, <1>6, <2>1 DEF TableShape, Alike
<1>8. TableInv(t') /\ \A k \in Keys : GetValue(t', k) = GetValue(t, k)
  BY <1>1, <1>4, <1>7, AlikeFacts
<1>9. TableGood(t', m) BY <1>1, <1>5, <1>8, GoodSame
<1> QED BY <1>2, <1>9 DEF StoreInv

\* Room for a list leaves at least as many nodes as there were.
LEMMA GrowRest ==
  ASSUME NEW tb, TableInv(tb), NEW n \in Nat, n > tb.sizearray
  PROVE  LET nh == IF tb.dummy THEN 0 ELSE sizenode(tb)
         IN  nh \in Nat /\ Resized(resize(tb, n, nh), tb, n, nh)
<1> DEFINE nh == IF tb.dummy THEN 0 ELSE sizenode(tb)
           S == {k \in Live(tb) : ~InArray(tb, k)}
<1>1. TableShape(tb) /\ tb.sizearray \in Nat /\ sizenode(tb) \in Nat
  BY SizeFacts DEF TableInv, TableShape
<1>2. nh \in Nat BY <1>1
<1>3. /\ IsFiniteSet(S) /\ IsFiniteSet(NodesInUse(tb))
      /\ Cardinality(S) <= Cardinality(NodesInUse(tb)) /\ Cardinality(NodesInUse(tb)) <= sizenode(tb)
      /\ tb.dummy => Cardinality(S) = 0
  BY CountHashed
<1>4. Rest(tb, n) \in SUBSET S
  <2>1. ASSUME NEW k \in Keys, InArray(tb, k) PROVE InSlots(k, n)
    <3>1. k \in IntKeys /\ k \in 1 .. tb.sizearray BY <1>1, <2>1, ArrayKey
    <3>2. arrayindex(k) = k BY <3>1 DEF arrayindex
    <3> QED BY <1>1, <3>1, <3>2 DEF InSlots
  <2> QED BY <2>1 DEF Rest, Live
<1> HIDE DEF S
<1>5. IsFiniteSet(Rest(tb, n)) /\ Cardinality(Rest(tb, n)) <= Cardinality(S)
  BY <1>3, <1>4, FS_Subset
<1>6. /\ Cardinality(Rest(tb, n)) \in Nat /\ Cardinality(S) \in Nat
      /\ Cardinality(NodesInUse(tb)) \in Nat
  BY <1>3, <1>5, FS_CardinalityType
<1>7. Cardinality(Rest(tb, n)) <= nh BY <1>1, <1>3, <1>5, <1>6
<1> HIDE DEF nh
<1>8. Resized(resize(tb, n, nh), tb, n, nh) BY <1>2, <1>5, <1>7, ResizeWorks
<1> QED BY <1>2, <1>8 DEF nh

LEMMA ResizeStore ==
  ASSUME StoreInv, NEW n \in ListSizes, luaH_resizearray(n)
  PROVE  StoreInv'
<1> DEFINE nh == IF t.dummy THEN 0 ELSE sizenode(t)
<1>1. TableGood(t, m) /\ TableInv(t) /\ n \in Nat
  BY KeyAssumption DEF StoreInv, TableGood
<1>2. n > t.sizearray /\ t' = resize(t, n, nh) /\ m' = m BY DEF luaH_resizearray
<1>3. Resized(t', t, n, nh) BY <1>1, <1>2, GrowRest
<1> HIDE DEF nh
<1>4. TableInv(t') /\ t'.self = t.self /\ t'.full = t.full /\ t'.flags \subseteq t.flags
      /\ \A k \in Keys : GetValue(t', k) = GetValue(t, k)
  BY <1>3 DEF Resized
<1>5. TableGood(t', m) BY <1>1, <1>4, GoodSame
<1> QED BY <1>2, <1>5 DEF StoreInv

LEMMA RemoveStore ==
  ASSUME StoreInv, NEW p, RemoveEntry(p)
  PROVE  StoreInv'
<1>1. TableGood(t, m) /\ TableInv(t) /\ TableShape(t)
  BY DEF StoreInv, TableGood, TableInv
<1>2. /\ p \in Nodes(t) /\ t.node[p].val = Nil /\ ~t.node[p].dead
      /\ t.node[p].key \in Collectable /\ t' = [t EXCEPT !.node[p].dead = TRUE] /\ m' = m
  BY <1>1 DEF RemoveEntry, TableShape
<1>3. t.node[p].key # Nil BY <1>2, KeyAssumption DEF Keys
<1>4. Buried(t', t, p) BY <1>1, <1>2, <1>3, RemoveWorks
<1>5. TableInv(t') /\ t'.self = t.self /\ t'.full = t.full /\ t'.flags = t.flags
      /\ \A k \in Keys : GetValue(t', k) = GetValue(t, k)
  BY <1>4 DEF Buried, SameParts
<1>6. TableGood(t', m) BY <1>1, <1>5, GoodSame
<1> QED BY <1>2, <1>6 DEF StoreInv

LEMMA NextStore == StoreInv /\ [Next]_vars => StoreInv'
<1> SUFFICES ASSUME StoreInv, [Next]_vars PROVE StoreInv'
  OBVIOUS
<1>1. ASSUME NEW k \in Keys, NEW v \in Vals \cup {Nil}, RawSet(k, v) PROVE StoreInv'
  BY <1>1, RawSetStore
<1>2. ASSUME NEW k \in Keys, NEW v \in Vals \cup {Nil}, RawSetI(k, v) PROVE StoreInv'
  BY <1>2, RawSetIStore
<1>3. ASSUME NEW k \in Keys, NEW v \in Vals \cup {Nil}, SetTable(k, v) PROVE StoreInv'
  BY <1>3, SetTableStore
<1>4. ASSUME NEW e \in Events, AskEvent(e) PROVE StoreInv'
  BY <1>4, AskStore
<1>5. ASSUME NEW n \in ListSizes, luaH_resizearray(n) PROVE StoreInv'
  BY <1>5, ResizeStore
<1>6. ASSUME NEW p \in 0 .. MAXASIZE - 1, RemoveEntry(p) PROVE StoreInv'
  BY <1>6, RemoveStore
<1>7. ASSUME OwnMetatable PROVE StoreInv' BY <1>7, OwnStore
<1>8. ASSUME NextKey PROVE StoreInv' BY <1>8 DEF NextKey, StoreInv
<1>9. ASSUME UNCHANGED vars PROVE StoreInv' BY <1>9 DEF vars, StoreInv
<1> QED BY <1>1, <1>2, <1>3, <1>4, <1>5, <1>6, <1>7, <1>8, <1>9 DEF Next

\* The table is well formed and holds what was stored in it, whatever scripts,
\* the collector and tag method lookups do with it (ltable.c, newkey, rehash and
\* luaH_resize; lvm.c, luaV_settable).
THEOREM StoreAlways == Spec => []StoreInv
BY InitStore, NextStore, PTL DEF Spec

\* A lookup finds what was last stored under the key, however often the table
\* was rehashed and the entry was moved since (ltable.c, luaH_get and newkey).
THEOREM LookupsAlwaysAgree == Spec => []LookupsAgree
<1>1. StoreInv => LookupsAgree BY DEF StoreInv, TableGood, LookupsAgree
<1> QED BY <1>1, StoreAlways, PTL

\* A tag method that the flags call absent is absent, but for __newindex of a
\* table that is its own metatable (ltm.h, fasttm; ltable.c, luaH_set).
THEOREM CacheAlwaysHonest == Spec => []CacheHonest
<1>1. StoreInv => CacheHonest BY DEF StoreInv, TableGood, CacheHonest
<1> QED BY <1>1, StoreAlways, PTL

\* A key is out of its main position only because the one there is in its own
\* (ltable.c:15), and newkey never has to rehash twice in a row.
THEOREM KeysAlwaysPlaced == Spec => []KeysPlaced
<1>1. StoreInv => KeysPlaced
  <2> SUFFICES ASSUME StoreInv PROVE KeysPlaced
    OBVIOUS
  <2>1. TableInv(t) /\ ~t.full /\ DOMAIN t.node = Nodes(t)
    BY DEF StoreInv, TableGood, TableInv, TableShape
  <2>2. ASSUME NEW p \in Nodes(t), t.node[p].val # Nil
        PROVE  Home(t, Home(t, p)) = Home(t, p)
    <3>1. t.node[p].key # Nil BY <2>1, <2>2 DEF TableInv, FreeInv
    <3> QED BY <2>1, <3>1 DEF TableInv, HomeInv
  <2> QED BY <2>1, <2>2 DEF KeysPlaced, Home
<1> QED BY <1>1, StoreAlways, PTL

-----------------------------------------------------------------------------
(* The length operator.                                                      *)

\* i is present, or 0, and the next index is absent.
Border(tb, i) ==
  i \in Nat /\ (i = 0 \/ luaH_getnum(tb, i) # Nil) /\ luaH_getnum(tb, i + 1) = Nil

Middle(s) == (s[1] + s[2]) \div 2
Lower(s)  == <<s[1], Middle(s)>>
Upper(s)  == <<Middle(s), s[2]>>

LEMMA Halves ==
  ASSUME NEW lo \in Nat, NEW hi \in Nat, NEW s \in (lo .. hi) \X (lo .. hi), s[2] - s[1] > 1
  PROVE  /\ Middle(s) \in lo .. hi /\ s[1] < Middle(s) /\ Middle(s) < s[2]
         /\ Lower(s) \in (lo .. hi) \X (lo .. hi) /\ Upper(s) \in (lo .. hi) \X (lo .. hi)
         /\ Lower(s)[1] = s[1] /\ Lower(s)[2] = Middle(s)
         /\ Upper(s)[1] = Middle(s) /\ Upper(s)[2] = s[2]
<1>1. s[1] \in lo .. hi /\ s[2] \in lo .. hi OBVIOUS
<1>2. \A a, b \in Nat : b - a > 1 => a < (a + b) \div 2 /\ (a + b) \div 2 < b /\ (a + b) \div 2 \in Nat
  OBVIOUS
<1>3. s[1] \in Nat /\ s[2] \in Nat BY <1>1
<1>4. Middle(s) \in Nat /\ s[1] < Middle(s) /\ Middle(s) < s[2] BY <1>2, <1>3 DEF Middle
<1>5. Middle(s) \in lo .. hi BY <1>1, <1>4
<1> QED BY <1>1, <1>4, <1>5 DEF Lower, Upper

\* The binary search is a function.
LEMMA BisectSteps ==
  ASSUME NEW tb, NEW lo \in Nat, NEW hi \in Nat, lo < hi
  PROVE  \E b :
           /\ \A s \in (lo .. hi) \X (lo .. hi) :
                b[s] = IF s[2] - s[1] <= 1 THEN s[1]
                       ELSE IF luaH_getnum(tb, Middle(s)) = Nil THEN b[Lower(s)] ELSE b[Upper(s)]
           /\ Bisect(tb, lo, hi) = b[<<lo, hi>>]
<1> DEFINE D == (lo .. hi) \X (lo .. hi)
           Body(f, s) == IF s[2] - s[1] <= 1 THEN s[1]
                         ELSE IF luaH_getnum(tb, Middle(s)) = Nil THEN f[Lower(s)] ELSE f[Upper(s)]
           Upto == {n \in Nat : \E f : f = [s \in {x \in D : x[2] - x[1] <= n} |-> Body(f, s)]}
<1>1. \A f, g : \A s \in D :
        (s[2] - s[1] > 1 => f[Lower(s)] = g[Lower(s)] /\ f[Upper(s)] = g[Upper(s)])
        => Body(f, s) = Body(g, s)
  <2> TAKE f, g
  <2> TAKE s \in D
  <2>1. s[2] - s[1] \in Int OBVIOUS
  <2>2. ~(s[2] - s[1] <= 1) => s[2] - s[1] > 1 BY <2>1
  <2> QED BY <2>2
<1>2. \A f, s : s[2] - s[1] <= 1 => Body(f, s) = s[1]
  OBVIOUS
<1>3. \A f, s : Body(f, s) = IF s[2] - s[1] <= 1 THEN s[1]
                             ELSE IF luaH_getnum(tb, Middle(s)) = Nil THEN f[Lower(s)] ELSE f[Upper(s)]
  OBVIOUS
<1> HIDE DEF Body
<1>4. 0 \in Upto
  <2> DEFINE E == {x \in D : x[2] - x[1] <= 0}
             f == [s \in E |-> s[1]]
  <2>1. \A s \in E : s[2] - s[1] <= 1 OBVIOUS
  <2>2. f = [s \in E |-> Body(f, s)]
    <3>1. \A s \in E : f[s] = Body(f, s) BY <1>2, <2>1
    <3> HIDE DEF E
    <3>2. f = [s \in E |-> f[s]] OBVIOUS
    <3> HIDE DEF f
    <3> QED BY <3>1, <3>2
  <2> HIDE DEF f
  <2> QED BY <2>2
<1>5. ASSUME NEW n \in Upto PROVE n + 1 \in Upto
  <2> DEFINE E == {x \in D : x[2] - x[1] <= n}
             F == {x \in D : x[2] - x[1] <= n + 1}
  <2>1. n \in Nat /\ \E f : f = [s \in E |-> Body(f, s)] BY <1>5
  <2>2. PICK f : f = [s \in E |-> Body(f, s)] BY <2>1
  <2> DEFINE h == [s \in F |-> IF s \in E THEN f[s] ELSE Body(f, s)]
  <2>3. E \subseteq F BY <2>1
  <2>4. \A s \in F : s[2] - s[1] > 1 => Lower(s) \in E /\ Upper(s) \in E
    <3> TAKE s \in F
    <3> HAVE s[2] - s[1] > 1
    <3>1. s \in D /\ s[1] \in Nat /\ s[2] \in Nat /\ s[2] - s[1] <= n + 1 OBVIOUS
    <3>2. /\ Middle(s) \in Nat /\ s[1] < Middle(s) /\ Middle(s) < s[2]
          /\ Lower(s) \in D /\ Upper(s) \in D
          /\ Lower(s)[1] = s[1] /\ Lower(s)[2] = Middle(s)
          /\ Upper(s)[1] = Middle(s) /\ Upper(s)[2] = s[2]
      BY <3>1, Halves
    <3>3. Middle(s) - s[1] <= n /\ s[2] - Middle(s) <= n BY <2>1, <3>1, <3>2
    <3> QED BY <3>2, <3>3
  <2>5. \A s \in E : f[s] = Body(f, s)
    <3> HIDE DEF E
    <3> QED BY <2>2, Zenon
  <2>6. F \subseteq D OBVIOUS
  <2> HIDE DEF E, F, D
  <2>7. \A s \in E : h[s] = f[s] BY <2>3
  <2>8. ASSUME NEW s \in F PROVE h[s] = Body(h, s)
    <3>1. h[s] = Body(f, s) BY <2>5, <2>7
    <3>2. s[2] - s[1] > 1 => f[Lower(s)] = h[Lower(s)] /\ f[Upper(s)] = h[Upper(s)]
      BY <2>4, <2>7
    <3>3. Body(f, s) = Body(h, s)
      <4> HIDE DEF h
      <4> QED BY <1>1, <2>6, <3>2
    <3> QED BY <3>1, <3>3
  <2>9. h = [s \in F |-> Body(h, s)]
    <3>1. h = [s \in F |-> h[s]] OBVIOUS
    <3> HIDE DEF h
    <3> QED BY <2>8, <3>1
  <2> HIDE DEF h
  <2>10. \E g : g = [s \in F |-> Body(g, s)] BY <2>9
  <2>11. \E g : g = [s \in {x \in D : x[2] - x[1] <= n + 1} |-> Body(g, s)] BY <2>10 DEF F
  <2>12. n + 1 \in Nat BY <2>1
  <2> QED BY <2>11, <2>12
<1>6. hi - lo \in Upto
  <2>1. hi - lo \in Nat OBVIOUS
  <2>2. Upto \in SUBSET Nat OBVIOUS
  <2> HIDE DEF Upto
  <2> QED BY <1>4, <1>5, <2>1, <2>2, SetInduction
<1>7. {x \in D : x[2] - x[1] <= hi - lo} = D OBVIOUS
<1> DEFINE b == CHOOSE f : f = [s \in D |-> Body(f, s)]
<1>8. b = [s \in D |-> Body(b, s)]
  <2>1. \E f : f = [s \in D |-> Body(f, s)]
    <3> HIDE DEF D
    <3> QED BY <1>6, <1>7
  <2> QED BY <2>1
<1>9. Bisect(tb, lo, hi) = b[<<lo, hi>>]
  BY DEF Bisect, Body, Middle, Lower, Upper
<1> HIDE DEF b, D
<1>10. \A s \in D : b[s] = Body(b, s) BY <1>8, Zenon
<1> QED BY <1>3, <1>9, <1>10 DEF D

\* The binary search returns a border.
LEMMA BisectBorder ==
  ASSUME NEW tb, NEW lo \in Nat, NEW hi \in Nat, lo < hi,
         lo = 0 \/ luaH_getnum(tb, lo) # Nil, luaH_getnum(tb, hi) = Nil
  PROVE  Border(tb, Bisect(tb, lo, hi))
<1> DEFINE D == (lo .. hi) \X (lo .. hi)
           Open(s) == /\ s[1] < s[2] /\ (s[1] = 0 \/ luaH_getnum(tb, s[1]) # Nil)
                      /\ luaH_getnum(tb, s[2]) = Nil
<1>1. PICK b :
        /\ \A s \in D : b[s] = IF s[2] - s[1] <= 1 THEN s[1]
                               ELSE IF luaH_getnum(tb, Middle(s)) = Nil THEN b[Lower(s)] ELSE b[Upper(s)]
        /\ Bisect(tb, lo, hi) = b[<<lo, hi>>]
  BY BisectSteps
<1> DEFINE T == {n \in Nat : \A s \in D : s[2] - s[1] <= n /\ Open(s) => Border(tb, b[s])}
<1>2. 0 \in T
  <2>1. \A s \in D : s[2] - s[1] <= 0 => ~(s[1] < s[2]) OBVIOUS
  <2> QED BY <2>1
<1>3. ASSUME NEW n \in T PROVE n + 1 \in T
  <2>1. n \in Nat /\ \A s \in D : s[2] - s[1] <= n /\ Open(s) => Border(tb, b[s]) BY <1>3
  <2> SUFFICES ASSUME NEW s \in D, s[2] - s[1] <= n + 1, Open(s) PROVE Border(tb, b[s])
    BY <2>1
  <2>2. s[1] \in Nat /\ s[2] \in Nat /\ s[1] < s[2] OBVIOUS
  <2>3. CASE s[2] - s[1] <= 1
    <3>1. s[2] = s[1] + 1 BY <2>2, <2>3
    <3>2. b[s] = s[1] BY <1>1, <2>3
    <3> QED BY <2>2, <3>1, <3>2 DEF Border
  <2>4. CASE s[2] - s[1] > 1
    <3>1. /\ Middle(s) \in Nat /\ s[1] < Middle(s) /\ Middle(s) < s[2]
          /\ Lower(s) \in D /\ Upper(s) \in D
          /\ Lower(s)[1] = s[1] /\ Lower(s)[2] = Middle(s)
          /\ Upper(s)[1] = Middle(s) /\ Upper(s)[2] = s[2]
      BY <2>4, Halves
    <3>2. Middle(s) - s[1] <= n /\ s[2] - Middle(s) <= n BY <2>1, <2>2, <3>1
    <3>3. ~(s[2] - s[1] <= 1) BY <2>2, <2>4
    <3>4. b[s] = IF luaH_getnum(tb, Middle(s)) = Nil THEN b[Lower(s)] ELSE b[Upper(s)]
      BY <1>1, <3>3
    <3>5. CASE luaH_getnum(tb, Middle(s)) = Nil
      <4>1. Open(Lower(s)) /\ Lower(s)[2] - Lower(s)[1] <= n BY <3>1, <3>2, <3>5
      <4>2. Border(tb, b[Lower(s)]) BY <2>1, <3>1, <4>1
      <4> QED BY <3>4, <3>5, <4>2
    <3>6. CASE luaH_getnum(tb, Middle(s)) # Nil
      <4>1. Open(Upper(s)) /\ Upper(s)[2] - Upper(s)[1] <= n BY <3>1, <3>2, <3>6
      <4>2. Border(tb, b[Upper(s)]) BY <2>1, <3>1, <4>1
      <4> QED BY <3>4, <3>6, <4>2
    <3> QED BY <3>5, <3>6
  <2> QED BY <2>2, <2>3, <2>4
<1>4. T = Nat
  <2>1. T \in SUBSET Nat OBVIOUS
  <2> HIDE DEF T
  <2> QED BY <1>2, <1>3, <2>1, SetInduction
<1>5. hi - lo \in T BY <1>4
<1> DEFINE s0 == <<lo, hi>>
<1>6. s0 \in D /\ s0[1] = lo /\ s0[2] = hi OBVIOUS
<1> HIDE DEF s0
<1>7. s0[2] - s0[1] <= hi - lo /\ Open(s0) BY <1>6
<1>8. Border(tb, b[s0]) BY <1>5, <1>6, <1>7
<1> QED BY <1>1, <1>8 DEF s0

\* Behind every index there is one that is absent.
LEMMA AbsentBehind ==
  ASSUME NEW tb, TableInv(tb), NEW i \in Nat
  PROVE  \E k \in Nat : k >= i /\ luaH_getnum(tb, k) = Nil
<1> SUFFICES ASSUME \A k \in Nat : k >= i => luaH_getnum(tb, k) # Nil PROVE FALSE
  OBVIOUS
<1> DEFINE P == (1 .. tb.sizearray) \cup Live(tb)
           c == Cardinality(P)
           R == i .. i + c
<1>1. TableShape(tb) /\ tb.sizearray \in Nat BY DEF TableInv, TableShape
<1>2. IsFiniteSet(P)
  <2>1. IsFiniteSet(1 .. tb.sizearray) BY <1>1, FS_Interval
  <2>2. IsFiniteSet(Live(tb)) BY CountLive
  <2> QED BY <2>1, <2>2, FS_Union
<1>3. c \in Nat BY <1>2, FS_CardinalityType
<1> HIDE DEF c
<1>4. R \in SUBSET P
  <2> SUFFICES ASSUME NEW k \in R PROVE k \in P
    OBVIOUS
  <2>1. k \in Nat /\ k >= i BY <1>3
  <2>2. luaH_getnum(tb, k) # Nil BY <2>1
  <2> QED BY <2>2 DEF luaH_getnum, Live, Keys
<1>5. i \in Int /\ i + c \in Int /\ ~(i > i + c) /\ (i + c) - i + 1 = c + 1 BY <1>3
<1>6. Cardinality(R) = c + 1 BY <1>5, FS_Interval
<1> HIDE DEF P, R
<1>7. Cardinality(R) <= Cardinality(P) BY <1>2, <1>4, FS_Subset
<1> QED BY <1>3, <1>6, <1>7 DEF c

\* The first absent index behind i.
Absences(tb, i) ==
  {k \in Nat : /\ k >= i /\ luaH_getnum(tb, k) = Nil
               /\ \A l \in Nat : i <= l /\ l < k => luaH_getnum(tb, l) # Nil}

LEMMA LinearSearch ==
  ASSUME NEW tb
  PROVE  \E f : f = [i \in Nat |-> IF luaH_getnum(tb, i) = Nil THEN i - 1 ELSE f[i + 1]]
<1> DEFINE f == [i \in Nat |-> (CHOOSE k : k \in Absences(tb, i)) - 1]
<1>1. ASSUME NEW i \in Nat
      PROVE  f[i] = IF luaH_getnum(tb, i) = Nil THEN i - 1 ELSE f[i + 1]
  <2>1. i + 1 \in Nat /\ f[i] = (CHOOSE k : k \in Absences(tb, i)) - 1
        /\ f[i + 1] = (CHOOSE k : k \in Absences(tb, i + 1)) - 1
    OBVIOUS
  <2>2. CASE luaH_getnum(tb, i) = Nil
    <3>1. Absences(tb, i) = {i}
      <4>1. i \in Absences(tb, i) BY <2>2 DEF Absences
      <4>2. \A k \in Absences(tb, i) : k = i BY <2>2 DEF Absences
      <4> QED BY <4>1, <4>2
    <3> HIDE DEF f
    <3>2. (CHOOSE k : k \in {i}) = i OBVIOUS
    <3> QED BY <2>1, <2>2, <3>1, <3>2
  <2>3. CASE luaH_getnum(tb, i) # Nil
    <3>1. \A k \in Absences(tb, i) : k \in Absences(tb, i + 1)
      <4> TAKE k \in Absences(tb, i)
      <4>1. k \in Nat /\ k >= i /\ luaH_getnum(tb, k) = Nil
            /\ \A l \in Nat : i <= l /\ l < k => luaH_getnum(tb, l) # Nil
        BY DEF Absences
      <4>2. k >= i + 1 BY <2>3, <4>1
      <4> QED BY <4>1, <4>2 DEF Absences
    <3>2. \A k \in Absences(tb, i + 1) : k \in Absences(tb, i)
      <4> TAKE k \in Absences(tb, i + 1)
      <4>1. k \in Nat /\ k >= i + 1 /\ luaH_getnum(tb, k) = Nil
            /\ \A l \in Nat : i + 1 <= l /\ l < k => luaH_getnum(tb, l) # Nil
        BY DEF Absences
      <4>2. \A l \in Nat : i <= l /\ l < k => luaH_getnum(tb, l) # Nil
        <5> TAKE l \in Nat
        <5>1. l = i \/ i + 1 <= l \/ l < i OBVIOUS
        <5> QED BY <2>3, <4>1, <5>1
      <4> QED BY <4>1, <4>2 DEF Absences
    <3>3. Absences(tb, i) = Absences(tb, i + 1) BY <3>1, <3>2
    <3> HIDE DEF f
    <3> QED BY <2>1, <2>3, <3>3
  <2> QED BY <2>2, <2>3
<1>2. f = [i \in Nat |-> f[i]] OBVIOUS
<1> HIDE DEF f
<1>3. f = [i \in Nat |-> IF luaH_getnum(tb, i) = Nil THEN i - 1 ELSE f[i + 1]]
  BY <1>1, <1>2
<1> QED BY <1>3

\* Counting upwards from 1 finds a border.
LEMMA LinearBorder ==
  ASSUME NEW tb, TableInv(tb), NEW f,
         f = [i \in Nat |-> IF luaH_getnum(tb, i) = Nil THEN i - 1 ELSE f[i + 1]]
  PROVE  Border(tb, f[1])
<1>1. PICK K \in Nat : K >= 1 /\ luaH_getnum(tb, K) = Nil BY AbsentBehind
<1>2. \A i \in Nat : f[i] = IF luaH_getnum(tb, i) = Nil THEN i - 1 ELSE f[i + 1]
  BY Zenon
<1> DEFINE T == {d \in Nat : \A i \in 1 .. K :
                              i >= K - d /\ (i = 1 \/ luaH_getnum(tb, i - 1) # Nil)
                              => Border(tb, f[i])}
<1>3. ASSUME NEW i \in 1 .. K, i = 1 \/ luaH_getnum(tb, i - 1) # Nil,
             luaH_getnum(tb, i) = Nil
      PROVE  Border(tb, f[i])
  <2>1. f[i] = i - 1 BY <1>2, <1>3
  <2>2. i - 1 \in Nat /\ (i - 1) + 1 = i /\ (i = 1 => i - 1 = 0) OBVIOUS
  <2> QED BY <1>3, <2>1, <2>2 DEF Border
<1>4. 0 \in T
  <2>1. \A i \in 1 .. K : i >= K - 0 => i = K OBVIOUS
  <2> QED BY <1>1, <1>3, <2>1
<1>5. ASSUME NEW d \in T PROVE d + 1 \in T
  <2>1. d \in Nat /\ \A i \in 1 .. K : i >= K - d /\ (i = 1 \/ luaH_getnum(tb, i - 1) # Nil)
                                      => Border(tb, f[i])
    BY <1>5
  <2> SUFFICES ASSUME NEW i \in 1 .. K, i >= K - (d + 1), i = 1 \/ luaH_getnum(tb, i - 1) # Nil
               PROVE  Border(tb, f[i])
    BY <2>1
  <2>2. CASE luaH_getnum(tb, i) = Nil BY <1>3, <2>2
  <2>3. CASE luaH_getnum(tb, i) # Nil
    <3>1. i # K BY <1>1, <2>3
    <3>2. i + 1 \in 1 .. K /\ i + 1 >= K - d /\ (i + 1) - 1 = i BY <2>1, <3>1
    <3>3. Border(tb, f[i + 1]) BY <2>1, <2>3, <3>2
    <3> QED BY <1>2, <2>3, <3>3
  <2> QED BY <2>2, <2>3
<1>6. T = Nat
  <2>1. T \in SUBSET Nat OBVIOUS
  <2> HIDE DEF T
  <2> QED BY <1>4, <1>5, <2>1, SetInduction
<1>7. K \in T BY <1>6
<1>8. 1 \in 1 .. K /\ 1 >= K - K BY <1>1
<1> QED BY <1>7, <1>8

\* The index that is probed behind i, when the search has begun at n.
Probe(i, n) == IF i = n THEN n + 1 ELSE 2 * i

LEMMA ProbeFacts ==
  ASSUME NEW n \in Nat, NEW i \in Nat \ 0 .. n - 1
  PROVE  /\ i \in Nat /\ i >= n /\ Probe(i, n) \in Nat /\ Probe(i, n) > i
         /\ Probe(i, n) \in Nat \ 0 .. n - 1
<1>1. i \in Nat /\ i >= n OBVIOUS
<1>2. Probe(i, n) \in Nat /\ Probe(i, n) > i BY <1>1 DEF Probe
<1>3. Probe(i, n) \notin 0 .. n - 1 BY <1>1, <1>2
<1> QED BY <1>1, <1>2, <1>3

\* The doubling search computes what its recursive definition says.
LEMMA DoublingSearch ==
  ASSUME NEW tb, NEW n \in Nat, NEW lin
  PROVE  \E f : f = [i \in Nat \ 0 .. n - 1 |->
                       IF luaH_getnum(tb, Probe(i, n)) = Nil THEN Bisect(tb, i, Probe(i, n))
                       ELSE IF 2 * Probe(i, n) > MAX_INT THEN lin ELSE f[Probe(i, n)]]
<1> DEFINE D == Nat \ 0 .. n - 1
           Body(f, i) == IF luaH_getnum(tb, Probe(i, n)) = Nil THEN Bisect(tb, i, Probe(i, n))
                         ELSE IF 2 * Probe(i, n) > MAX_INT THEN lin ELSE f[Probe(i, n)]
           From(d) == {i \in D : i >= MAX_INT - d}
           Upto == {d \in Nat : \E f : f = [i \in From(d) |-> Body(f, i)]}
<1>1. \A f, g, i : (2 * Probe(i, n) > MAX_INT \/ f[Probe(i, n)] = g[Probe(i, n)])
                   => Body(f, i) = Body(g, i)
  OBVIOUS
<1>2. MAX_INT \in Nat BY KeyAssumption
<1>3. \A f, i : Body(f, i) = IF luaH_getnum(tb, Probe(i, n)) = Nil THEN Bisect(tb, i, Probe(i, n))
                             ELSE IF 2 * Probe(i, n) > MAX_INT THEN lin ELSE f[Probe(i, n)]
  OBVIOUS
<1> HIDE DEF Body
<1>4. 0 \in Upto
  <2> DEFINE E == From(0)
             g == [i \in E |-> 0]
             f == [i \in E |-> Body(g, i)]
  <2>1. ASSUME NEW i \in E PROVE f[i] = Body(f, i)
    <3>1. i \in D /\ i >= MAX_INT BY <1>2
    <3>2. Probe(i, n) \in Nat /\ Probe(i, n) > i /\ i \in Nat BY <3>1, ProbeFacts
    <3>3. 2 * Probe(i, n) > MAX_INT BY <1>2, <3>1, <3>2
    <3>4. f[i] = Body(g, i) OBVIOUS
    <3> HIDE DEF f, g
    <3> QED BY <1>1, <3>3, <3>4
  <2>2. f = [i \in E |-> f[i]] OBVIOUS
  <2> HIDE DEF f, E
  <2>3. f = [i \in E |-> Body(f, i)] BY <2>1, <2>2
  <2>4. \E h : h = [i \in From(0) |-> Body(h, i)] BY <2>3 DEF E
  <2> QED BY <2>4
<1>5. ASSUME NEW d \in Upto PROVE d + 1 \in Upto
  <2> DEFINE E == From(d)
             F == From(d + 1)
  <2>1. d \in Nat /\ \E f : f = [i \in E |-> Body(f, i)] BY <1>5
  <2>2. PICK f : f = [i \in E |-> Body(f, i)] BY <2>1
  <2> DEFINE h == [i \in F |-> IF i \in E THEN f[i] ELSE Body(f, i)]
  <2>3. E \subseteq F BY <1>2, <2>1
  <2>4. \A i \in F : 2 * Probe(i, n) > MAX_INT \/ Probe(i, n) \in E
    <3> TAKE i \in F
    <3>1. i \in D /\ i >= MAX_INT - (d + 1) OBVIOUS
    <3>2. Probe(i, n) \in Nat /\ Probe(i, n) > i /\ i \in Nat /\ Probe(i, n) \in D
      BY <3>1, ProbeFacts
    <3>3. Probe(i, n) >= MAX_INT - d BY <1>2, <2>1, <3>1, <3>2
    <3> QED BY <3>2, <3>3
  <2>5. \A i \in E : f[i] = Body(f, i)
    <3> HIDE DEF E
    <3> QED BY <2>2, Zenon
  <2> HIDE DEF E, F, D
  <2>6. \A i \in E : h[i] = f[i] BY <2>3
  <2>7. ASSUME NEW i \in F PROVE h[i] = Body(h, i)
    <3>1. h[i] = Body(f, i) BY <2>5, <2>6
    <3>2. 2 * Probe(i, n) > MAX_INT \/ f[Probe(i, n)] = h[Probe(i, n)] BY <2>4, <2>6
    <3>3. Body(f, i) = Body(h, i)
      <4> HIDE DEF h
      <4> QED BY <1>1, <3>2
    <3> QED BY <3>1, <3>3
  <2>8. h = [i \in F |-> h[i]] OBVIOUS
  <2> HIDE DEF h
  <2>9. h = [i \in F |-> Body(h, i)] BY <2>7, <2>8
  <2>10. \E g : g = [i \in From(d + 1) |-> Body(g, i)] BY <2>9 DEF F
  <2>11. d + 1 \in Nat BY <2>1
  <2> QED BY <2>10, <2>11
<1>6. MAX_INT \in Upto
  <2>1. Upto \in SUBSET Nat OBVIOUS
  <2> HIDE DEF Upto
  <2> QED BY <1>2, <1>4, <1>5, <2>1, SetInduction
<1>7. From(MAX_INT) = D
  <2>1. \A i \in D : i >= MAX_INT - MAX_INT BY <1>2, ProbeFacts
  <2> QED BY <2>1
<1>8. \E f : f = [i \in D |-> Body(f, i)]
  <2> HIDE DEF D, From
  <2>1. \E f : f = [i \in From(MAX_INT) |-> Body(f, i)] BY <1>6
  <2> QED BY <1>7, <2>1
<1> QED BY <1>8 DEF Body

LEMMA DoublingBorder ==
  ASSUME NEW tb, NEW n \in Nat, n = 0 \/ luaH_getnum(tb, n) # Nil,
         NEW lin, Border(tb, lin), NEW f,
         f = [i \in Nat \ 0 .. n - 1 |->
                IF luaH_getnum(tb, Probe(i, n)) = Nil THEN Bisect(tb, i, Probe(i, n))
                ELSE IF 2 * Probe(i, n) > MAX_INT THEN lin ELSE f[Probe(i, n)]]
  PROVE  Border(tb, f[n])
<1> DEFINE D == Nat \ 0 .. n - 1
           Good(i) == i = 0 \/ luaH_getnum(tb, i) # Nil
           T == {d \in Nat : \A i \in D : i >= MAX_INT - d /\ Good(i) => Border(tb, f[i])}
<1>1. MAX_INT \in Nat BY KeyAssumption
<1>2. \A i \in D : f[i] = IF luaH_getnum(tb, Probe(i, n)) = Nil THEN Bisect(tb, i, Probe(i, n))
                          ELSE IF 2 * Probe(i, n) > MAX_INT THEN lin ELSE f[Probe(i, n)]
  BY Zenon
<1>3. ASSUME NEW i \in D, Good(i),
             2 * Probe(i, n) > MAX_INT \/ luaH_getnum(tb, Probe(i, n)) = Nil
      PROVE  Border(tb, f[i])
  <2>1. i \in Nat /\ Probe(i, n) \in Nat /\ i < Probe(i, n) BY ProbeFacts
  <2>2. CASE luaH_getnum(tb, Probe(i, n)) = Nil
    <3>1. f[i] = Bisect(tb, i, Probe(i, n)) BY <1>2, <2>2
    <3> QED BY <1>3, <2>1, <2>2, <3>1, BisectBorder
  <2>3. CASE luaH_getnum(tb, Probe(i, n)) # Nil
    <3>1. f[i] = lin BY <1>2, <1>3, <2>3
    <3> QED BY <3>1
  <2> QED BY <2>2, <2>3
<1>4. 0 \in T
  <2> SUFFICES ASSUME NEW i \in D, i >= MAX_INT - 0, Good(i) PROVE Border(tb, f[i])
    OBVIOUS
  <2>1. Probe(i, n) \in Nat /\ Probe(i, n) > i /\ i \in Nat BY ProbeFacts
  <2>2. 2 * Probe(i, n) > MAX_INT BY <1>1, <2>1
  <2> QED BY <1>3, <2>2
<1>5. ASSUME NEW d \in T PROVE d + 1 \in T
  <2>1. d \in Nat /\ \A i \in D : i >= MAX_INT - d /\ Good(i) => Border(tb, f[i]) BY <1>5
  <2> SUFFICES ASSUME NEW i \in D, i >= MAX_INT - (d + 1), Good(i) PROVE Border(tb, f[i])
    BY <2>1
  <2> DEFINE j == Probe(i, n)
  <2>2. CASE 2 * j > MAX_INT \/ luaH_getnum(tb, j) = Nil BY <1>3, <2>2
  <2>3. CASE ~(2 * j > MAX_INT) /\ luaH_getnum(tb, j) # Nil
    <3>1. j \in Nat /\ j > i /\ i \in Nat /\ j \in D BY ProbeFacts
    <3>2. f[i] = f[j] BY <1>2, <2>3
    <3> HIDE DEF j
    <3>3. j >= MAX_INT - d BY <1>1, <2>1, <3>1
    <3>4. Border(tb, f[j]) BY <2>1, <2>3, <3>1, <3>3
    <3> QED BY <3>2, <3>4
  <2> QED BY <2>2, <2>3
<1>6. T = Nat
  <2>1. T \in SUBSET Nat OBVIOUS
  <2> HIDE DEF T
  <2> QED BY <1>4, <1>5, <2>1, SetInduction
<1>7. MAX_INT \in T BY <1>1, <1>6
<1>8. n \in D /\ n >= MAX_INT - MAX_INT /\ Good(n) BY <1>1
<1> QED BY <1>7, <1>8

LEMMA UnboundBorder ==
  ASSUME NEW tb, TableInv(tb), NEW n \in Nat, n = 0 \/ luaH_getnum(tb, n) # Nil
  PROVE  Border(tb, unbound_search(tb, n))
<1> DEFINE linear == CHOOSE f : f = [i \in Nat |->
                       IF luaH_getnum(tb, i) = Nil THEN i - 1 ELSE f[i + 1]]
           lin == linear[1]
           double == CHOOSE f : f = [i \in Nat \ 0 .. n - 1 |->
                       IF luaH_getnum(tb, Probe(i, n)) = Nil THEN Bisect(tb, i, Probe(i, n))
                       ELSE IF 2 * Probe(i, n) > MAX_INT THEN lin ELSE f[Probe(i, n)]]
<1>1. unbound_search(tb, n) = double[n] BY DEF unbound_search, Probe
<1>2. linear = [i \in Nat |-> IF luaH_getnum(tb, i) = Nil THEN i - 1 ELSE linear[i + 1]]
  BY LinearSearch
<1>3. Border(tb, lin)
  <2> HIDE DEF linear
  <2> QED BY <1>2, LinearBorder
<1> HIDE DEF lin
<1>4. double = [i \in Nat \ 0 .. n - 1 |->
                  IF luaH_getnum(tb, Probe(i, n)) = Nil THEN Bisect(tb, i, Probe(i, n))
                  ELSE IF 2 * Probe(i, n) > MAX_INT THEN lin ELSE double[Probe(i, n)]]
  BY DoublingSearch
<1> HIDE DEF double
<1>5. Border(tb, double[n]) BY <1>3, <1>4, DoublingBorder
<1> QED BY <1>1, <1>5

LEMMA LengthBorder ==
  ASSUME NEW tb, TableInv(tb)
  PROVE  Border(tb, luaH_getn(tb))
<1> DEFINE n == tb.sizearray
<1>1. TableShape(tb) /\ n \in Nat BY DEF TableInv, TableShape
<1>2. n > 0 => luaH_getnum(tb, n) = tb.array[n]
  <2>1. n > 0 => n \in 1 .. tb.sizearray BY <1>1
  <2> QED BY <2>1 DEF luaH_getnum
<1>3. CASE n > 0 /\ tb.array[n] = Nil
  <2>1. luaH_getn(tb) = Bisect(tb, 0, n) BY <1>3 DEF luaH_getn
  <2> QED BY <1>1, <1>2, <1>3, <2>1, BisectBorder
<1>4. CASE ~(n > 0 /\ tb.array[n] = Nil) /\ tb.dummy
  <2>1. luaH_getn(tb) = n BY <1>4 DEF luaH_getn
  <2>2. n = 0 \/ luaH_getnum(tb, n) # Nil BY <1>1, <1>2, <1>4
  <2>3. luaH_getnum(tb, n + 1) = Nil
    <3>1. n + 1 \notin 1 .. tb.sizearray BY <1>1
    <3>2. ASSUME n + 1 \in IntKeys PROVE GetValue(tb, n + 1) = Nil
      <4>1. n + 1 \in Keys BY <3>2 DEF Keys
      <4>2. ~InArray(tb, n + 1) BY <1>1, <4>1, <3>1, ArrayKey
      <4>3. LiveHolding(tb, n + 1) = {}
        <5>1. \A p \in Nodes(tb) : tb.node[p].key = Nil BY <1>4 DEF TableInv, HomeInv
        <5>2. n + 1 # Nil BY <4>1, KeyAssumption
        <5> QED BY <1>1, <5>1, <5>2 DEF LiveHolding, Holding, TableShape
      <4> QED BY <4>1, <4>2, <4>3, ValueFacts
    <3> QED BY <3>1, <3>2 DEF luaH_getnum
  <2> QED BY <1>1, <2>1, <2>2, <2>3 DEF Border
<1>5. CASE ~(n > 0 /\ tb.array[n] = Nil) /\ ~tb.dummy
  <2>1. luaH_getn(tb) = unbound_search(tb, n) BY <1>5 DEF luaH_getn
  <2>2. n = 0 \/ luaH_getnum(tb, n) # Nil BY <1>1, <1>2, <1>5
  <2> QED BY <1>1, <2>1, <2>2, UnboundBorder
<1> QED BY <1>3, <1>4, <1>5

\* The length operator returns a border, from the halving, the doubling and the
\* counting upwards alike (ltable.c, luaH_getn and unbound_search).
THEOREM LengthAlwaysBorder == Spec => []LengthIsBorder
<1>1. StoreInv => LengthIsBorder
  BY LengthBorder DEF StoreInv, TableGood, LengthIsBorder, Border
<1> QED BY <1>1, StoreAlways, PTL

-----------------------------------------------------------------------------
(* Traversal.                                                                *)

\* The node that findindex finds for a key.
Place(tb, k) == InChain(tb, mainposition(tb, k), Holding(tb, k))

LEMMA PlaceFacts ==
  ASSUME NEW tb, TableInv(tb), NEW k \in Keys
  PROVE  /\ Place(tb, k) = NoNode \/ Place(tb, k) \in Nodes(tb)
         /\ \A p \in LiveHolding(tb, k) : Place(tb, k) = p
<1> DEFINE q == Place(tb, k)
<1>1. TableShape(tb) /\ DeadInv(tb) BY DEF TableInv
<1>2. /\ Holding(tb, k) = {} => q = NoNode
      /\ Holding(tb, k) # {} =>
           q \in Holding(tb, k) /\ \A p \in Holding(tb, k) : Reaches(Nodes(tb), Links(tb), q, p)
  BY SearchFinds DEF Place
<1> HIDE DEF q
<1>3. Holding(tb, k) \subseteq Nodes(tb) BY <1>1 DEF Holding, TableShape
<1>4. ASSUME NEW p \in LiveHolding(tb, k) PROVE q = p
  <2>1. p \in Holding(tb, k) /\ p \in Nodes(tb) /\ tb.node[p].key = k /\ ~tb.node[p].dead /\ k # Nil
    BY <1>3, KeyAssumption DEF LiveHolding, Holding
  <2>2. q \in Nodes(tb) /\ tb.node[q].key = k /\ Reaches(Nodes(tb), Links(tb), q, p)
    BY <1>2, <1>3, <2>1 DEF Holding
  <2>3. Reaches(Nodes(tb), Links(tb), p, q) BY <1>1, <2>1, <2>2 DEF DeadInv
  <2>4. Linking(Nodes(tb), Links(tb)) /\ Chained(Nodes(tb), Links(tb))
    BY <1>1, LinksType DEF TableInv
  <2> QED BY <2>1, <2>2, <2>3, <2>4, ReachesAntisymmetric
<1> QED BY <1>2, <1>3, <1>4 DEF q

LEMMA IndexIs ==
  ASSUME NEW tb, NEW k \in Keys
  PROVE  findindex(tb, k) = IF InArray(tb, k) THEN k - 1
                            ELSE IF Place(tb, k) = NoNode THEN -2 ELSE Place(tb, k) + tb.sizearray
BY KeyAssumption DEF findindex, Place

LEMMA IndexRange ==
  ASSUME NEW tb, TableInv(tb), NEW k \in Keys
  PROVE  findindex(tb, k) = -2 \/ findindex(tb, k) \in 0 .. Entries(tb) - 1
<1>1. TableShape(tb) /\ tb.sizearray \in Nat /\ sizenode(tb) \in Nat
  BY SizeFacts DEF TableInv, TableShape
<1>2. CASE InArray(tb, k)
  <2>1. k \in 1 .. tb.sizearray BY <1>1, <1>2, ArrayKey
  <2> QED BY <1>1, <1>2, <2>1, IndexIs DEF Entries
<1>3. CASE ~InArray(tb, k)
  <2>1. Place(tb, k) = NoNode \/ Place(tb, k) \in Nodes(tb) BY PlaceFacts
  <2>2. CASE Place(tb, k) = NoNode BY <1>3, <2>2, IndexIs
  <2>3. CASE Place(tb, k) # NoNode
    <3>1. Place(tb, k) \in 0 .. sizenode(tb) - 1 BY <2>1, <2>3 DEF Nodes
    <3>2. findindex(tb, k) = Place(tb, k) + tb.sizearray BY <1>3, <2>3, IndexIs
    <3> QED BY <1>1, <3>1, <3>2 DEF Entries
  <2> QED BY <2>2, <2>3
<1> QED BY <1>2, <1>3

\* A present key is at its index,
LEMMA PresentIndex ==
  ASSUME NEW tb, TableInv(tb), NEW k \in Keys, GetValue(tb, k) # Nil
  PROVE  LET i == findindex(tb, k)
         IN  i \in 0 .. Entries(tb) - 1 /\ KeyAt(tb, i) = k /\ ValAt(tb, i) # Nil
<1> DEFINE i == findindex(tb, k)
<1>1. TableShape(tb) /\ tb.sizearray \in Nat /\ sizenode(tb) \in Nat
  BY SizeFacts DEF TableInv, TableShape
<1>2. CASE InArray(tb, k)
  <2>1. k \in 1 .. tb.sizearray BY <1>1, <1>2, ArrayKey
  <2>2. i = k - 1 BY <1>2, IndexIs
  <2>3. GetValue(tb, k) = tb.array[k] BY <1>2, ValueFacts
  <2> HIDE DEF i
  <2>4. i \in 0 .. Entries(tb) - 1 /\ i < tb.sizearray /\ i + 1 = k
    BY <1>1, <2>1, <2>2 DEF Entries
  <2>5. KeyAt(tb, i) = k /\ ValAt(tb, i) = tb.array[k] BY <2>4 DEF KeyAt, ValAt
  <2> QED BY <2>3, <2>4, <2>5 DEF i
<1>3. CASE ~InArray(tb, k)
  <2>1. LiveHolding(tb, k) # {} BY <1>3, ValueFacts
  <2>2. PICK p \in LiveHolding(tb, k) : TRUE BY <2>1
  <2>3. p \in Nodes(tb) /\ tb.node[p].key = k
    BY <1>1, <2>2 DEF LiveHolding, Holding, TableShape
  <2>4. GetValue(tb, k) = tb.node[p].val BY <2>2, ValueFacts
  <2>5. Place(tb, k) = p BY <2>2, PlaceFacts
  <2>6. p \in 0 .. sizenode(tb) - 1 /\ p # NoNode BY <1>1, <2>3 DEF Nodes, NoNode
  <2>7. i = p + tb.sizearray BY <1>3, <2>5, <2>6, IndexIs
  <2> HIDE DEF i
  <2>8. i \in 0 .. Entries(tb) - 1 /\ ~(i < tb.sizearray) /\ i - tb.sizearray = p
    BY <1>1, <2>6, <2>7 DEF Entries
  <2>9. KeyAt(tb, i) = tb.node[p].key /\ ValAt(tb, i) = tb.node[p].val
    BY <2>8 DEF KeyAt, ValAt
  <2> QED BY <2>3, <2>4, <2>8, <2>9 DEF i
<1> QED BY <1>2, <1>3

\* and what is at an index is a present key.
LEMMA IndexPresent ==
  ASSUME NEW tb, TableInv(tb), NEW i \in 0 .. Entries(tb) - 1, ValAt(tb, i) # Nil
  PROVE  LET k == KeyAt(tb, i)
         IN  k \in Keys /\ GetValue(tb, k) # Nil /\ findindex(tb, k) = i
<1> DEFINE k == KeyAt(tb, i)
<1>1. TableShape(tb) /\ tb.sizearray \in Nat /\ sizenode(tb) \in Nat
  BY SizeFacts DEF TableInv, TableShape
<1>2. CASE i < tb.sizearray
  <2>1. k = i + 1 /\ ValAt(tb, i) = tb.array[i + 1] BY <1>2 DEF KeyAt, ValAt
  <2>2. i + 1 \in 1 .. tb.sizearray BY <1>1, <1>2
  <2>3. i + 1 \in IntKeys BY <2>1, <2>2 DEF TableInv, ArrayInv
  <2> HIDE DEF k
  <2>4. k \in Keys /\ InArray(tb, k)
    BY <1>1, <2>1, <2>2, <2>3 DEF Keys, InArray, arrayindex
  <2>5. GetValue(tb, k) = tb.array[k] BY <2>4, ValueFacts
  <2>6. findindex(tb, k) = i BY <2>1, <2>4, IndexIs
  <2> QED BY <2>1, <2>4, <2>5, <2>6 DEF k
<1>3. CASE ~(i < tb.sizearray)
  <2> DEFINE p == i - tb.sizearray
  <2>1. k = tb.node[p].key /\ ValAt(tb, i) = tb.node[p].val BY <1>3 DEF KeyAt, ValAt
  <2>2. p \in Nodes(tb) /\ p # NoNode /\ p + tb.sizearray = i
    BY <1>1, <1>3 DEF Entries, Nodes, NoNode
  <2> HIDE DEF k, p
  <2>3. p \in NodesInUse(tb) BY <2>1, <2>2 DEF NodesInUse
  <2>4. k \in Keys /\ ~InArray(tb, k) /\ GetValue(tb, k) # Nil BY <2>1, <2>3, UsedNode
  <2>5. ~tb.node[p].dead BY <2>1, <2>2 DEF TableInv, DeadInv
  <2>6. p \in LiveHolding(tb, k) BY <1>1, <2>1, <2>2, <2>5 DEF LiveHolding, Holding, TableShape
  <2>7. Place(tb, k) = p BY <2>4, <2>6, PlaceFacts
  <2>8. findindex(tb, k) = i BY <2>2, <2>4, <2>7, IndexIs
  <2> QED BY <2>4, <2>8 DEF k
<1> QED BY <1>2, <1>3

\* Assignments and dead keys leave indices alone.
Unmoved(ta, tb) ==
  /\ ta.sizearray = tb.sizearray /\ ta.lsizenode = tb.lsizenode
  /\ \A p \in Nodes(tb) : ta.node[p].key = tb.node[p].key /\ ta.node[p].next = tb.node[p].next

LEMMA IndexSame ==
  ASSUME NEW ta, NEW tb, TableInv(ta), TableInv(tb), Unmoved(ta, tb), NEW k \in Keys
  PROVE  findindex(ta, k) = findindex(tb, k)
<1>1. ta.lsizenode = tb.lsizenode /\ ta.sizearray = tb.sizearray BY DEF Unmoved
<1>2. Nodes(ta) = Nodes(tb) /\ mainposition(ta, k) = mainposition(tb, k) BY <1>1, MainSame
<1>3. Links(ta) = Links(tb) BY <1>2 DEF Links, Unmoved
<1>4. Holding(ta, k) = Holding(tb, k)
  <2>1. DOMAIN ta.node = Nodes(tb) /\ DOMAIN tb.node = Nodes(tb)
    BY <1>2 DEF TableInv, TableShape
  <2> QED BY <2>1 DEF Holding, Unmoved
<1>5. InArray(ta, k) <=> InArray(tb, k) BY <1>1 DEF InArray
<1>6. Place(ta, k) = Place(tb, k)
  <2> DEFINE S == Holding(tb, k)
             h == mainposition(tb, k)
  <2>1. TableShape(ta) /\ TableShape(tb) BY DEF TableInv
  <2>2. /\ Linking(Nodes(ta), Links(ta)) /\ Chained(Nodes(ta), Links(ta))
        /\ Linking(Nodes(tb), Links(tb)) /\ Chained(Nodes(tb), Links(tb))
    BY <2>1, LinksType DEF TableInv
  <2>3. sizenode(ta) \in Nat /\ sizenode(tb) \in Nat /\ h \in Nodes(tb)
    BY <2>1, SizeFacts, MainRange DEF TableShape
  <2> HIDE DEF S, h
  <2>4. InChain(ta, h, S) = First(Nodes(ta), Links(ta), S, h) BY <1>2, <2>2, <2>3, InChainIsFirst
  <2>5. InChain(tb, h, S) = First(Nodes(tb), Links(tb), S, h) BY <2>2, <2>3, InChainIsFirst
  <2>6. InChain(ta, h, S) = InChain(tb, h, S) BY <1>2, <1>3, <2>4, <2>5
  <2> QED BY <1>2, <1>4, <2>6 DEF Place, S, h
<1> QED BY <1>1, <1>5, <1>6, IndexIs

\* What next returns: the present key with the next index.
LEMMA NextFinds ==
  ASSUME NEW tb, TableInv(tb), NEW k \in Keys \cup {Nil}, findindex(tb, k) # -2
  PROVE  LET n == luaH_next(tb, k)
             i == findindex(tb, k)
         IN  \/ n = Nil /\ \A j \in Keys : GetValue(tb, j) # Nil => findindex(tb, j) <= i
             \/ /\ n \in Keys /\ GetValue(tb, n) # Nil /\ findindex(tb, n) > i
                /\ \A j \in Keys : GetValue(tb, j) # Nil /\ j # n =>
                     (findindex(tb, j) > i <=> findindex(tb, j) > findindex(tb, n))
<1> DEFINE i == findindex(tb, k)
           n == luaH_next(tb, k)
           rest == {x \in i + 1 .. tb.sizearray + sizenode(tb) - 1 : ValAt(tb, x) # Nil}
<1>1. i \in -1 .. Entries(tb) - 1 /\ Entries(tb) \in Nat
  <2>1. Entries(tb) \in Nat BY EntryFacts
  <2>2. CASE k = Nil
    <3>1. i = -1 BY <2>2 DEF findindex
    <3> QED BY <2>1, <3>1
  <2>3. CASE k # Nil
    <3>1. i \in 0 .. Entries(tb) - 1 BY <2>3, IndexRange
    <3> QED BY <2>1, <3>1
  <2> QED BY <2>2, <2>3
<1>2. n = IF rest = {} THEN Nil ELSE KeyAt(tb, Min(rest)) BY DEF luaH_next
<1> HIDE DEF i, n
<1>3. rest = {x \in 0 .. Entries(tb) - 1 : x > i /\ ValAt(tb, x) # Nil}
  <2>1. tb.sizearray + sizenode(tb) - 1 = Entries(tb) - 1
    <3>1. tb.sizearray \in Nat /\ sizenode(tb) \in Nat BY SizeFacts DEF TableInv, TableShape
    <3> QED BY <3>1 DEF Entries
  <2>2. \A x : x \in i + 1 .. Entries(tb) - 1 <=> x \in 0 .. Entries(tb) - 1 /\ x > i BY <1>1
  <2> QED BY <2>1, <2>2
<1> HIDE DEF rest
<1>4. ASSUME NEW j \in Keys, GetValue(tb, j) # Nil, findindex(tb, j) > i
      PROVE  findindex(tb, j) \in rest
  BY <1>3, <1>4, PresentIndex
<1>5. CASE rest = {}
  <2>1. n = Nil BY <1>2, <1>5
  <2>2. ASSUME NEW j \in Keys, GetValue(tb, j) # Nil PROVE findindex(tb, j) <= i
    <3>1. findindex(tb, j) \in 0 .. Entries(tb) - 1 BY <2>2, PresentIndex
    <3>2. ~(findindex(tb, j) > i) BY <1>4, <1>5, <2>2
    <3> QED BY <1>1, <3>1, <3>2
  <2> QED BY <2>1, <2>2 DEF n, i
<1>6. CASE rest # {}
  <2> DEFINE x == Min(rest)
  <2>1. x \in rest /\ \A y \in rest : x <= y
    <3>1. rest \in SUBSET Nat BY <1>3
    <3> QED BY <1>6, <3>1, LeastOf
  <2>2. n = KeyAt(tb, x) BY <1>2, <1>6
  <2> HIDE DEF x
  <2>3. x \in 0 .. Entries(tb) - 1 /\ x > i /\ ValAt(tb, x) # Nil BY <1>3, <2>1
  <2>4. n \in Keys /\ GetValue(tb, n) # Nil /\ findindex(tb, n) = x BY <2>2, <2>3, IndexPresent
  <2>5. ASSUME NEW j \in Keys, GetValue(tb, j) # Nil, j # n
        PROVE  findindex(tb, j) > i <=> findindex(tb, j) > x
    <3>1. findindex(tb, j) \in 0 .. Entries(tb) - 1 /\ KeyAt(tb, findindex(tb, j)) = j
      BY <2>5, PresentIndex
    <3>2. findindex(tb, j) # x BY <2>2, <2>5, <3>1
    <3>3. findindex(tb, j) > i => x <= findindex(tb, j) BY <1>4, <2>1, <2>5
    <3> QED BY <1>1, <2>3, <3>1, <3>2, <3>3
  <2> QED BY <2>3, <2>4, <2>5 DEF n, i
<1> QED BY <1>5, <1>6

-----------------------------------------------------------------------------
(* The abstract map.                                                         *)

\* A key that has a value is found: nothing is rehashed.
LEMMA FoundStays ==
  ASSUME NEW tb, TableInv(tb), NEW k \in Keys, GetValue(tb, k) # Nil
  PROVE  LET r == luaH_setnum(tb, k)
         IN  r.tb = tb /\ r.cell = luaH_get(tb, k) /\ luaH_get(tb, k).part # "none"
<1> DEFINE cell == luaH_get(tb, k)
<1>1. cell.part # "none"
  <2> SUFFICES ASSUME cell.part = "none" PROVE FALSE
    OBVIOUS
  <2>1. Value(tb, cell) = Nil BY DEF Value
  <2> QED BY <2>1 DEF GetValue
<1>2. luaH_setnum(tb, k) = IF cell.part # "none" THEN [tb |-> tb, cell |-> cell]
                           ELSE newkey(tb, k)
  BY DEF luaH_setnum
<1> HIDE DEF cell
<1>3. luaH_setnum(tb, k) = [tb |-> tb, cell |-> cell] BY <1>1, <1>2
<1>4. luaH_setnum(tb, k).tb = tb /\ luaH_setnum(tb, k).cell = cell BY <1>3
<1> QED BY <1>1, <1>4 DEF cell

LEMMA SetStays ==
  ASSUME NEW tb, TableInv(tb), NEW k \in Keys, GetValue(tb, k) # Nil
  PROVE  LET r == luaH_set(tb, k)
         IN  /\ TableInv(r.tb) /\ Alike(r.tb, tb)
             /\ r.cell = luaH_get(r.tb, k) /\ r.cell.part # "none"
<1> DEFINE ta == [tb EXCEPT !.flags = {}]
<1>1. Reflagged(ta, tb, {}) BY FlagsReplaced DEF TableInv
<1>2. luaH_set(tb, k) = luaH_setnum(ta, k) BY DEF luaH_set
<1> HIDE DEF ta
<1>3. TableInv(ta) /\ Alike(ta, tb) /\ GetValue(ta, k) # Nil
  BY <1>1, AlikeFacts DEF Reflagged
<1>4. luaH_setnum(ta, k).tb = ta /\ luaH_setnum(ta, k).cell = luaH_get(ta, k)
      /\ luaH_get(ta, k).part # "none"
  BY <1>3, FoundStays
<1> QED BY <1>2, <1>3, <1>4

LEMMA AlikeUnmoved ==
  ASSUME NEW ta, NEW tb, Alike(ta, tb)
  PROVE  Unmoved(ta, tb)
BY DEF Alike, Unmoved

LEMMA AssignedUnmoved ==
  ASSUME NEW ta, NEW tb, NEW k, NEW v, Assigned(ta, tb, k, v)
  PROVE  Unmoved(ta, tb)
BY DEF Assigned, Kept, Unmoved

LEMMA UnmovedTrans ==
  ASSUME NEW ta, NEW tb, NEW tc, Unmoved(ta, tb), Unmoved(tb, tc)
  PROVE  Unmoved(ta, tc)
<1>1. Nodes(tb) = Nodes(tc) BY MainSame DEF Unmoved
<1> QED BY <1>1 DEF Unmoved

\* The keys that a traversal has still to visit are the present keys behind
\* the one it last returned, which can be found even when it is dead.
Ahead(tb, c) == {k \in Keys : GetValue(tb, k) # Nil /\ findindex(tb, k) > findindex(tb, c)}

WalkGood(tb, c, S) ==
  /\ c \in Keys \cup {Nil}
  /\ c = Nil => S = {}
  /\ c # Nil => findindex(tb, c) # -2 /\ S = Ahead(tb, c)

WalkInv == WalkGood(t, cur, todo)

LEMMA WalkKept ==
  ASSUME NEW tb, TableInv(tb), NEW ta, TableInv(ta), NEW k \in Keys, NEW v \in Slots,
         NEW c, NEW S, WalkGood(tb, c, S), c # Nil => Unmoved(ta, tb) /\ GetValue(tb, k) # Nil,
         \A j \in Keys : GetValue(ta, j) = IF j = k THEN v ELSE GetValue(tb, j)
  PROVE  WalkGood(ta, c, IF v = Nil THEN S \ {k} ELSE S)
<1>1. CASE c = Nil BY <1>1 DEF WalkGood
<1>2. CASE c # Nil
  <2>1. c \in Keys /\ findindex(tb, c) # -2 /\ S = Ahead(tb, c) BY <1>2 DEF WalkGood
  <2>2. \A j \in Keys : findindex(ta, j) = findindex(tb, j) BY <1>2, IndexSame
  <2>3. \A j \in Keys : j \in Ahead(ta, c) <=> j \in Ahead(tb, c) /\ (j = k => v # Nil)
    BY <1>2, <2>1, <2>2 DEF Ahead
  <2>4. Ahead(ta, c) = IF v = Nil THEN S \ {k} ELSE S
    <3>1. Ahead(ta, c) \subseteq Keys /\ S \subseteq Keys BY <2>1 DEF Ahead
    <3> QED BY <2>1, <2>3, <3>1
  <2> QED BY <1>2, <2>1, <2>2, <2>4 DEF WalkGood
<1> QED BY <1>1, <1>2

LEMMA WalkSame ==
  ASSUME NEW tb, TableInv(tb), NEW ta, TableInv(ta), NEW c, NEW S, WalkGood(tb, c, S),
         c # Nil => Unmoved(ta, tb), \A j \in Keys : GetValue(ta, j) = GetValue(tb, j)
  PROVE  WalkGood(ta, c, S)
<1>1. CASE c = Nil BY <1>1 DEF WalkGood
<1>2. CASE c # Nil
  <2>1. c \in Keys /\ findindex(tb, c) # -2 /\ S = Ahead(tb, c) BY <1>2 DEF WalkGood
  <2>2. \A j \in Keys : findindex(ta, j) = findindex(tb, j) BY <1>2, IndexSame
  <2>3. Ahead(ta, c) = Ahead(tb, c) BY <2>1, <2>2 DEF Ahead
  <2> QED BY <1>2, <2>1, <2>2, <2>3 DEF WalkGood
<1> QED BY <1>1, <1>2

LEMMA WalkingIs == WalkInv => (Walking <=> cur # Nil)
BY DEF WalkInv, WalkGood, Walking

MapInv == StoreInv /\ WalkInv

\* A step of the table that is one of the map, or none.
LEMMA StoreMaps ==
  ASSUME MapInv, StoreInv', NEW k \in Keys, NEW v \in Vals \cup {Nil}, MayAssign(k),
         \A j \in Keys : GetValue(t', j) = IF j = k THEN v ELSE GetValue(t, j),
         cur # Nil => Unmoved(t', t), Stored(k, v), cur' = cur
  PROVE  WalkInv' /\ M!Store(k, v)
<1>1. TableInv(t) /\ TableInv(t') /\ v \in Slots BY DEF MapInv, StoreInv, TableGood, Slots
<1>2. cur # Nil => GetValue(t, k) # Nil BY DEF MayAssign
<1>3. todo' = IF v = Nil THEN todo \ {k} ELSE todo BY DEF Stored
<1>4. WalkInv'
  <2>1. WalkGood(t', cur, IF v = Nil THEN todo \ {k} ELSE todo)
    BY <1>1, <1>2, WalkKept DEF MapInv, WalkInv
  <2> QED BY <1>3, <2>1 DEF WalkInv
<1>5. Walking <=> cur # Nil BY WalkingIs DEF MapInv
<1>6. Walking' <=> cur' # Nil BY <1>4 DEF WalkInv, WalkGood, Walking
<1>7. Walking' = Walking BY <1>5, <1>6 DEF Walking
<1>8. Walking => m[k] # Nil BY <1>2, <1>5 DEF MapInv, StoreInv, TableGood
<1>9. m' = [m EXCEPT ![k] = v] BY DEF Stored
<1>10. M!Store(k, v) BY <1>3, <1>7, <1>8, <1>9 DEF M!Store
<1> QED BY <1>4, <1>10

LEMMA SameMaps ==
  ASSUME MapInv, StoreInv', \A j \in Keys : GetValue(t', j) = GetValue(t, j),
         cur # Nil => Unmoved(t', t), m' = m, cur' = cur, todo' = todo
  PROVE  WalkInv' /\ UNCHANGED M!vars
<1>1. TableInv(t) /\ TableInv(t') BY DEF MapInv, StoreInv, TableGood
<1>2. WalkInv'
  <2>1. WalkGood(t', cur, todo) BY <1>1, WalkSame DEF MapInv, WalkInv
  <2> QED BY <2>1 DEF WalkInv
<1>3. Walking <=> cur # Nil BY WalkingIs DEF MapInv
<1>4. Walking' <=> cur' # Nil BY <1>2 DEF WalkInv, WalkGood, Walking
<1>5. Walking' = Walking BY <1>3, <1>4 DEF Walking
<1> QED BY <1>2, <1>5 DEF M!vars

LEMMA RawSetMaps ==
  ASSUME MapInv, StoreInv', NEW k \in Keys, NEW v \in Vals \cup {Nil}, RawSet(k, v)
  PROVE  WalkInv' /\ M!Store(k, v)
<1> DEFINE r == luaH_set(t, k)
<1>1. TableInv(t) /\ v \in Slots BY DEF MapInv, StoreInv, TableGood, Slots
<1>2. MayAssign(k) /\ Stored(k, v) /\ cur' = cur /\ t' = Assign(r.tb, r.cell, v)
  BY DEF RawSet
<1>3. Made(r, t, k) BY <1>1, SetWorks
<1>4. ASSUME GetValue(t, k) # Nil
      PROVE  TableInv(r.tb) /\ Alike(r.tb, t) /\ r.cell = luaH_get(r.tb, k) /\ r.cell.part # "none"
  BY <1>1, <1>4, SetStays
<1> HIDE DEF r
<1>5. \A j \in Keys : GetValue(t', j) = IF j = k THEN v ELSE GetValue(t, j)
  <2>1. Written(t', t, k, v) BY <1>1, <1>2, <1>3, WriteWorks
  <2> QED BY <2>1 DEF Written
<1>6. ASSUME cur # Nil PROVE Unmoved(t', t)
  <2>1. GetValue(t, k) # Nil BY <1>2, <1>6 DEF MayAssign
  <2>2. TableInv(r.tb) /\ Alike(r.tb, t) /\ r.cell = luaH_get(r.tb, k) /\ r.cell.part # "none"
    BY <1>4, <2>1
  <2>3. Assigned(t', r.tb, k, v) BY <1>1, <1>2, <2>2, AssignWorks
  <2> QED BY <2>2, <2>3, AlikeUnmoved, AssignedUnmoved, UnmovedTrans
<1> QED BY <1>2, <1>5, <1>6, StoreMaps

LEMMA RawSetIMaps ==
  ASSUME MapInv, StoreInv', NEW k \in Keys, NEW v \in Vals \cup {Nil}, RawSetI(k, v)
  PROVE  WalkInv' /\ M!Store(k, v)
<1> DEFINE r == luaH_setnum(t, k)
<1>1. TableInv(t) /\ v \in Slots BY DEF MapInv, StoreInv, TableGood, Slots
<1>2. MayAssign(k) /\ Stored(k, v) /\ cur' = cur /\ t' = Assign(r.tb, r.cell, v)
  BY DEF RawSetI
<1>3. Made(r, t, k) BY <1>1, SetNumWorks
<1>4. ASSUME GetValue(t, k) # Nil
      PROVE  r.tb = t /\ r.cell = luaH_get(t, k) /\ r.cell.part # "none"
  BY <1>1, <1>4, FoundStays
<1> HIDE DEF r
<1>5. \A j \in Keys : GetValue(t', j) = IF j = k THEN v ELSE GetValue(t, j)
  <2>1. Written(t', t, k, v) BY <1>1, <1>2, <1>3, WriteWorks
  <2> QED BY <2>1 DEF Written
<1>6. ASSUME cur # Nil PROVE Unmoved(t', t)
  <2>1. GetValue(t, k) # Nil BY <1>2, <1>6 DEF MayAssign
  <2>2. r.tb = t /\ r.cell = luaH_get(t, k) /\ r.cell.part # "none" BY <1>4, <2>1
  <2>3. Assigned(t', t, k, v) BY <1>1, <1>2, <2>2, AssignWorks
  <2> QED BY <2>3, AssignedUnmoved
<1> QED BY <1>2, <1>5, <1>6, StoreMaps

LEMMA SetTableMaps ==
  ASSUME MapInv, StoreInv', NEW k \in Keys, NEW v \in Vals \cup {Nil}, SetTable(k, v)
  PROVE  WalkInv' /\ (M!Store(k, v) \/ UNCHANGED M!vars)
<1> DEFINE r == luaH_set(t, k)
           asked == IF Value(r.tb, r.cell) # Nil THEN r.tb ELSE fasttm(r.tb, NewIndex)
<1>1. TableInv(t) /\ v \in Slots /\ NewIndex \in Events
  BY EventKeys DEF MapInv, StoreInv, TableGood, Slots
<1>2. /\ MayAssign(k) /\ cur' = cur
      /\ \/ t' = Assign(asked, r.cell, v) /\ Stored(k, v)
         \/ t' = asked /\ m' = m /\ todo' = todo
  BY DEF SetTable
<1>3. Made(r, t, k) BY <1>1, SetWorks
<1>4. ASSUME GetValue(t, k) # Nil
      PROVE  TableInv(r.tb) /\ Alike(r.tb, t) /\ r.cell = luaH_get(r.tb, k) /\ r.cell.part # "none"
  BY <1>1, <1>4, SetStays
<1>5. asked = r.tb \/ asked = fasttm(r.tb, NewIndex) OBVIOUS
<1> HIDE DEF r, asked
<1>6. TableInv(r.tb) BY <1>3 DEF Made
<1>7. /\ TableInv(asked) /\ Alike(asked, r.tb)
      /\ \A j \in Keys : GetValue(asked, j) = GetValue(r.tb, j)
                         /\ luaH_get(asked, j) = luaH_get(r.tb, j)
  <2>1. CASE asked = r.tb BY <1>6, <2>1 DEF Alike
  <2>2. CASE asked = fasttm(r.tb, NewIndex) BY <1>1, <1>6, <2>2, AskWorks
  <2> QED BY <1>5, <2>1, <2>2
<1>8. ASSUME cur # Nil PROVE Unmoved(asked, t)
  <2>1. GetValue(t, k) # Nil BY <1>2, <1>8 DEF MayAssign
  <2>2. Alike(r.tb, t) BY <1>4, <2>1
  <2> QED BY <1>7, <2>2, AlikeUnmoved, UnmovedTrans
<1>9. \A j \in Keys : GetValue(asked, j) = GetValue(t, j) BY <1>3, <1>7 DEF Made
<1>10. CASE t' = Assign(asked, r.cell, v) /\ Stored(k, v)
  <2>1. r.cell = luaH_get(asked, k) /\ r.cell.part # "none" BY <1>3, <1>7 DEF Made
  <2>2. Assigned(t', asked, k, v) BY <1>1, <1>7, <1>10, <2>1, AssignWorks
  <2>3. \A j \in Keys : GetValue(t', j) = IF j = k THEN v ELSE GetValue(t, j)
    BY <1>9, <2>2 DEF Assigned
  <2>4. cur # Nil => Unmoved(t', t) BY <1>8, <2>2, AssignedUnmoved, UnmovedTrans
  <2> QED BY <1>2, <1>10, <2>3, <2>4, StoreMaps
<1>11. CASE t' = asked /\ m' = m /\ todo' = todo
  BY <1>2, <1>8, <1>9, <1>11, SameMaps
<1> QED BY <1>2, <1>10, <1>11

LEMMA AskMaps ==
  ASSUME MapInv, StoreInv', NEW e \in Events, AskEvent(e)
  PROVE  WalkInv' /\ UNCHANGED M!vars
<1>1. TableInv(t) BY DEF MapInv, StoreInv, TableGood
<1>2. t' = fasttm(t, e) /\ m' = m /\ cur' = cur /\ todo' = todo BY DEF AskEvent
<1>3. Alike(t', t) /\ \A j \in Keys : GetValue(t', j) = GetValue(t, j) BY <1>1, <1>2, AskWorks
<1> QED BY <1>2, <1>3, AlikeUnmoved, SameMaps

LEMMA RemoveMaps ==
  ASSUME MapInv, StoreInv', NEW p, RemoveEntry(p)
  PROVE  WalkInv' /\ UNCHANGED M!vars
<1>1. TableInv(t) /\ TableShape(t) BY DEF MapInv, StoreInv, TableGood, TableInv
<1>2. /\ p \in Nodes(t) /\ t.node[p].val = Nil /\ ~t.node[p].dead
      /\ t.node[p].key \in Collectable /\ t' = [t EXCEPT !.node[p].dead = TRUE]
      /\ m' = m /\ cur' = cur /\ todo' = todo
  BY <1>1 DEF RemoveEntry, TableShape
<1>3. t.node[p].key # Nil BY <1>2, KeyAssumption DEF Keys
<1>4. Buried(t', t, p) BY <1>1, <1>2, <1>3, RemoveWorks
<1>5. Unmoved(t', t) /\ \A j \in Keys : GetValue(t', j) = GetValue(t, j)
  BY <1>4 DEF Buried, SameParts, Unmoved
<1> QED BY <1>2, <1>5, SameMaps

\* Room for lists is made, and metatables are set, between traversals.
LEMMA GrowMaps ==
  ASSUME MapInv, StoreInv', cur = Nil, UNCHANGED <<m, cur, todo>>
  PROVE  WalkInv' /\ UNCHANGED M!vars
<1>1. \A j \in Keys : GetValue(t', j) = GetValue(t, j) BY DEF MapInv, StoreInv, TableGood
<1> QED BY <1>1, SameMaps

-----------------------------------------------------------------------------
\* What is left once the next key is visited is what is behind it.
LEMMA NextAhead ==
  ASSUME NEW tb, TableInv(tb), NEW c \in Keys \cup {Nil}, findindex(tb, c) # -2
  PROVE  LET n == luaH_next(tb, c)
         IN  \/ n = Nil /\ Ahead(tb, c) = {}
             \/ n \in Ahead(tb, c) /\ Ahead(tb, n) = Ahead(tb, c) \ {n} /\ findindex(tb, n) # -2
<1> DEFINE n == luaH_next(tb, c)
           i == findindex(tb, c)
<1>1. \/ n = Nil /\ \A j \in Keys : GetValue(tb, j) # Nil => findindex(tb, j) <= i
      \/ /\ n \in Keys /\ GetValue(tb, n) # Nil /\ findindex(tb, n) > i
         /\ \A j \in Keys : GetValue(tb, j) # Nil /\ j # n =>
              (findindex(tb, j) > i <=> findindex(tb, j) > findindex(tb, n))
  BY NextFinds
<1>2. i \in Int
  <2>1. CASE c = Nil BY <2>1 DEF findindex
  <2>2. CASE c # Nil BY <2>2, IndexRange
  <2> QED BY <2>1, <2>2
<1>3. \A j \in Keys : findindex(tb, j) \in Int BY IndexRange
<1> HIDE DEF n
<1>4. CASE n = Nil /\ \A j \in Keys : GetValue(tb, j) # Nil => findindex(tb, j) <= i
  <2>1. \A j \in Keys : GetValue(tb, j) # Nil => ~(findindex(tb, j) > i) BY <1>2, <1>3, <1>4
  <2>2. Ahead(tb, c) = {} BY <2>1 DEF Ahead
  <2> QED BY <1>4, <2>2 DEF n
<1>5. CASE /\ n \in Keys /\ GetValue(tb, n) # Nil /\ findindex(tb, n) > i
           /\ \A j \in Keys : GetValue(tb, j) # Nil /\ j # n =>
                (findindex(tb, j) > i <=> findindex(tb, j) > findindex(tb, n))
  <2>1. n \in Ahead(tb, c) BY <1>5 DEF Ahead
  <2>2. findindex(tb, n) \in 0 .. Entries(tb) - 1 BY <1>5, PresentIndex
  <2>3. ~(findindex(tb, n) > findindex(tb, n)) BY <2>2
  <2>4. Ahead(tb, n) = Ahead(tb, c) \ {n} BY <1>5, <2>3 DEF Ahead
  <2>5. findindex(tb, n) # -2 BY <2>2
  <2> QED BY <2>1, <2>4, <2>5 DEF n
<1> QED BY <1>1, <1>4, <1>5

LEMMA NextMaps ==
  ASSUME MapInv, StoreInv', NextKey
  PROVE  WalkInv' /\ (M!Next \/ UNCHANGED M!vars)
<1> DEFINE n == luaH_next(t, cur)
           rest == IF cur = Nil THEN Present ELSE todo
<1>1. TableInv(t) /\ cur \in Keys \cup {Nil} /\ \A j \in Keys : GetValue(t, j) = m[j]
  BY DEF MapInv, StoreInv, TableGood, WalkInv, WalkGood
<1>2. findindex(t, cur) # -2 /\ cur' = n /\ todo' = rest \ {n} /\ t' = t /\ m' = m
  BY DEF NextKey
<1>3. \/ n = Nil /\ Ahead(t, cur) = {}
      \/ n \in Ahead(t, cur) /\ Ahead(t, n) = Ahead(t, cur) \ {n} /\ findindex(t, n) # -2
  BY <1>1, <1>2, NextAhead
<1>4. rest = Ahead(t, cur)
  <2>1. CASE cur = Nil
    <3>1. findindex(t, Nil) = -1 BY DEF findindex
    <3>2. ASSUME NEW j \in Keys, GetValue(t, j) # Nil PROVE findindex(t, j) > -1
      <4>1. findindex(t, j) \in 0 .. Entries(t) - 1 BY <1>1, <3>2, PresentIndex
      <4> QED BY <4>1
    <3>3. Present = Ahead(t, Nil) BY <3>1, <3>2 DEF Present, Ahead
    <3> QED BY <2>1, <3>3
  <2>2. CASE cur # Nil BY <2>2 DEF MapInv, WalkInv, WalkGood
  <2> QED BY <2>1, <2>2
<1> HIDE DEF n, rest
<1>5. Nil \notin Keys /\ Ahead(t, cur) \subseteq Keys BY KeyAssumption DEF Ahead, Keys
<1>6. WalkInv'
  <2>1. CASE n = Nil /\ Ahead(t, cur) = {}
    <3>1. WalkGood(t, n, rest \ {n}) BY <1>4, <2>1 DEF WalkGood
    <3> QED BY <1>2, <3>1 DEF WalkInv
  <2>2. CASE n \in Ahead(t, cur) /\ Ahead(t, n) = Ahead(t, cur) \ {n} /\ findindex(t, n) # -2
    <3>1. WalkGood(t, n, rest \ {n}) BY <1>4, <1>5, <2>2 DEF WalkGood
    <3> QED BY <1>2, <3>1 DEF WalkInv
  <2> QED BY <1>3, <2>1, <2>2
<1>7. Walking <=> cur # Nil BY WalkingIs DEF MapInv
<1>8. Walking' <=> n # Nil BY <1>2, <1>6 DEF WalkInv, WalkGood, Walking
<1>9. Walking \in BOOLEAN /\ Walking' \in BOOLEAN BY DEF Walking
<1>10. CASE cur = Nil /\ n = Nil
  <2>1. todo = {} /\ todo' = {}
    <3>1. Ahead(t, cur) = {} BY <1>3, <1>5, <1>10
    <3> QED BY <1>2, <1>4, <1>10, <3>1 DEF MapInv, WalkInv, WalkGood
  <2>2. Walking' = Walking BY <1>7, <1>8, <1>9, <1>10
  <2> QED BY <1>2, <1>6, <2>1, <2>2 DEF M!vars
<1>11. CASE cur = Nil /\ n # Nil
  <2>1. n \in Present /\ n \in Keys /\ m[n] # Nil
    <3>1. n \in rest BY <1>3, <1>4, <1>11
    <3> QED BY <1>1, <1>11, <3>1 DEF Present, rest
  <2>2. Present = {j \in Keys : m[j] # Nil} BY <1>1 DEF Present
  <2>3. todo' = {j \in Keys : m[j] # Nil} \ {n} BY <1>2, <1>11, <2>2 DEF rest
  <2>4. M!Begin(n) BY <1>2, <1>7, <1>8, <1>9, <1>11, <2>1, <2>3 DEF M!Begin
  <2> QED BY <1>6, <2>1, <2>4 DEF M!Next
<1>12. CASE cur # Nil /\ n # Nil
  <2>1. n \in todo /\ n \in Keys /\ todo' = todo \ {n}
    BY <1>2, <1>3, <1>4, <1>5, <1>12 DEF rest
  <2>2. Walking' = Walking BY <1>7, <1>8, <1>9, <1>12
  <2>3. M!Visit(n) BY <1>2, <1>7, <1>12, <2>1, <2>2 DEF M!Visit
  <2> QED BY <1>6, <2>1, <2>3 DEF M!Next
<1>13. CASE cur # Nil /\ n = Nil
  <2>1. todo = {} /\ todo' = todo
    <3>1. Ahead(t, cur) = {} BY <1>3, <1>5, <1>13
    <3> QED BY <1>2, <1>4, <1>13, <3>1 DEF rest
  <2>2. M!End BY <1>2, <1>7, <1>8, <1>9, <1>13, <2>1 DEF M!End
  <2> QED BY <1>6, <2>2 DEF M!Next
<1> QED BY <1>10, <1>11, <1>12, <1>13

LEMMA MapStep == MapInv /\ StoreInv' /\ [Next]_vars => MapInv' /\ [M!Next]_M!vars
<1> SUFFICES ASSUME MapInv, StoreInv', [Next]_vars PROVE MapInv' /\ [M!Next]_M!vars
  OBVIOUS
<1>1. ASSUME NEW k \in Keys, NEW v \in Vals \cup {Nil}, RawSet(k, v)
      PROVE  WalkInv' /\ [M!Next]_M!vars
  BY <1>1, RawSetMaps DEF M!Next
<1>2. ASSUME NEW k \in Keys, NEW v \in Vals \cup {Nil}, RawSetI(k, v)
      PROVE  WalkInv' /\ [M!Next]_M!vars
  BY <1>2, RawSetIMaps DEF M!Next
<1>3. ASSUME NEW k \in Keys, NEW v \in Vals \cup {Nil}, SetTable(k, v)
      PROVE  WalkInv' /\ [M!Next]_M!vars
  BY <1>3, SetTableMaps DEF M!Next
<1>4. ASSUME NEW e \in Events, AskEvent(e) PROVE WalkInv' /\ [M!Next]_M!vars
  BY <1>4, AskMaps
<1>5. ASSUME NEW n \in ListSizes, luaH_resizearray(n) PROVE WalkInv' /\ [M!Next]_M!vars
  BY <1>5, GrowMaps DEF luaH_resizearray
<1>6. ASSUME NEW p \in 0 .. MAXASIZE - 1, RemoveEntry(p) PROVE WalkInv' /\ [M!Next]_M!vars
  BY <1>6, RemoveMaps
<1>7. ASSUME OwnMetatable PROVE WalkInv' /\ [M!Next]_M!vars BY <1>7, GrowMaps DEF OwnMetatable
<1>8. ASSUME NextKey PROVE WalkInv' /\ [M!Next]_M!vars BY <1>8, NextMaps
<1>9. ASSUME UNCHANGED vars PROVE WalkInv' /\ [M!Next]_M!vars
  <2>1. t' = t /\ m' = m /\ cur' = cur /\ todo' = todo BY <1>9 DEF vars
  <2>2. WalkInv' BY <2>1 DEF MapInv, WalkInv
  <2>3. Walking' = Walking BY <2>1 DEF Walking
  <2> QED BY <2>1, <2>2, <2>3 DEF M!vars
<1>10. WalkInv' /\ [M!Next]_M!vars
  BY <1>1, <1>2, <1>3, <1>4, <1>5, <1>6, <1>7, <1>8, <1>9 DEF Next
<1> QED BY <1>10 DEF MapInv

\* The table implements the map: an assignment, of any kind, is one assignment
\* or, with a tag method, none; a step of next begins, continues or ends a
\* traversal; rehashing and collecting are invisible (ltable.c, luaH_next).
THEOREM MapImplemented == Spec => TableIsMap
<1>1. Init => WalkInv BY DEF Init, WalkInv, WalkGood
<1>2. Init => M!Init
  <2> SUFFICES ASSUME Init PROVE M!Init
    OBVIOUS
  <2>1. m = [k \in Keys |-> Nil] /\ todo = {} /\ cur = Nil BY DEF Init
  <2>2. Walking = FALSE BY <2>1 DEF Walking
  <2> QED BY <2>1, <2>2 DEF M!Init
<1>3. StoreInv /\ WalkInv /\ StoreInv' /\ [Next]_vars => WalkInv' /\ [M!Next]_M!vars
  BY MapStep DEF MapInv
<1> QED BY <1>1, <1>2, <1>3, StoreAlways, PTL DEF Spec, TableIsMap, M!Spec
=============================================================================
