---------------------------- MODULE LuaHeapProofs ----------------------------
(***************************************************************************)
(* The collector of LuaHeap is safe for every heap: whatever the program   *)
(* does between its steps, nothing it can reach is freed, marking keeps    *)
(* the three colours apart, and a finalizer is called once before its      *)
(* userdata goes. The argument is that of the collector's authors. The     *)
(* objects that are not dead are closed under references (Closed); this    *)
(* could only break when the white is flipped at the end of the atomic     *)
(* phase, and there it holds because everything marked was traversed after *)
(* the program last changed it (MarkInv, phase by phase of the lists).     *)
(* After the sweep every object is white again (SweepInv), which is what   *)
(* the next cycle starts from. And a cycle collects: nothing else refers   *)
(* to what its start could not reach, so it stays white, is dead after the *)
(* flip and lies before the sweep (GarbageInv). For this the search that   *)
(* defines Reachable is shown to be complete (ReachFromComplete).          *)
(***************************************************************************)
EXTENDS LuaHeap, FiniteSetTheorems, WellFoundedInduction, TLAPS

Marking  == {"propagate"} \cup Atomic
Sweeping == {"sweepstring", "sweep"}
Colors   == {"white0", "white1", "gray", "black"}
Lists    == Tables \cup Functions \cup Threads  \* what can be in a gray list
Weak     == WeakK \cup WeakV

TypeOK ==
  /\ live \in SUBSET Objs
  /\ ref \in [Objs -> SUBSET Objs]
  /\ entry \in [Tables -> SUBSET (Vals \X Vals)]
  /\ slot \in [Threads -> [Slots -> Vals]]
  /\ open \in [UpVals -> (Threads \X Slots) \cup {Nil}]
  /\ color \in [Objs -> Colors]
  /\ white \in {"white0", "white1"}
  /\ gcstate \in {"pause", "finalize", "closing", "closed"} \cup Marking \cup Sweeping
  /\ gray \in SUBSET Lists /\ grayagain \in SUBSET Lists /\ weak \in SUBSET Weak
  /\ sweep \in SUBSET Objs
  /\ finalized \in SUBSET Udata /\ tmudata \in SUBSET HasGC
  /\ called \in [Udata -> Nat]
  /\ full \in 0 .. 2
  /\ garbage \in SUBSET Objs
  /\ ops \in Nat

\* What an object of each type can refer to.
RefTyped ==
  /\ \A o \in Strings \cup Tables \cup Threads : ref[o] = {}
  /\ \A o \in Udata : ref[o] \subseteq Tables
  /\ \A o \in Functions : ref[o] \subseteq Tables \cup UpVals
  /\ \A o \in UpVals : ref[o] \cap UpVals = {}

--------------------------------------------------------------------------------
(* The objects that are not dead, and the references between them.              *)

Alive == {o \in live : ~isdead(o)}

\* Alive objects refer to alive objects, weakly too; what is not allocated
\* refers to nothing; an open upvalue is open in a thread that is not freed.
Closed ==
  /\ gcstate # "closed" => {Main, Globals} \subseteq Alive
  /\ \A t \in Alive \cap Tables : \A p \in entry[t] : {p[1], p[2]} \subseteq Alive \cup {Nil}
  /\ \A th \in Alive \cap Threads, i \in Slots : slot[th][i] \in Alive \cup {Nil}
  /\ \A u \in Alive \cap UpVals :
       IF open[u] = Nil THEN ref[u] \subseteq Alive
       ELSE slot[open[u][1]][open[u][2]] \in Alive \cup {Nil}
  /\ \A o \in Alive \cap (Functions \cup Udata) : ref[o] \subseteq Alive
  /\ \A t \in Tables \ live : entry[t] = {}
  /\ \A th \in Threads \ live, i \in Slots : slot[th][i] = Nil
  /\ \A u \in live \cap UpVals : open[u] # Nil => open[u][1] \in live

--------------------------------------------------------------------------------
(* Colours.                                                                     *)

\* The sweep has yet to come to o, or to the thread in which it is open.
Pending(o) == o \in sweep \/ (o \in UpVals /\ open[o] # Nil /\ open[o][1] \in sweep)

\* What the sweep has passed has the current white, and all of the heap does
\* until the next cycle starts. While marking nothing is dead.
SweepInv ==
  /\ gcstate \in Sweeping \cup {"pause", "finalize"} =>
       \A o \in live : Pending(o) \/ color[o] = white
  /\ gcstate \in Marking => \A o \in live : color[o] # otherwhite
  /\ gcstate \in Marking \cup {"pause", "finalize"} => sweep = {}
  /\ \A u \in live \cap UpVals : open[u] # Nil => color[u] # "black"
  /\ \A o \in Threads \cup Weak : color[o] # "black"

KidsMarked(o) == \A v \in Kids(o) : ~iswhite(v)

\* The lists of the collector, and from which phase on what they hold has been
\* traversed for the last time.
MarkInv ==
  gcstate \in Marking =>
    /\ \A o \in live : color[o] = "black" => KidsMarked(o)
    /\ \A o \in live \cap Lists : color[o] = "gray" => o \in gray \cup grayagain \cup weak
    /\ \A u \in live \cap UpVals : color[u] = "gray" => open[u] # Nil
    /\ \A u \in live \cap Udata : color[u] # "gray"
    /\ ~iswhite(Main) /\ ~iswhite(Globals)
    /\ grayagain \cap Weak = {}
    /\ gcstate \in Atomic => \A u \in live \cap UpVals : color[u] = "gray" => KidsMarked(u)
    /\ gcstate \in {"atomic2", "atomic3", "atomic4"} => \A t \in weak : KidsMarked(t)
    /\ gcstate \in {"atomic3", "atomic4"} => \A o \in grayagain : KidsMarked(o)
    /\ gcstate = "atomic4" => \A u \in tmudata : color[u] = "black"

\* Userdata and finalizers: a userdata is finalized when it is first found
\* dead, or at the end; its finalizer is called after that.
FinInv ==
  /\ finalized \subseteq live
  /\ tmudata \subseteq finalized \cap Alive
  /\ \A u \in HasGC :
       /\ called[u] \in {0, 1}
       /\ u \in tmudata \/ (u \in live /\ u \notin finalized) => called[u] = 0
       /\ u \in finalized \ tmudata => called[u] = 1
  /\ gcstate = "atomic4" => \A u \in HasGC \cap live : iswhite(u) => u \in finalized
  /\ gcstate \in Sweeping => \A u \in HasGC \cap live : isdead(u) => u \in finalized
  /\ gcstate = "closing" => HasGC \cap live \subseteq finalized

HeapInv == TypeOK /\ RefTyped /\ Closed /\ SweepInv /\ MarkInv /\ FinInv

--------------------------------------------------------------------------------
(* Induction over the natural numbers, for sets, and the search ReachFrom.       *)

\* Every set of natural numbers with an element has a least one.
LEMMA LeastNatural ==
  ASSUME NEW T \in SUBSET Nat, T # {}
  PROVE  \E n \in T : \A m \in T : n <= m
<1> DEFINE R == OpToRel(<, Nat)
<1>1. IsWellFoundedOn(R, Nat) BY NatLessThanWellFounded
<1>2. \A x, y \in Nat : x < y => <<x, y>> \in R BY DEF OpToRel
<1> HIDE DEF R
<1>3. PICK n \in T : \A m \in T : <<m, n>> \notin R
  BY <1>1, WFMin
<1>4. \A m \in T : ~(m < n) BY <1>2, <1>3, Zenon
<1>5. \A m \in T : n <= m BY <1>4
<1> QED BY <1>5

\* Induction: a set with 0 and every successor is Nat.
LEMMA SetInduction ==
  ASSUME NEW T \in SUBSET Nat, 0 \in T, \A n \in T : n + 1 \in T
  PROVE  T = Nat
<1> SUFFICES ASSUME Nat \ T # {} PROVE FALSE
  OBVIOUS
<1>1. PICK n \in Nat \ T : \A m \in Nat \ T : n <= m
  BY LeastNatural
<1>2. n # 0 /\ n - 1 \in Nat /\ n - 1 \notin Nat \ T BY <1>1
<1>3. n - 1 \in T BY <1>2
<1>4. (n - 1) + 1 \in T BY <1>3
<1> QED BY <1>1, <1>4

\* The rounds of the search from S: what has been seen, and what is new.
Rounds(S, round) ==
  /\ round[0] = <<{}, S>>
  /\ \A n \in Nat : n < Cardinality(Objs) =>
       round[n + 1] = <<round[n][1] \cup round[n][2],
                        (UNION {Keeps(o) : o \in round[n][2]}) \ (round[n][1] \cup round[n][2])>>
  /\ ReachFrom(S) = round[Cardinality(Objs)][1]

\* The recursive function by which ReachFrom is defined exists.
LEMMA RoundsExist ==
  ASSUME NEW S, Cardinality(Objs) \in Nat
  PROVE  \E round : Rounds(S, round)
<1> DEFINE N == Cardinality(Objs)
           Next1(b) == <<b[1] \cup b[2], (UNION {Keeps(o) : o \in b[2]}) \ (b[1] \cup b[2])>>
           Body(f, n) == IF n = 0 THEN <<{}, S>>
                         ELSE CHOOSE r \in {Next1(b) : b \in {f[n - 1]}} : TRUE
           Upto == {m \in Nat : \E f : f = [n \in 0 .. m |-> Body(f, n)]}
<1>1. \A f : \A n : n # 0 => Body(f, n) = Next1(f[n - 1])
  OBVIOUS
<1>2. \A f : Body(f, 0) = <<{}, S>>
  OBVIOUS
<1> HIDE DEF Body, Next1
<1>3. 0 \in Upto
  <2> DEFINE f == [n \in 0 .. 0 |-> <<{}, S>>]
  <2>1. f = [n \in 0 .. 0 |-> Body(f, n)] BY <1>2
  <2> QED BY <2>1
<1>4. ASSUME NEW m \in Upto PROVE m + 1 \in Upto
  <2>1. PICK f : f = [n \in 0 .. m |-> Body(f, n)] BY <1>4
  <2> DEFINE h == [n \in 0 .. m + 1 |-> IF n \in 0 .. m THEN f[n] ELSE Next1(f[m])]
  <2>2. ASSUME NEW n \in 0 .. m + 1 PROVE h[n] = Body(h, n)
    <3>1. CASE n = 0
      <4>1. f[0] = Body(f, 0) /\ h[0] = f[0] BY <2>1
      <4> QED BY <1>2, <3>1, <4>1
    <3>2. CASE n # 0 /\ n \in 0 .. m
      <4>1. h[n] = f[n] /\ h[n - 1] = f[n - 1] BY <3>2
      <4>2. f[n] = Next1(f[n - 1]) BY <1>1, <2>1, <3>2
      <4>3. Body(h, n) = Next1(h[n - 1]) BY <1>1, <3>2
      <4> QED BY <4>1, <4>2, <4>3
    <3>3. CASE n = m + 1
      <4>1. h[n] = Next1(f[m]) /\ h[n - 1] = f[m] BY <3>3
      <4>2. Body(h, n) = Next1(h[n - 1]) BY <1>1, <3>3
      <4> QED BY <4>1, <4>2
    <3> QED BY <3>1, <3>2, <3>3
  <2>3. h = [n \in 0 .. m + 1 |-> Body(h, n)] BY <2>2
  <2> HIDE DEF h
  <2>4. \E k : k = [n \in 0 .. m + 1 |-> Body(k, n)] BY <2>3
  <2>5. m + 1 \in Nat BY <1>4
  <2> QED BY <2>4, <2>5
<1>5. Upto = Nat
  <2> HIDE DEF Upto
  <2>1. Upto \in SUBSET Nat BY DEF Upto
  <2> QED BY <1>3, <1>4, <2>1, SetInduction
<1> DEFINE round == CHOOSE f : f = [n \in 0 .. N |-> Body(f, n)]
<1>6. round = [n \in 0 .. N |-> Body(round, n)]
  BY <1>5
<1>7. ReachFrom(S) = round[N][1]
  BY DEF ReachFrom, Body, Next1
<1> HIDE DEF round
<1>8. round[0] = <<{}, S>> BY <1>2, <1>6
<1>9. \A n \in Nat : n < N => round[n + 1] = Next1(round[n])
  BY <1>1, <1>6
<1> QED BY <1>7, <1>8, <1>9 DEF Rounds, Next1

\* The search from S stays in every set that contains S and what its members keep.
LEMMA ReachFromClosed ==
  ASSUME NEW S, NEW T, S \subseteq T, \A o \in T : Keeps(o) \subseteq T,
         Cardinality(Objs) \in Nat
  PROVE  ReachFrom(S) \subseteq T
<1>1. PICK round : Rounds(S, round) BY RoundsExist
<1> DEFINE N == Cardinality(Objs)
           Within == {m \in Nat : m <= N => round[m][1] \cup round[m][2] \subseteq T}
<1>2. 0 \in Within BY <1>1 DEF Rounds
<1>3. ASSUME NEW m \in Within PROVE m + 1 \in Within
  <2> SUFFICES ASSUME m + 1 <= N
               PROVE  round[m + 1][1] \cup round[m + 1][2] \subseteq T
    OBVIOUS
  <2>1. round[m][1] \cup round[m][2] \subseteq T BY <1>3
  <2>2. round[m + 1] = <<round[m][1] \cup round[m][2],
                         (UNION {Keeps(o) : o \in round[m][2]}) \ (round[m][1] \cup round[m][2])>>
    BY <1>1, <1>3 DEF Rounds
  <2> QED BY <2>1, <2>2
<1>4. Within = Nat
  <2> HIDE DEF Within
  <2>1. Within \in SUBSET Nat BY DEF Within
  <2> QED BY <1>2, <1>3, <2>1, SetInduction
<1>5. round[N][1] \subseteq T BY <1>4
<1> QED BY <1>1, <1>5 DEF Rounds

\* The search is complete: each round that finds something new makes what has
\* been seen larger, so after as many rounds as there are objects nothing is new.
SearchComplete ==
  \A S \in SUBSET Objs :
    S \subseteq ReachFrom(S) /\ \A o \in ReachFrom(S) : Keeps(o) \subseteq ReachFrom(S)

LEMMA ReachFromComplete == (\A o \in Objs : Keeps(o) \subseteq Objs) => SearchComplete
<1> SUFFICES ASSUME \A o \in Objs : Keeps(o) \subseteq Objs, NEW S \in SUBSET Objs
             PROVE  S \subseteq ReachFrom(S) /\ \A o \in ReachFrom(S) : Keeps(o) \subseteq ReachFrom(S)
  BY DEF SearchComplete
<1> DEFINE N == Cardinality(Objs)
<1>0. IsFiniteSet(Objs) /\ N \in Nat BY HeapAssumption, FS_CardinalityType
<1>1. PICK round : Rounds(S, round) BY <1>0, RoundsExist
<1> DEFINE P(seen, new, n) ==
             /\ seen \subseteq Objs /\ new \subseteq Objs /\ seen \cap new = {}
             /\ S \subseteq seen \cup new
             /\ \A o \in seen : Keeps(o) \subseteq seen \cup new
             /\ new = {} \/ n <= Cardinality(seen)
           Within == {m \in Nat : m <= N => P(round[m][1], round[m][2], m)}
<1>2. 0 \in Within
  <2>1. round[0] = <<{}, S>> BY <1>1 DEF Rounds
  <2>2. Cardinality({}) = 0 BY FS_EmptySet
  <2> QED BY <2>1, <2>2
<1>3. ASSUME NEW m \in Within PROVE m + 1 \in Within
  <2> SUFFICES ASSUME m + 1 <= N PROVE P(round[m + 1][1], round[m + 1][2], m + 1)
    BY <1>3
  <2> DEFINE seen == round[m][1]
             new  == round[m][2]
             both == seen \cup new
             next == (UNION {Keeps(o) : o \in new}) \ both
  <2>1. m \in Nat /\ P(seen, new, m) BY <1>0, <1>3
  <2>2. round[m + 1][1] = both /\ round[m + 1][2] = next
    BY <1>0, <1>1, <2>1 DEF Rounds
  <2> HIDE DEF seen, new
  <2>3. both \subseteq Objs /\ S \subseteq both BY <2>1
  <2>4. next \subseteq Objs /\ both \cap next = {} BY <2>1
  <2>5. \A o \in both : Keeps(o) \subseteq both \cup next BY <2>1
  <2>6. CASE new = {}
    <3>1. next = {} BY <2>6
    <3> QED BY <2>2, <2>3, <2>4, <2>5, <3>1
  <2>7. CASE new # {}
    <3>1. IsFiniteSet(both) BY <1>0, <2>3, FS_Subset
    <3>2. seen \subseteq both /\ seen # both BY <2>1, <2>7
    <3> HIDE DEF both
    <3>3. /\ IsFiniteSet(seen) /\ Cardinality(seen) <= Cardinality(both)
          /\ Cardinality(seen) # Cardinality(both)
      BY <3>1, <3>2, FS_Subset
    <3>4. Cardinality(seen) \in Nat /\ Cardinality(both) \in Nat
      BY <3>1, <3>3, FS_CardinalityType
    <3>5. m + 1 <= Cardinality(both) BY <2>1, <2>7, <3>3, <3>4
    <3> HIDE DEF next
    <3> QED BY <2>2, <2>3, <2>4, <2>5, <3>5
  <2> QED BY <2>6, <2>7
<1>4. Within = Nat
  <2> HIDE DEF Within
  <2>1. Within \in SUBSET Nat BY DEF Within
  <2> QED BY <1>2, <1>3, <2>1, SetInduction
<1> DEFINE R == round[N][1]
<1>5. P(R, round[N][2], N) BY <1>0, <1>4
<1>6. ReachFrom(S) = R BY <1>1 DEF Rounds
<1> HIDE DEF R
<1>7. CASE round[N][2] = {} BY <1>5, <1>6, <1>7
<1>8. CASE N <= Cardinality(R)
  <2>1. R \subseteq Objs BY <1>5
  <2>2. /\ Cardinality(R) <= N /\ Cardinality(R) \in Nat
        /\ Cardinality(R) = N => R = Objs
    BY <1>0, <2>1, FS_Subset, FS_CardinalityType
  <2>3. R = Objs BY <1>0, <1>8, <2>2
  <2> QED BY <1>6, <2>3
<1> QED BY <1>5, <1>7, <1>8

--------------------------------------------------------------------------------
(* Facts about the constants and about what objects refer to.                   *)

\* The types of objects are disjoint, and Nil is no object.
LEMMA Kinds ==
  /\ Objs = Strings \cup Udata \cup Lists \cup UpVals
  /\ Strings \cap (Udata \cup Lists \cup UpVals) = {}
  /\ Udata \cap (Lists \cup UpVals) = {}
  /\ UpVals \cap Lists = {}
  /\ Tables \cap (Functions \cup Threads) = {} /\ Functions \cap Threads = {}
  /\ Main \in Threads /\ Globals \in Tables \ Weak /\ Weak \subseteq Tables
  /\ HasGC \subseteq Udata
  /\ Nil \notin Objs /\ Nil \notin Threads \X Slots
BY HeapAssumption DEF Objs, Lists, Weak

\* The collector takes an element of the list, if there is one.
LEMMA Picked == \A S \in SUBSET Objs : Pick(S) \subseteq S /\ (S # {} => Pick(S) # {})
BY HeapAssumption

\* What objects refer to, by their types.
LEMMA LinksTyped ==
  ASSUME TypeOK, RefTyped
  PROVE  /\ \A t \in Tables : AllEntries(t) \subseteq Objs \ UpVals
         /\ \A t \in Tables : Entries(t) \ {Nil} \subseteq AllEntries(t)
         /\ \A th \in Threads : Held(th) \subseteq Objs \ UpVals
         /\ \A u \in UpVals : UpValue(u) \subseteq Objs \ UpVals
<1>1. ASSUME NEW t \in Tables
      PROVE  /\ AllEntries(t) \subseteq Objs \ UpVals
             /\ Entries(t) \ {Nil} \subseteq AllEntries(t)
  <2>1. \A p \in entry[t] : p[1] \in Vals /\ p[2] \in Vals
    BY DEF TypeOK
  <2> QED BY <2>1 DEF AllEntries, Entries, Vals
<1>2. ASSUME NEW th \in Threads PROVE Held(th) \subseteq Objs \ UpVals
  <2>1. \A i \in Slots : slot[th][i] \in Vals BY DEF TypeOK
  <2> QED BY <2>1 DEF Held, Vals
<1>3. ASSUME NEW u \in UpVals PROVE UpValue(u) \subseteq Objs \ UpVals
  <2>1. CASE open[u] = Nil
    <3>1. ref[u] \subseteq Objs /\ ref[u] \cap UpVals = {}
      BY Kinds DEF TypeOK, RefTyped
    <3> QED BY <2>1, <3>1 DEF UpValue
  <2>2. CASE open[u] # Nil
    <3>1. open[u][1] \in Threads /\ open[u][2] \in Slots BY <2>2 DEF TypeOK
    <3>2. slot[open[u][1]][open[u][2]] \in Vals BY <3>1 DEF TypeOK
    <3> QED BY <2>2, <3>2 DEF UpValue, Vals
  <2> QED BY <2>1, <2>2
<1> QED BY <1>1, <1>2, <1>3

\* The children that marking follows, by the type of the parent.
LEMMA KidsByType ==
  ASSUME TypeOK, RefTyped
  PROVE  /\ \A o \in Objs : Kids(o) \subseteq Objs
         /\ \A t \in Tables : Kids(t) = Entries(t) \ {Nil}
         /\ \A th \in Threads : Kids(th) = Held(th) \cup {Globals}
         /\ \A u \in UpVals : Kids(u) = UpValue(u) /\ Kids(u) \cap UpVals = {}
         /\ \A u \in Udata : Kids(u) = ref[u] /\ Kids(u) \subseteq Tables
         /\ \A f \in Functions : Kids(f) = ref[f] /\ Kids(f) \subseteq Tables \cup UpVals
         /\ \A s \in Strings : Kids(s) = {}
<1>1. \A t \in Tables : Kids(t) = Entries(t) \ {Nil} BY DEF Kids
<1>2. \A th \in Threads : Kids(th) = Held(th) \cup {Globals} BY Kinds DEF Kids
<1>3. \A u \in UpVals : Kids(u) = UpValue(u) BY Kinds DEF Kids, Lists
<1>4. \A o \in Udata \cup Functions \cup Strings : Kids(o) = ref[o] BY Kinds DEF Kids, Lists
<1>5. \A o \in Objs : Kids(o) \subseteq Objs
  <2> SUFFICES ASSUME NEW o \in Objs PROVE Kids(o) \subseteq Objs
    OBVIOUS
  <2>1. CASE o \in Tables BY <1>1, <2>1, LinksTyped
  <2>2. CASE o \in Threads BY <1>2, <2>2, LinksTyped, Kinds DEF Lists
  <2>3. CASE o \in UpVals BY <1>3, <2>3, LinksTyped
  <2>4. CASE o \in Udata \cup Functions \cup Strings BY <1>4, <2>4 DEF TypeOK
  <2> QED BY <2>1, <2>2, <2>3, <2>4, Kinds DEF Lists
<1> QED BY <1>1, <1>2, <1>3, <1>4, <1>5, LinksTyped DEF RefTyped

\* reallymarkobject, called for the white objects of S: it colours white objects
\* only, all of S, and with a userdata or an upvalue what they refer to.
LEMMA MarkedFacts ==
  ASSUME TypeOK, RefTyped, NEW S \in SUBSET Objs
  PROVE  /\ Marked(S) \subseteq Objs
         /\ \A o \in Marked(S) : iswhite(o)
         /\ \A o \in S : iswhite(o) => o \in Marked(S)
         /\ \A o \in Marked(S) \cap (Udata \cup UpVals) : \A v \in Kids(o) :
              iswhite(v) => v \in Marked(S)
         /\ Marked(S) \cap UpVals \subseteq S
<1> DEFINE Whites(T) == {o \in T : iswhite(o)}
           A == Whites(S)
           B == A \cup Whites(UNION {Kids(o) : o \in A \cap UpVals})
           C == B \cup Whites(UNION {Kids(o) : o \in B \cap Udata})
<1>1. Marked(S) = C BY DEF Marked
<1>2. A \subseteq S /\ \A o \in S : iswhite(o) => o \in A OBVIOUS
<1>3. /\ A \subseteq B /\ B \subseteq Objs
      /\ \A o \in B : iswhite(o)
      /\ B \cap UpVals = A \cap UpVals
      /\ \A o \in A \cap UpVals : \A v \in Kids(o) : iswhite(v) => v \in B
  BY KidsByType
<1> HIDE DEF A, B
<1>4. /\ B \subseteq C /\ C \subseteq Objs
      /\ \A o \in C : iswhite(o)
      /\ \A o \in C : o \in B \/ o \in Tables
      /\ \A o \in B \cap Udata : \A v \in Kids(o) : iswhite(v) => v \in C
  BY <1>3, KidsByType, Kinds
<1>5. C \cap UpVals = A \cap UpVals /\ C \cap Udata = B \cap Udata
  BY <1>3, <1>4, Kinds DEF Lists
<1> HIDE DEF C
<1> QED BY <1>1, <1>2, <1>3, <1>4, <1>5

--------------------------------------------------------------------------------
(* Types: every action keeps TypeOK and RefTyped.                               *)

\* The white that a sweep gives, and the other one.
LEMMA Whites ==
  ASSUME TypeOK
  PROVE  /\ luaC_white \in {"white0", "white1"} /\ luaC_white = white
         /\ otherwhite \in {"white0", "white1"} /\ otherwhite # white
         /\ \A o \in Objs : iswhite(o) <=> color[o] \notin {"gray", "black"}
BY DEF TypeOK, luaC_white, otherwhite, iswhite, Colors

LEMMA InitTypes == Init => TypeOK /\ RefTyped
<1> SUFFICES ASSUME Init PROVE TypeOK /\ RefTyped
  OBVIOUS
<1>1. PICK h \in Heaps : /\ live = h.live /\ ref = h.ref /\ entry = h.entry
                         /\ slot = h.slot /\ open = h.open
  BY DEF Init
<1>2. IsHeap(h) BY HeapAssumption
<1>3. RefTyped BY <1>1, <1>2, Kinds DEF IsHeap, RefTyped, Lists
<1>4. /\ live \in SUBSET Objs /\ ref \in [Objs -> SUBSET Objs]
      /\ entry \in [Tables -> SUBSET (Vals \X Vals)]
      /\ slot \in [Threads -> [Slots -> Vals]]
      /\ open \in [UpVals -> (Threads \X Slots) \cup {Nil}]
  BY <1>1, <1>2 DEF IsHeap
<1> QED BY <1>3, <1>4 DEF Init, TypeOK, Colors, Marking, Sweeping, Atomic

\* The part of TypeOK about the heap, and the part about marks.
HeapTyped ==
  /\ live \in SUBSET Objs
  /\ ref \in [Objs -> SUBSET Objs]
  /\ entry \in [Tables -> SUBSET (Vals \X Vals)]
  /\ slot \in [Threads -> [Slots -> Vals]]
  /\ open \in [UpVals -> (Threads \X Slots) \cup {Nil}]
  /\ RefTyped

MarksTyped ==
  /\ color \in [Objs -> Colors]
  /\ white \in {"white0", "white1"}
  /\ gray \in SUBSET Lists /\ grayagain \in SUBSET Lists /\ weak \in SUBSET Weak
  /\ sweep \in SUBSET Objs

RestTyped ==
  /\ gcstate \in {"pause", "finalize", "closing", "closed"} \cup Marking \cup Sweeping
  /\ finalized \in SUBSET Udata /\ tmudata \in SUBSET HasGC
  /\ called \in [Udata -> Nat]
  /\ full \in 0 .. 2
  /\ garbage \in SUBSET Objs
  /\ ops \in Nat

LEMMA TypeParts ==
  /\ TypeOK /\ RefTyped <=> HeapTyped /\ MarksTyped /\ RestTyped
  /\ (TypeOK /\ RefTyped)' <=> HeapTyped' /\ MarksTyped' /\ RestTyped'
BY DEF TypeOK, HeapTyped, MarksTyped, RestTyped

LEMMA UnchangedTypes ==
  /\ HeapTyped /\ UNCHANGED heap => HeapTyped'
  /\ MarksTyped /\ UNCHANGED marks => MarksTyped'
BY DEF HeapTyped, heap, RefTyped, MarksTyped, marks

\* Colouring a set of objects.
LEMMA reallymarkobjectTypes ==
  ASSUME TypeOK, RefTyped, NEW S \in SUBSET Objs, reallymarkobject(S),
         UNCHANGED <<white, grayagain, weak, sweep>>
  PROVE  MarksTyped'
<1>1. Marked(S) \subseteq Objs BY MarkedFacts
<1>2. color' \in [Objs -> Colors] BY DEF reallymarkobject, TypeOK, Colors
<1>3. gray' \in SUBSET Lists BY <1>1 DEF reallymarkobject, TypeOK, Lists
<1> QED BY <1>2, <1>3 DEF MarksTyped, TypeOK

LEMMA markrootTypes ==
  ASSUME TypeOK, markroot, UNCHANGED <<white, sweep>>
  PROVE  MarksTyped' /\ garbage' \in SUBSET Objs /\ gcstate' = "propagate"
<1>1. color' \in [Objs -> Colors] BY DEF markroot, TypeOK, Colors
<1>2. gray' \in SUBSET Lists BY Kinds DEF markroot, Lists
<1> QED BY <1>1, <1>2 DEF markroot, MarksTyped, TypeOK

LEMMA propagatemarkTypes ==
  ASSUME TypeOK, RefTyped, propagatemark
  PROVE  (TypeOK /\ RefTyped)'
<1>1. PICK o \in Pick(gray) : \E new \in {Marked(Kids(o))} :
       /\ color' = [x \in Objs |->
            IF x = o THEN IF o \in Threads \cup WeakK \cup WeakV THEN "gray" ELSE "black"
            ELSE IF x \notin new THEN color[x]
            ELSE IF x \in Udata \/ (x \in UpVals /\ open[x] = Nil) THEN "black"
            ELSE "gray"]
       /\ gray' = (gray \ {o}) \cup (new \cap (Tables \cup Functions \cup Threads))
       /\ grayagain' = IF o \in Threads THEN grayagain \cup {o} ELSE grayagain
       /\ weak' = IF o \in WeakK \cup WeakV THEN weak \cup {o} ELSE weak
  BY DEF propagatemark
<1>2. color' \in [Objs -> Colors] BY <1>1 DEF TypeOK, Colors
<1>3. gray' \in SUBSET Lists BY <1>1 DEF TypeOK, Lists
<1>4. grayagain' \in SUBSET Lists /\ weak' \in SUBSET Weak BY <1>1 DEF TypeOK, Lists, Weak
<1>5. MarksTyped' BY <1>2, <1>3, <1>4 DEF MarksTyped, TypeOK, propagatemark
<1>6. HeapTyped' BY TypeParts, UnchangedTypes DEF propagatemark
<1>7. RestTyped' BY DEF RestTyped, TypeOK, propagatemark, finals
<1> QED BY <1>5, <1>6, <1>7, TypeParts

LEMMA AtomicTypes ==
  ASSUME TypeOK, RefTyped,
         remarkupvals \/ RemarkWeak \/ RemarkGrayAgain
  PROVE  (TypeOK /\ RefTyped)'
<1>1. HeapTyped' BY TypeParts, UnchangedTypes DEF remarkupvals, RemarkWeak, RemarkGrayAgain
<1>2. RestTyped'
  BY DEF RestTyped, TypeOK, remarkupvals, RemarkWeak, RemarkGrayAgain, finals, Marking, Atomic
<1>3. CASE remarkupvals
  <2> DEFINE S == UNION {UpValue(u) : u \in {v \in live \cap UpVals :
                                               open[v] # Nil /\ color[v] = "gray"}}
  <2>1. S \in SUBSET Objs BY LinksTyped
  <2>2. reallymarkobject(S) /\ UNCHANGED <<white, grayagain, weak, sweep>>
    BY <1>3 DEF remarkupvals
  <2> HIDE DEF S
  <2>3. MarksTyped' BY <2>1, <2>2, reallymarkobjectTypes
  <2> QED BY <1>1, <1>2, <2>3, TypeParts
<1>4. CASE RemarkWeak \/ RemarkGrayAgain
  <2>1. MarksTyped'
    BY <1>4, Kinds DEF MarksTyped, TypeOK, RemarkWeak, RemarkGrayAgain, Lists
  <2> QED BY <1>1, <1>2, <2>1, TypeParts
<1> QED BY <1>3, <1>4

\* Marking tables colours nothing but these tables.
LEMMA MarkedTables ==
  ASSUME NEW S \in SUBSET Tables
  PROVE  Marked(S) = {o \in S : iswhite(o)}
<1> DEFINE Whs(T) == {o \in T : iswhite(o)}
           A == Whs(S)
           B == A \cup Whs(UNION {Kids(o) : o \in A \cap UpVals})
<1>1. Marked(S) = B \cup Whs(UNION {Kids(o) : o \in B \cap Udata}) BY DEF Marked
<1>2. A \cap UpVals = {} BY Kinds DEF Lists
<1>3. B = A BY <1>2
<1>4. B \cap Udata = {} BY <1>3, Kinds DEF Lists
<1>5. Whs(UNION {Kids(o) : o \in B \cap Udata}) = {} BY <1>4
<1> QED BY <1>1, <1>3, <1>5

LEMMA SeparateUdataTypes ==
  ASSUME TypeOK, RefTyped, SeparateUdata
  PROVE  (TypeOK /\ RefTyped)'
<1>1. HeapTyped' BY TypeParts, UnchangedTypes DEF SeparateUdata
<1>2. /\ tmudata' \in SUBSET HasGC /\ finalized' \in SUBSET Udata
  BY DEF SeparateUdata, TypeOK, NeedFinalizing
<1>3. RestTyped'
  BY <1>2 DEF RestTyped, TypeOK, SeparateUdata, Marking, Atomic
<1> DEFINE S == UNION {ref[u] : u \in tmudata'}
<1>4. S \in SUBSET Tables BY <1>2, Kinds DEF RefTyped
<1>5. Marked(S) \in SUBSET Tables BY <1>4, MarkedTables
<1>6. /\ color' = [o \in Objs |->
            IF o \in tmudata' THEN "black" ELSE IF o \in Marked(S) THEN "gray" ELSE color[o]]
      /\ gray' = Marked(S)
  BY DEF SeparateUdata
<1> HIDE DEF S
<1>7. color' \in [Objs -> Colors] BY <1>6 DEF TypeOK, Colors
<1>8. MarksTyped' BY <1>5, <1>6, <1>7 DEF MarksTyped, TypeOK, Lists, SeparateUdata
<1> QED BY <1>1, <1>3, <1>8, TypeParts

LEMMA FinishAtomicTypes ==
  ASSUME TypeOK, RefTyped, FinishAtomic
  PROVE  (TypeOK /\ RefTyped)'
<1>1. \A t \in Tables : cleartable(t) \subseteq entry[t] BY DEF cleartable
<1>2. entry' \in [Tables -> SUBSET (Vals \X Vals)] BY <1>1 DEF FinishAtomic, TypeOK
<1>3. HeapTyped' BY <1>2 DEF HeapTyped, FinishAtomic, TypeOK, RefTyped
<1>4. color' \in [Objs -> Colors] BY DEF FinishAtomic, TypeOK, Colors
<1>5. MarksTyped' BY <1>4, Whites DEF MarksTyped, FinishAtomic, TypeOK
<1>6. RestTyped' BY DEF RestTyped, TypeOK, FinishAtomic, finals, Sweeping
<1> QED BY <1>3, <1>5, <1>6, TypeParts

\* A write to one stack slot.
LEMMA SlotWritten ==
  ASSUME TypeOK, NEW th \in Threads, NEW i \in Slots, NEW v \in Vals,
         slot' = [slot EXCEPT ![th][i] = v]
  PROVE  /\ slot' \in [Threads -> [Slots -> Vals]]
         /\ \A x \in Threads, j \in Slots :
              slot'[x][j] = IF x = th /\ j = i THEN v ELSE slot[x][j]
<1>1. slot[th] \in [Slots -> Vals] BY DEF TypeOK
<1>2. slot' = [slot EXCEPT ![th] = [slot[th] EXCEPT ![i] = v]] OBVIOUS
<1>3. [slot[th] EXCEPT ![i] = v] \in [Slots -> Vals] BY <1>1
<1>4. slot' \in [Threads -> [Slots -> Vals]] BY <1>2, <1>3 DEF TypeOK
<1>5. \A x \in Threads : x # th => slot'[x] = slot[x] BY <1>2 DEF TypeOK
<1>6. slot'[th] = [slot[th] EXCEPT ![i] = v] BY <1>2 DEF TypeOK
<1>7. \A j \in Slots : slot'[th][j] = IF j = i THEN v ELSE slot[th][j]
  BY <1>1, <1>6
<1> QED BY <1>4, <1>5, <1>7

LEMMA FreeTypes ==
  ASSUME TypeOK, RefTyped, NEW S, Free(S)
  PROVE  HeapTyped' /\ finalized' \in SUBSET Udata
<1>1. live' \in SUBSET Objs /\ finalized' \in SUBSET Udata BY DEF Free, TypeOK
<1>2. \A o \in Objs : ref'[o] = IF o \in S THEN {}
         ELSE IF o \in UpVals /\ open[o] # Nil /\ open[o][1] \in S THEN UpValue(o)
         ELSE ref[o]
  BY DEF Free, TypeOK
<1>3. ref' \in [Objs -> SUBSET Objs] /\ RefTyped'
  <2>1. DOMAIN ref = Objs BY DEF TypeOK
  <2>2. \A o \in Objs : ref'[o] \subseteq Objs BY <1>2, LinksTyped DEF TypeOK
  <2>3. ref' \in [Objs -> SUBSET Objs] BY <2>1, <2>2 DEF Free
  <2>4. \A o \in Strings \cup Tables \cup Threads : ref'[o] = {}
    BY <1>2, Kinds DEF RefTyped, Lists
  <2>5. \A o \in Udata : ref'[o] \subseteq Tables
    BY <1>2, Kinds DEF RefTyped
  <2>6. \A o \in Functions : ref'[o] \subseteq Tables \cup UpVals
    BY <1>2, Kinds DEF RefTyped, Lists
  <2>7. \A o \in UpVals : ref'[o] \cap UpVals = {}
    BY <1>2, LinksTyped, Kinds DEF RefTyped
  <2> QED BY <2>3, <2>4, <2>5, <2>6, <2>7 DEF RefTyped
<1>4. entry' \in [Tables -> SUBSET (Vals \X Vals)] BY DEF Free, TypeOK
<1>5. open' \in [UpVals -> (Threads \X Slots) \cup {Nil}] BY DEF Free, TypeOK
<1>6. slot' \in [Threads -> [Slots -> Vals]] BY DEF Free, TypeOK, Vals
<1> QED BY <1>1, <1>3, <1>4, <1>5, <1>6 DEF HeapTyped

LEMMA SweepTypes ==
  ASSUME TypeOK, RefTyped, sweeplist \/ EndSweepString \/ luaC_freeall
  PROVE  (TypeOK /\ RefTyped)'
<1>1. CASE sweeplist
  <2>1. PICK o : /\ Free(Swept(o))
       /\ color' = [x \in Objs |->
            IF x \in ({o} \cup (IF o \in Threads THEN Opened(o) ELSE {})) \ Swept(o)
            THEN luaC_white ELSE color[x]]
       /\ sweep' = sweep \ {o}
    BY <1>1 DEF sweeplist
  <2>2. HeapTyped' /\ finalized' \in SUBSET Udata BY <2>1, FreeTypes
  <2>3. color' \in [Objs -> Colors] BY <2>1, Whites DEF TypeOK, Colors
  <2>4. MarksTyped' BY <1>1, <2>1, <2>3 DEF MarksTyped, sweeplist, TypeOK
  <2>5. RestTyped' BY <1>1, <2>2 DEF RestTyped, sweeplist, TypeOK
  <2> QED BY <2>2, <2>4, <2>5, TypeParts
<1>2. CASE EndSweepString
  <2>1. HeapTyped' /\ MarksTyped' BY <1>2, TypeParts, UnchangedTypes DEF EndSweepString
  <2>2. RestTyped' BY <1>2 DEF RestTyped, EndSweepString, TypeOK, finals, Sweeping
  <2> QED BY <2>1, <2>2, TypeParts
<1>3. CASE luaC_freeall
  <2>1. HeapTyped' /\ finalized' \in SUBSET Udata BY <1>3, FreeTypes DEF luaC_freeall
  <2>2. MarksTyped' BY <1>3, TypeParts, UnchangedTypes DEF luaC_freeall
  <2>3. RestTyped' BY <1>3, <2>1 DEF RestTyped, luaC_freeall, TypeOK
  <2> QED BY <2>1, <2>2, <2>3, TypeParts
<1> QED BY <1>1, <1>2, <1>3

LEMMA CycleTypes ==
  ASSUME TypeOK, RefTyped, StartCycle \/ EndSweep \/ EndFinalize \/ luaC_fullgc
  PROVE  (TypeOK /\ RefTyped)'
<1>1. HeapTyped'
  BY TypeParts, UnchangedTypes DEF StartCycle, EndSweep, EndFinalize, luaC_fullgc
<1>2. finalized' \in SUBSET Udata /\ tmudata' \in SUBSET HasGC /\ called' \in [Udata -> Nat]
      /\ ops' \in Nat /\ full' \in 0 .. 2
  BY DEF StartCycle, EndSweep, EndFinalize, luaC_fullgc, finals, TypeOK
<1>3. CASE markroot /\ UNCHANGED <<white, sweep>>
  <2>1. MarksTyped' /\ RestTyped'
    BY <1>2, <1>3, markrootTypes DEF RestTyped, Marking
  <2> QED BY <1>1, <2>1, TypeParts
<1>4. CASE UNCHANGED <<marks, garbage>> /\ gcstate' \in {"finalize", "pause"}
  <2>1. MarksTyped' BY <1>4, TypeParts, UnchangedTypes
  <2>2. RestTyped' BY <1>2, <1>4 DEF RestTyped, TypeOK
  <2> QED BY <1>1, <2>1, <2>2, TypeParts
<1>5. CASE luaC_fullgc /\ gcstate # "finalize"
  <2>1. garbage' \in SUBSET Objs BY <1>5 DEF luaC_fullgc
  <2>2. MarksTyped'
    <3>1. CASE gcstate \in {"pause", "propagate"}
      BY <1>5, <3>1, Kinds DEF luaC_fullgc, MarksTyped, TypeOK, Lists, Weak
    <3>2. CASE gcstate \notin {"pause", "propagate"}
      BY <1>5, <3>2, TypeParts, UnchangedTypes DEF luaC_fullgc
    <3> QED BY <3>1, <3>2
  <2>3. RestTyped' BY <1>2, <1>5, <2>1 DEF RestTyped, luaC_fullgc, TypeOK, Sweeping
  <2> QED BY <1>1, <2>2, <2>3, TypeParts
<1>6. CASE EndFinalize BY <1>4, <1>6 DEF EndFinalize
<1>7. CASE EndSweep
  <2>1. CASE full = 1 BY <1>3, <1>7, <2>1 DEF EndSweep
  <2>2. CASE full # 1 BY <1>4, <1>7, <2>2 DEF EndSweep
  <2> QED BY <2>1, <2>2
<1> QED BY <1>3, <1>5, <1>6, <1>7 DEF StartCycle, luaC_fullgc

LEMMA GCTMTypes ==
  ASSUME TypeOK, RefTyped, GCTM
  PROVE  (TypeOK /\ RefTyped)'
<1>1. PICK u \in tmudata :
       /\ tmudata' = tmudata \ {u}
       /\ called' = [called EXCEPT ![u] = @ + 1]
       /\ color' = [color EXCEPT ![u] = luaC_white]
       /\ \/ slot' = slot
          \/ \E i \in Slots : slot[Main][i] = Nil /\ slot' = [slot EXCEPT ![Main][i] = u]
  BY DEF GCTM
<1>2. u \in Udata /\ u \in Vals /\ u \in Objs BY Kinds DEF TypeOK, Vals, Lists
<1>3. slot' \in [Threads -> [Slots -> Vals]]
  <2>1. CASE slot' = slot BY <2>1 DEF TypeOK
  <2>2. ASSUME NEW i \in Slots, slot' = [slot EXCEPT ![Main][i] = u]
        PROVE  slot' \in [Threads -> [Slots -> Vals]]
    BY <1>2, <2>2, SlotWritten, Kinds
  <2> QED BY <1>1, <2>1, <2>2
<1>4. HeapTyped' BY <1>3 DEF HeapTyped, GCTM, TypeOK, RefTyped
<1>5. color' \in [Objs -> Colors] BY <1>1, Whites DEF TypeOK, Colors
<1>6. MarksTyped' BY <1>5 DEF MarksTyped, GCTM, TypeOK
<1>7. RestTyped' BY <1>1, <1>2 DEF RestTyped, GCTM, TypeOK
<1> QED BY <1>4, <1>6, <1>7, TypeParts

\* The parts of a mutation that are the same for every one.
MutateFrame == UNCHANGED <<gcstate, full>> /\ Done

LEMMA RestOfMutation ==
  ASSUME TypeOK, MutateFrame,
         finalized' = finalized, tmudata' = tmudata, called' \in [Udata -> Nat]
  PROVE  RestTyped'
BY DEF MutateFrame, Done, RestTyped, TypeOK

LEMMA NewObjectTypes ==
  ASSUME TypeOK, RefTyped, NEW th \in Threads, NEW i \in Slots, NewObject(th, i), MutateFrame
  PROVE  (TypeOK /\ RefTyped)'
<1>1. PICK o \in (Tables \cup Udata \cup Threads) \ live :
    /\ luaC_link({o})
    /\ ref' = IF o \in Udata THEN [ref EXCEPT ![o] = {Globals}] ELSE ref
    /\ called' = IF o \in Udata THEN [called EXCEPT ![o] = 0] ELSE called
    /\ slot' = [slot EXCEPT ![th][i] = o]
    /\ UNCHANGED <<entry, open, gray, grayagain, weak, sweep, white, finalized, tmudata>>
  BY DEF NewObject
<1>2. o \in Objs /\ o \in Vals BY Kinds DEF Vals, Lists
<1>3. slot' \in [Threads -> [Slots -> Vals]] BY <1>1, <1>2, SlotWritten
<1>4. ref' \in [Objs -> SUBSET Objs] BY <1>1, <1>2, Kinds DEF TypeOK, Lists
<1>5. RefTyped' BY <1>1, <1>2, Kinds DEF TypeOK, RefTyped, Lists
<1>6. live' \in SUBSET Objs /\ color' \in [Objs -> Colors]
  BY <1>1, <1>2, Whites DEF luaC_link, TypeOK, Colors
<1>7. HeapTyped' /\ MarksTyped'
  BY <1>1, <1>3, <1>4, <1>5, <1>6 DEF HeapTyped, MarksTyped, TypeOK
<1>8. RestTyped' BY <1>1, RestOfMutation DEF TypeOK
<1> QED BY <1>7, <1>8, TypeParts

LEMMA luaS_newlstrTypes ==
  ASSUME TypeOK, RefTyped, NEW th \in Threads, NEW i \in Slots, luaS_newlstr(th, i), MutateFrame
  PROVE  (TypeOK /\ RefTyped)'
<1>1. PICK str \in Strings :
    /\ live' = live \cup {str}
    /\ color' = [color EXCEPT ![str] = IF str \in live /\ ~isdead(str) THEN @ ELSE luaC_white]
    /\ slot' = [slot EXCEPT ![th][i] = str]
    /\ UNCHANGED <<ref, entry, open, gray, grayagain, weak, sweep, white, finals>>
  BY DEF luaS_newlstr
<1>2. str \in Objs /\ str \in Vals BY Kinds DEF Vals, Lists
<1>3. slot' \in [Threads -> [Slots -> Vals]] BY <1>1, <1>2, SlotWritten
<1>4. live' \in SUBSET Objs /\ color' \in [Objs -> Colors]
  BY <1>1, <1>2, Whites DEF TypeOK, Colors
<1>5. HeapTyped' /\ MarksTyped'
  BY <1>1, <1>3, <1>4 DEF HeapTyped, MarksTyped, TypeOK, RefTyped
<1>6. RestTyped' BY <1>1, RestOfMutation DEF TypeOK, finals
<1> QED BY <1>5, <1>6, TypeParts

\* The upvalue that luaF_findupval finds or makes.
LEMMA FoundUpval ==
  ASSUME NEW th, NEW j, NEW u \in luaF_findupval(th, j)
  PROVE  /\ u \in UpVals
         /\ u \in live => open[u] = <<th, j>>
BY DEF luaF_findupval, Opened

LEMMA NewClosureTypes ==
  ASSUME TypeOK, RefTyped, NEW th \in Threads, NEW i \in Slots, NewClosure(th, i), MutateFrame
  PROVE  (TypeOK /\ RefTyped)'
<1>1. PICK f \in Functions \ live :
    /\ \/ \E j \in Slots : \E u \in luaF_findupval(th, j) :
            /\ live' = live \cup {f, u}
            /\ color' = [color EXCEPT ![f] = luaC_white,
                                     ![u] = IF u \in live /\ ~isdead(u) THEN @ ELSE luaC_white]
            /\ ref' = [ref EXCEPT ![f] = {Globals, u}]
            /\ open' = [open EXCEPT ![u] = <<th, j>>]
       \/ \E g \in Held(th) \cap Functions : \E u \in ref[g] \cap UpVals :
            /\ luaC_link({f})
            /\ ref' = [ref EXCEPT ![f] = {Globals, u}]
            /\ open' = open
    /\ slot' = [slot EXCEPT ![th][i] = f]
    /\ UNCHANGED <<entry, gray, grayagain, weak, sweep, white, finals>>
  BY DEF NewClosure
<1>2. f \in Objs /\ f \in Vals BY Kinds DEF Vals, Lists
<1>3. slot' \in [Threads -> [Slots -> Vals]] BY <1>1, <1>2, SlotWritten
<1>4. ASSUME NEW u \in UpVals, ref' = [ref EXCEPT ![f] = {Globals, u}]
      PROVE  ref' \in [Objs -> SUBSET Objs] /\ RefTyped'
  BY <1>2, <1>4, Kinds DEF TypeOK, RefTyped, Lists
<1>5. /\ ref' \in [Objs -> SUBSET Objs] /\ RefTyped'
      /\ live' \in SUBSET Objs /\ color' \in [Objs -> Colors]
      /\ open' \in [UpVals -> (Threads \X Slots) \cup {Nil}]
  <2>1. ASSUME NEW j \in Slots, NEW u \in luaF_findupval(th, j),
               live' = live \cup {f, u},
               color' = [color EXCEPT ![f] = luaC_white,
                                     ![u] = IF u \in live /\ ~isdead(u) THEN @ ELSE luaC_white],
               ref' = [ref EXCEPT ![f] = {Globals, u}],
               open' = [open EXCEPT ![u] = <<th, j>>]
        PROVE  <1>5!:
    <3>1. u \in UpVals /\ u \in Objs BY FoundUpval, Kinds
    <3>2. live' \in SUBSET Objs BY <1>2, <2>1, <3>1 DEF TypeOK
    <3>3. color' \in [Objs -> Colors] BY <1>2, <2>1, <3>1, Whites DEF TypeOK, Colors
    <3>4. open' \in [UpVals -> (Threads \X Slots) \cup {Nil}]
      <4>1. <<th, j>> \in Threads \X Slots OBVIOUS
      <4> QED BY <2>1, <3>1, <4>1 DEF TypeOK
    <3> QED BY <1>4, <2>1, <3>1, <3>2, <3>3, <3>4
  <2>2. ASSUME NEW g \in Functions, NEW u \in ref[g] \cap UpVals,
               luaC_link({f}), ref' = [ref EXCEPT ![f] = {Globals, u}], open' = open
        PROVE  <1>5!:
    <3>1. live' \in SUBSET Objs /\ color' \in [Objs -> Colors]
      BY <1>2, <2>2, Whites DEF luaC_link, TypeOK, Colors
    <3> QED BY <1>4, <2>2, <3>1 DEF TypeOK
  <2> QED BY <1>1, <2>1, <2>2
<1>6. HeapTyped' /\ MarksTyped'
  BY <1>1, <1>3, <1>5 DEF HeapTyped, MarksTyped, TypeOK
<1>7. RestTyped' BY <1>1, RestOfMutation DEF TypeOK, finals
<1> QED BY <1>6, <1>7, TypeParts

\* What a thread can read is a value.
LEMMA ReadsTyped ==
  ASSUME TypeOK, RefTyped, NEW o \in Objs \ UpVals
  PROVE  Reads(o) \subseteq Objs \ UpVals
<1>1. CASE o \in Tables BY <1>1, LinksTyped DEF Reads
<1>2. CASE o \in Functions
  <2> DEFINE values == UNION {UpValue(u) : u \in ref[o] \cap UpVals}
  <2>0. o \notin Tables BY <1>2, Kinds
  <2>1. Reads(o) = values \cup (ref[o] \cap Tables) BY <1>2, <2>0 DEF Reads
  <2>2. \A u \in UpVals : UpValue(u) \subseteq Objs \ UpVals BY LinksTyped
  <2>3. values \subseteq Objs \ UpVals BY <2>2
  <2>4. ref[o] \cap Tables \subseteq Objs \ UpVals BY Kinds DEF Lists
  <2> HIDE DEF values
  <2> QED BY <2>1, <2>3, <2>4
<1>3. CASE o \in Threads BY <1>3, LinksTyped, Kinds DEF Reads
<1>4. CASE o \in Udata \cup Strings
  <2>1. Reads(o) = ref[o] BY <1>4, Kinds DEF Reads, Lists
  <2> QED BY <1>4, <2>1, Kinds DEF RefTyped, Lists
<1> QED BY <1>1, <1>2, <1>3, <1>4, Kinds DEF Lists

LEMMA MoveToTypes ==
  ASSUME TypeOK, RefTyped, NEW th \in Threads, NEW i \in Slots, MoveTo(th, i), MutateFrame
  PROVE  (TypeOK /\ RefTyped)'
<1>1. PICK v \in {Nil} \cup UNION {Reads(o) : o \in Held(th) \cup {Globals, th}} :
    /\ slot' = [slot EXCEPT ![th][i] = v]
    /\ UNCHANGED <<live, ref, entry, open, marks, finals>>
  BY DEF MoveTo
<1>2. v \in Vals
  <2>1. Held(th) \cup {Globals, th} \subseteq Objs \ UpVals BY LinksTyped, Kinds DEF Lists
  <2> QED BY <2>1, ReadsTyped DEF Vals
<1>3. slot' \in [Threads -> [Slots -> Vals]] BY <1>1, <1>2, SlotWritten
<1>4. HeapTyped' BY <1>1, <1>3 DEF HeapTyped, TypeOK, RefTyped
<1>5. MarksTyped' BY <1>1, TypeParts, UnchangedTypes
<1>6. RestTyped' BY <1>1, RestOfMutation DEF TypeOK, finals
<1> QED BY <1>4, <1>5, <1>6, TypeParts

LEMMA SetTableTypes ==
  ASSUME TypeOK, RefTyped, NEW th \in Threads, SetTable(th), MutateFrame
  PROVE  (TypeOK /\ RefTyped)'
<1>1. PICK t \in (Held(th) \cup {Globals}) \cap Tables,
           k \in Held(th) \cup {Nil}, v \in Held(th) \cup {Nil} :
    LET rest == {p \in entry[t] : p[1] # k} IN
    /\ entry' = [entry EXCEPT ![t] = IF v = Nil THEN rest ELSE rest \cup {<<k, v>>}]
    /\ luaC_barriert(t, ({v} \cup IF rest = entry[t] THEN {k} ELSE {}) \ {Nil})
    /\ UNCHANGED <<live, ref, slot, open, finals>>
  BY DEF SetTable
<1>2. k \in Vals /\ v \in Vals BY LinksTyped DEF Vals
<1>3. entry' \in [Tables -> SUBSET (Vals \X Vals)]
  <2> DEFINE rest == {p \in entry[t] : p[1] # k}
             new == IF v = Nil THEN rest ELSE rest \cup {<<k, v>>}
  <2>1. new \in SUBSET (Vals \X Vals) BY <1>2 DEF TypeOK
  <2>2. entry' = [entry EXCEPT ![t] = new] BY <1>1
  <2> HIDE DEF new
  <2> QED BY <2>1, <2>2 DEF TypeOK
<1>4. HeapTyped' BY <1>1, <1>3 DEF HeapTyped, TypeOK, RefTyped
<1>5. MarksTyped'
  <2>1. CASE UNCHANGED marks BY <2>1, TypeParts, UnchangedTypes
  <2>2. CASE /\ color' = [color EXCEPT ![t] = "gray"]
             /\ grayagain' = grayagain \cup {t}
             /\ UNCHANGED <<gray, weak, sweep, white>>
    BY <2>2 DEF MarksTyped, TypeOK, Lists, Colors
  <2> QED BY <1>1, <2>1, <2>2 DEF luaC_barriert
<1>6. RestTyped' BY <1>1, RestOfMutation DEF TypeOK, finals
<1> QED BY <1>4, <1>5, <1>6, TypeParts

LEMMA luaC_barrierTypes ==
  ASSUME TypeOK, RefTyped, NEW o \in Objs, NEW v \in Vals, luaC_barrier(o, v)
  PROVE  MarksTyped'
<1>1. CASE UNCHANGED marks BY <1>1, TypeParts, UnchangedTypes
<1>2. CASE v # Nil /\ reallymarkobject({v}) /\ UNCHANGED <<grayagain, weak, sweep, white>>
  <2>1. {v} \in SUBSET Objs BY <1>2 DEF Vals
  <2> QED BY <1>2, <2>1, reallymarkobjectTypes
<1>3. CASE color' = [color EXCEPT ![o] = luaC_white]
           /\ UNCHANGED <<gray, grayagain, weak, sweep, white>>
  BY <1>3, Whites DEF MarksTyped, TypeOK, Colors
<1> QED BY <1>1, <1>2, <1>3 DEF luaC_barrier

LEMMA SetUpvalTypes ==
  ASSUME TypeOK, RefTyped, NEW th \in Threads, SetUpval(th), MutateFrame
  PROVE  (TypeOK /\ RefTyped)'
<1>1. PICK f \in Held(th) \cap Functions : \E u \in ref[f] \cap UpVals, v \in Held(th) \cup {Nil} :
    /\ UpValue(u) # {v} \ {Nil}
    /\ IF open[u] = Nil
       THEN /\ ref' = [ref EXCEPT ![u] = {v} \ {Nil}]
            /\ slot' = slot
       ELSE /\ slot' = [slot EXCEPT ![open[u][1]][open[u][2]] = v]
            /\ ref' = ref
    /\ luaC_barrier(u, v)
    /\ UNCHANGED <<live, entry, open, finals>>
  BY DEF SetUpval
<1>2. PICK u \in ref[f] \cap UpVals, v \in Held(th) \cup {Nil} : <1>1!(f)!(u, v)
  BY <1>1
<1>3. u \in Objs /\ v \in Vals BY LinksTyped, Kinds DEF Vals
<1>4. HeapTyped'
  <2>1. CASE open[u] = Nil
    <3>1. ref' = [ref EXCEPT ![u] = {v} \ {Nil}] BY <1>2, <2>1
    <3>2. ref' \in [Objs -> SUBSET Objs] /\ RefTyped'
      BY <1>3, <3>1, Kinds DEF TypeOK, RefTyped, Vals, Lists
    <3> QED BY <1>2, <2>1, <3>2 DEF HeapTyped, TypeOK
  <2>2. CASE open[u] # Nil
    <3>1. open[u][1] \in Threads /\ open[u][2] \in Slots BY <2>2 DEF TypeOK
    <3>2. slot' \in [Threads -> [Slots -> Vals]]
      BY <1>2, <1>3, <2>2, <3>1, SlotWritten
    <3> QED BY <1>2, <2>2, <3>2 DEF HeapTyped, TypeOK, RefTyped
  <2> QED BY <2>1, <2>2
<1>5. MarksTyped' BY <1>2, <1>3, luaC_barrierTypes
<1>6. RestTyped' BY <1>2, RestOfMutation DEF TypeOK, finals
<1> QED BY <1>4, <1>5, <1>6, TypeParts

LEMMA SetEnvTypes ==
  ASSUME TypeOK, RefTyped, NEW th \in Threads, SetEnv(th), MutateFrame
  PROVE  (TypeOK /\ RefTyped)'
<1>1. PICK o \in Held(th) \cap (Functions \cup Udata), t \in Held(th) \cap Tables :
    /\ t \notin ref[o]
    /\ ref' = [ref EXCEPT ![o] = (@ \ Tables) \cup {t}]
    /\ luaC_barrier(o, t)
    /\ UNCHANGED <<live, entry, slot, open, finals>>
  BY DEF SetEnv
<1>2. o \in Objs /\ t \in Objs /\ t \in Vals BY Kinds DEF Vals, Lists
<1>3. ref' \in [Objs -> SUBSET Objs] BY <1>1, <1>2 DEF TypeOK
<1>4. RefTyped' BY <1>1, <1>2, Kinds DEF TypeOK, RefTyped, Lists
<1>5. HeapTyped' BY <1>1, <1>3, <1>4 DEF HeapTyped, TypeOK
<1>6. MarksTyped' BY <1>1, <1>2, luaC_barrierTypes
<1>7. RestTyped' BY <1>1, RestOfMutation DEF TypeOK, finals
<1> QED BY <1>5, <1>6, <1>7, TypeParts

LEMMA luaF_closeTypes ==
  ASSUME TypeOK, RefTyped, NEW th \in Threads, NEW i, luaF_close(th, i)
  PROVE  HeapTyped' /\ MarksTyped'
<1>1. PICK closed \in {{u \in Opened(th) : open[u][2] >= i}} :
    LET lost  == {u \in closed : isdead(u)}
        grays == {u \in closed : color[u] = "gray"}
    IN
    /\ live' = live \ lost
    /\ ref' = [o \in DOMAIN ref |->
         IF o \in lost THEN {} ELSE IF o \in closed THEN UpValue(o) ELSE ref[o]]
    /\ open' = [u \in UpVals |-> IF u \in closed THEN Nil ELSE open[u]]
    /\ slot' = [slot EXCEPT ![th] = [j \in Slots |-> IF j >= i THEN Nil ELSE @[j]]]
    /\ IF gcstate = "propagate"
       THEN \E new \in {Marked(UNION {UpValue(u) : u \in grays})} :
              /\ color' = [o \in Objs |->
                   IF o \in grays \/ (o \in new /\ o \in Udata \cup UpVals) THEN "black"
                   ELSE IF o \in new THEN "gray" ELSE color[o]]
              /\ gray' = gray \cup (new \cap (Tables \cup Functions \cup Threads))
       ELSE /\ color' = [o \in Objs |-> IF o \in grays THEN luaC_white ELSE color[o]]
            /\ gray' = gray
    /\ UNCHANGED <<entry, grayagain, weak, sweep, white>>
  BY DEF luaF_close
<1> DEFINE lost  == {u \in closed : isdead(u)}
           grays == {u \in closed : color[u] = "gray"}
           new   == Marked(UNION {UpValue(u) : u \in grays})
<1>2. closed \subseteq UpVals BY DEF Opened
<1>3. /\ live' = live \ lost
      /\ ref' = [o \in DOMAIN ref |->
           IF o \in lost THEN {} ELSE IF o \in closed THEN UpValue(o) ELSE ref[o]]
      /\ gcstate = "propagate" =>
           /\ color' = [o \in Objs |->
                IF o \in grays \/ (o \in new /\ o \in Udata \cup UpVals) THEN "black"
                ELSE IF o \in new THEN "gray" ELSE color[o]]
           /\ gray' = gray \cup (new \cap (Tables \cup Functions \cup Threads))
      /\ gcstate # "propagate" =>
           /\ color' = [o \in Objs |-> IF o \in grays THEN luaC_white ELSE color[o]]
           /\ gray' = gray
  BY <1>1
<1> HIDE DEF lost, grays, new
<1>4. ref' \in [Objs -> SUBSET Objs] /\ RefTyped'
  <2>1. \A o \in Objs : ref'[o] =
           IF o \in lost THEN {} ELSE IF o \in closed THEN UpValue(o) ELSE ref[o]
    BY <1>3 DEF TypeOK
  <2>2. \A o \in Objs : ref'[o] \subseteq Objs BY <1>2, <2>1, LinksTyped DEF TypeOK
  <2>3. ref' \in [Objs -> SUBSET Objs] BY <1>3, <2>2 DEF TypeOK
  <2>4. \A o \in Strings \cup Tables \cup Threads : ref'[o] = {}
    BY <1>2, <2>1, Kinds DEF RefTyped, Lists
  <2>5. \A o \in Udata : ref'[o] \subseteq Tables
    BY <1>2, <2>1, Kinds DEF RefTyped
  <2>6. \A o \in Functions : ref'[o] \subseteq Tables \cup UpVals
    BY <1>2, <2>1, Kinds DEF RefTyped, Lists
  <2>7. \A o \in UpVals : ref'[o] \cap UpVals = {}
    BY <2>1, LinksTyped, Kinds DEF RefTyped
  <2> QED BY <2>3, <2>4, <2>5, <2>6, <2>7 DEF RefTyped
<1>5. slot' \in [Threads -> [Slots -> Vals]]
  <2>1. [j \in Slots |-> IF j >= i THEN Nil ELSE slot[th][j]] \in [Slots -> Vals]
    BY DEF TypeOK, Vals
  <2>2. slot' = [slot EXCEPT ![th] = [j \in Slots |-> IF j >= i THEN Nil ELSE slot[th][j]]]
    BY <1>1
  <2> QED BY <2>1, <2>2 DEF TypeOK
<1>6. open' \in [UpVals -> (Threads \X Slots) \cup {Nil}] BY <1>1 DEF TypeOK
<1>7. HeapTyped' BY <1>1, <1>3, <1>4, <1>5, <1>6 DEF HeapTyped, TypeOK
<1>8. color' \in [Objs -> Colors] /\ gray' \in SUBSET Lists
  <2>1. CASE gcstate = "propagate"
    BY <1>3, <2>1 DEF TypeOK, Colors, Lists
  <2>2. CASE gcstate # "propagate"
    BY <1>3, <2>2, Whites DEF TypeOK, Colors
  <2> QED BY <2>1, <2>2
<1>9. MarksTyped' BY <1>1, <1>8 DEF MarksTyped, TypeOK
<1> QED BY <1>7, <1>9

LEMMA lua_closeTypes ==
  ASSUME TypeOK, RefTyped, lua_close
  PROVE  (TypeOK /\ RefTyped)'
<1>1. HeapTyped' /\ MarksTyped' BY Kinds, luaF_closeTypes DEF lua_close
<1>2. RestTyped' BY DEF lua_close, RestTyped, TypeOK, NeedFinalizing
<1> QED BY <1>1, <1>2, TypeParts

LEMMA MutateTypes ==
  ASSUME TypeOK, RefTyped, Mutate
  PROVE  (TypeOK /\ RefTyped)'
<1>1. MutateFrame BY DEF Mutate, MutateFrame
<1>2. PICK th \in Current :
       \/ \E i \in Slots : \/ NewObject(th, i) \/ luaS_newlstr(th, i) \/ NewClosure(th, i)
                          \/ MoveTo(th, i) \/ Return(th, i)
       \/ SetTable(th) \/ SetUpval(th) \/ SetEnv(th)
  BY DEF Mutate
<1>3. th \in Threads BY DEF Current
<1>4. ASSUME NEW i \in Slots, Return(th, i) PROVE (TypeOK /\ RefTyped)'
  <2>1. HeapTyped' /\ MarksTyped' BY <1>3, <1>4, luaF_closeTypes DEF Return
  <2>2. RestTyped' BY <1>1, <1>4, RestOfMutation DEF Return, TypeOK, finals
  <2> QED BY <2>1, <2>2, TypeParts
<1>5. ASSUME NEW i \in Slots,
             NewObject(th, i) \/ luaS_newlstr(th, i) \/ NewClosure(th, i) \/ MoveTo(th, i)
      PROVE  (TypeOK /\ RefTyped)'
  BY <1>1, <1>3, <1>5, NewObjectTypes, luaS_newlstrTypes, NewClosureTypes, MoveToTypes
<1> QED BY <1>1, <1>2, <1>3, <1>4, <1>5, SetTableTypes, SetUpvalTypes, SetEnvTypes

\* Every step keeps the types.
LEMMA NextTypes ==
  ASSUME TypeOK, RefTyped, [Next]_vars
  PROVE  (TypeOK /\ RefTyped)'
<1>1. CASE UNCHANGED vars
  <2>1. HeapTyped' /\ MarksTyped' BY <1>1, TypeParts, UnchangedTypes DEF vars
  <2>2. RestTyped' BY <1>1 DEF vars, finals, RestTyped, TypeOK
  <2> QED BY <2>1, <2>2, TypeParts
<1>2. CASE singlestep
  BY <1>2, CycleTypes, propagatemarkTypes, AtomicTypes, SeparateUdataTypes,
     FinishAtomicTypes, SweepTypes, GCTMTypes DEF singlestep
<1> QED BY <1>1, <1>2, MutateTypes, CycleTypes, lua_closeTypes, SweepTypes DEF Next

--------------------------------------------------------------------------------
(* What can be reached is alive.                                                *)

\* An alive object refers to alive objects.
LEMMA KeepsAlive ==
  ASSUME TypeOK, RefTyped, Closed, gcstate # "closed"
  PROVE  \A o \in Alive : Kids(o) \subseteq Alive /\ Keeps(o) \subseteq Alive
<1>1. ASSUME NEW t \in Alive \cap Tables
      PROVE  AllEntries(t) \subseteq Alive /\ Kids(t) \subseteq Alive
  <2>1. \A p \in entry[t] : {p[1], p[2]} \subseteq Alive \cup {Nil} BY DEF Closed
  <2>2. AllEntries(t) \subseteq Alive BY <2>1 DEF AllEntries
  <2> QED BY <2>2, KidsByType, LinksTyped
<1>2. ASSUME NEW th \in Alive \cap Threads PROVE Kids(th) \subseteq Alive
  <2>1. Held(th) \subseteq Alive BY DEF Closed, Held
  <2> QED BY <2>1, KidsByType DEF Closed
<1>3. ASSUME NEW u \in Alive \cap UpVals PROVE Kids(u) \subseteq Alive
  <2>1. UpValue(u) \subseteq Alive BY DEF Closed, UpValue
  <2> QED BY <2>1, KidsByType
<1>4. ASSUME NEW o \in Alive \cap (Functions \cup Udata \cup Strings) PROVE Kids(o) \subseteq Alive
  BY KidsByType DEF Closed
<1>5. Alive \subseteq Objs BY DEF Alive, TypeOK
<1>6. ASSUME NEW o \in Alive PROVE Kids(o) \subseteq Alive
  BY <1>1, <1>2, <1>3, <1>4, <1>5, Kinds DEF Lists
<1> QED BY <1>1, <1>6 DEF Keeps

\* So is everything that is reached from alive objects.
LEMMA ReachedAlive ==
  ASSUME TypeOK, RefTyped, Closed, gcstate # "closed", NEW S \in SUBSET Alive
  PROVE  ReachFrom(S) \subseteq Alive
<1>1. Cardinality(Objs) \in Nat BY HeapAssumption, FS_CardinalityType
<1>2. \A o \in Alive : Keeps(o) \subseteq Alive BY KeepsAlive
<1> QED BY <1>1, <1>2, ReachFromClosed

\* The program runs in threads that are alive.
LEMMA CurrentAlive ==
  ASSUME TypeOK, RefTyped, Closed, gcstate # "closed"
  PROVE  Current \subseteq Alive \cap Threads
<1>1. {Main} \subseteq Alive BY DEF Closed
<1>2. Reachable \subseteq Alive BY <1>1, ReachedAlive DEF Reachable
<1> QED BY <1>2 DEF Current

\* What can be reached is allocated, also through weak tables.
LEMMA HeapInvSafe ==
  ASSUME HeapInv
  PROVE  ReachableLive
<1> SUFFICES ASSUME gcstate # "closed"
             PROVE  /\ ReachFrom({Main} \cup tmudata) \subseteq live
                    /\ \A t \in ReachFrom({Main} \cup tmudata) \cap Tables :
                         AllEntries(t) \subseteq live
  BY DEF ReachableLive
<1>1. TypeOK /\ RefTyped /\ Closed BY DEF HeapInv
<1>2. {Main} \cup tmudata \subseteq Alive BY DEF HeapInv, FinInv, Closed
<1>3. ReachFrom({Main} \cup tmudata) \subseteq Alive BY <1>1, <1>2, ReachedAlive
<1>4. Alive \subseteq live BY DEF Alive
<1>5. \A t \in Alive \cap Tables : AllEntries(t) \subseteq Alive
  BY <1>1 DEF Closed, AllEntries
<1> QED BY <1>3, <1>4, <1>5

\* The colours are apart while marking.
LEMMA HeapInvTriColour ==
  ASSUME HeapInv
  PROVE  TriColour
BY DEF HeapInv, MarkInv, SweepInv, TriColour, KidsMarked, Lists, Marking

--------------------------------------------------------------------------------
(* The initial state.                                                           *)

LEMMA InitInv == Init => HeapInv
<1> SUFFICES ASSUME Init PROVE HeapInv
  OBVIOUS
<1>1. TypeOK /\ RefTyped BY InitTypes
<1>2. PICK h \in Heaps : /\ live = h.live /\ ref = h.ref /\ entry = h.entry
                         /\ slot = h.slot /\ open = h.open
  BY DEF Init
<1>3. IsHeap(h) BY HeapAssumption
<1>4. /\ color = [o \in Objs |-> "white0"] /\ white = "white0"
      /\ gcstate = "pause" /\ sweep = {} /\ finalized = {} /\ tmudata = {}
      /\ called = [u \in Udata |-> 0]
  BY DEF Init
<1>5. Alive = live BY <1>1, <1>4 DEF Alive, isdead, otherwhite, TypeOK
<1>6. \A t \in Tables : \A p \in entry[t] :
        t \in live /\ {p[1], p[2]} \subseteq live \cup {Nil}
  BY <1>2, <1>3 DEF IsHeap
<1>7. \A th \in Threads, i \in Slots :
        slot[th][i] # Nil => {th, slot[th][i]} \subseteq live
  BY <1>2, <1>3 DEF IsHeap
<1>8. Closed
  <2>1. {Main, Globals} \subseteq Alive BY <1>2, <1>3, <1>5 DEF IsHeap
  <2>2. \A t \in Alive \cap Tables : \A p \in entry[t] : {p[1], p[2]} \subseteq Alive \cup {Nil}
    BY <1>5, <1>6
  <2>3. \A th \in Threads, i \in Slots : slot[th][i] \in Alive \cup {Nil} BY <1>5, <1>7
  <2>4. \A o \in live : ref[o] \subseteq live BY <1>2, <1>3, <1>1 DEF IsHeap, TypeOK
  <2>5. \A u \in UpVals : open[u] # Nil => open[u][1] \in Threads /\ open[u][2] \in Slots
    BY <1>1 DEF TypeOK
  <2>6. \A u \in Alive \cap UpVals :
          IF open[u] = Nil THEN ref[u] \subseteq Alive
          ELSE slot[open[u][1]][open[u][2]] \in Alive \cup {Nil}
    BY <1>5, <2>3, <2>4, <2>5
  <2>7. \A o \in Alive \cap (Functions \cup Udata) : ref[o] \subseteq Alive BY <1>5, <2>4
  <2>8. \A t \in Tables \ live : entry[t] = {} BY <1>6
  <2>9. \A th \in Threads \ live, i \in Slots : slot[th][i] = Nil BY <1>7
  <2>10. \A u \in live \cap UpVals : open[u] # Nil => open[u][1] \in live
    BY <1>2, <1>3 DEF IsHeap
  <2> QED BY <2>1, <2>2, <2>3, <2>6, <2>7, <2>8, <2>9, <2>10 DEF Closed
<1>9. SweepInv
  BY <1>1, <1>4, Kinds DEF SweepInv, TypeOK, Marking, Atomic, Lists
<1>10. MarkInv BY <1>4 DEF MarkInv, Marking, Atomic
<1>11. FinInv BY <1>1, <1>4, Kinds DEF FinInv, TypeOK, Sweeping
<1> QED BY <1>1, <1>8, <1>9, <1>10, <1>11 DEF HeapInv

--------------------------------------------------------------------------------
(* Steps that only mark: the heap stays and objects turn gray or black.          *)

NoneDead == sweep = {} /\ \A o \in live : color[o] # otherwhite

Darkens ==
  /\ \A o \in Objs : color'[o] = color[o] \/ color'[o] \in {"gray", "black"}
  /\ \A u \in UpVals : open[u] # Nil /\ color'[u] = "black" => color[u] = "black"
  /\ \A o \in Threads \cup Weak : color'[o] = "black" => color[o] = "black"

\* Closed and SweepInv only look at the heap, the whites and the sweep.
LEMMA ClosedKept ==
  ASSUME Closed, UNCHANGED heap, Alive' = Alive, gcstate' # "closed" => gcstate # "closed"
  PROVE  Closed'
BY DEF Closed, heap

LEMMA AliveIfNoneDead ==
  /\ TypeOK /\ NoneDead => Alive = live
  /\ TypeOK' /\ NoneDead' => Alive' = live'
<1>1. TypeOK /\ NoneDead => Alive = live
  BY DEF TypeOK, NoneDead, Alive, isdead
<1>2. TypeOK' /\ NoneDead' => Alive' = live'
  BY DEF TypeOK, NoneDead, Alive, isdead, otherwhite
<1> QED BY <1>1, <1>2

\* Nothing is dead when a cycle starts and while it marks.
LEMMA NoneDeadWhen ==
  ASSUME TypeOK, SweepInv,
         gcstate \in Marking \cup {"pause", "finalize"} \/ (gcstate = "sweep" /\ sweep = {})
  PROVE  /\ NoneDead
         /\ gcstate \notin Marking => \A o \in live : color[o] = white
<1>1. sweep = {} BY DEF SweepInv
<1>2. \A o : ~Pending(o) BY <1>1 DEF Pending
<1> QED BY <1>1, <1>2, Whites DEF SweepInv, NoneDead, Sweeping

LEMMA MarkStep ==
  ASSUME TypeOK, TypeOK', Closed, SweepInv, NoneDead, Darkens,
         gcstate' \in Marking, UNCHANGED <<heap, white, sweep>>, gcstate # "closed"
  PROVE  Closed' /\ SweepInv'
<1>1. otherwhite' = otherwhite BY DEF otherwhite
<1>2. NoneDead'
  <2>1. \A o \in live : color'[o] # otherwhite
    BY Whites DEF Darkens, NoneDead, TypeOK
  <2> QED BY <1>1, <2>1 DEF NoneDead, heap
<1>3. Alive' = Alive BY <1>2, AliveIfNoneDead DEF heap
<1>4. Closed' BY <1>3, ClosedKept DEF Marking, Atomic
<1>5. SweepInv'
  <2>1. \A u \in live \cap UpVals : open[u] # Nil => color'[u] # "black"
    BY DEF SweepInv, Darkens
  <2>2. \A o \in Threads \cup Weak : color'[o] # "black" BY DEF SweepInv, Darkens
  <2> QED BY <1>2, <2>1, <2>2 DEF SweepInv, NoneDead, heap, Marking, Atomic, Sweeping
<1> QED BY <1>4, <1>5

\* What is marked stays marked, and so do the children of an object.
LEMMA MarkedStays ==
  ASSUME TypeOK, RefTyped, Darkens, UNCHANGED heap
  PROVE  /\ \A o \in Objs : ~iswhite(o) => ~iswhite(o)'
         /\ \A o \in Objs : Kids(o)' = Kids(o)
         /\ \A o \in Objs : KidsMarked(o) => KidsMarked(o)'
<1>1. \A o \in Objs : ~iswhite(o) => ~iswhite(o)' BY DEF Darkens, iswhite
<1>2. \A o \in Objs : Kids(o)' = Kids(o) BY DEF Kids, Entries, Held, UpValue, heap
<1> QED BY <1>1, <1>2, KidsByType DEF KidsMarked

\* reallymarkobject for the white objects of S, also when the heap changes.
LEMMA reallymarkobjectFacts ==
  ASSUME TypeOK, RefTyped, NEW S \in SUBSET Objs, reallymarkobject(S)
  PROVE  /\ Darkens
         /\ \A o \in S : ~iswhite(o)'
         /\ \A o \in Objs : color'[o] = "black" =>
              \/ color[o] = "black"
              \/ o \in Udata \cup (UpVals \cap S) /\ \A v \in Kids(o) : ~iswhite(v)'
         /\ gray \subseteq gray'
         /\ \A o \in Lists : color'[o] = "gray" => color[o] = "gray" \/ o \in gray'
         /\ \A u \in UpVals : color'[u] = "gray" => color[u] = "gray" \/ (open[u] # Nil /\ u \in S)
         /\ \A u \in Udata : color'[u] = "gray" => color[u] = "gray"
<1> DEFINE new == Marked(S)
<1>1. /\ color' = [o \in Objs |->
            IF o \notin new THEN color[o]
            ELSE IF o \in Udata \/ (o \in UpVals /\ open[o] = Nil) THEN "black"
            ELSE "gray"]
      /\ gray' = gray \cup (new \cap Lists)
  BY DEF reallymarkobject, Lists
<1>2. /\ new \subseteq Objs
      /\ \A o \in new : iswhite(o)
      /\ \A o \in S : iswhite(o) => o \in new
      /\ \A o \in new \cap (Udata \cup UpVals) : \A v \in Kids(o) : iswhite(v) => v \in new
      /\ new \cap UpVals \subseteq S
  BY MarkedFacts
<1> HIDE DEF new
<1>3. Darkens BY <1>1, Kinds DEF Darkens, Lists
<1>4. /\ \A o \in new : ~iswhite(o)'
      /\ \A o \in Objs : ~iswhite(o) => ~iswhite(o)'
  BY <1>1, <1>2 DEF iswhite
<1>5. \A o \in S : ~iswhite(o)' BY <1>2, <1>4
<1>6. ASSUME NEW o \in Objs, color'[o] = "black", color[o] # "black"
      PROVE  o \in Udata \cup (UpVals \cap S) /\ \A v \in Kids(o) : ~iswhite(v)'
  <2>1. o \in new \cap (Udata \cup UpVals) BY <1>1, <1>6
  <2>2. \A v \in Kids(o) : v \in Objs BY KidsByType
  <2>3. \A v \in Kids(o) : ~iswhite(v)' BY <1>2, <1>4, <2>1, <2>2
  <2> QED BY <1>2, <2>1, <2>3
<1>7. gray \subseteq gray' /\ \A o \in Lists : color'[o] = "gray" => color[o] = "gray" \/ o \in gray'
  BY <1>1, Kinds
<1>8. /\ \A u \in UpVals : color'[u] = "gray" => color[u] = "gray" \/ (open[u] # Nil /\ u \in S)
      /\ \A u \in Udata : color'[u] = "gray" => color[u] = "gray"
  BY <1>1, <1>2, Kinds
<1> QED BY <1>3, <1>5, <1>6, <1>7, <1>8

\* A cycle starts: all of the heap is white but the roots.
LEMMA markrootInv ==
  ASSUME TypeOK, TypeOK', RefTyped, Closed, SweepInv, markroot, UNCHANGED <<heap, white, sweep>>,
         gcstate \in {"pause", "finalize"} \/ (gcstate = "sweep" /\ sweep = {})
  PROVE  Closed' /\ SweepInv' /\ MarkInv'
<1>1. NoneDead /\ \A o \in live : color[o] = white
  BY NoneDeadWhen DEF Marking, Atomic
<1>2. /\ color' = [o \in Objs |-> IF o \in {Main, Globals} /\ iswhite(o) THEN "gray" ELSE color[o]]
      /\ gray' = {o \in {Main, Globals} : iswhite(o)}
      /\ grayagain' = {} /\ weak' = {} /\ gcstate' = "propagate"
  BY DEF markroot
<1>3. Darkens BY <1>2, Kinds DEF Darkens, Lists
<1>4. Closed' /\ SweepInv' BY <1>1, <1>2, <1>3, MarkStep DEF Marking
<1>5. white \in {"white0", "white1"} BY DEF TypeOK
<1>6. /\ \A o \in live : color'[o] # "black"
      /\ \A o \in live : color'[o] = "gray" => o \in {Main, Globals} /\ o \in gray'
  BY <1>1, <1>2, <1>5 DEF TypeOK, iswhite
<1>7. ~iswhite(Main)' /\ ~iswhite(Globals)'
  BY <1>2, Kinds DEF iswhite, Lists
<1>8. MarkInv'
  BY <1>2, <1>6, <1>7, Kinds DEF MarkInv, heap, Atomic, Lists
<1> QED BY <1>4, <1>8

\* Traversing a gray object.
LEMMA propagatemarkInv ==
  ASSUME TypeOK, TypeOK', RefTyped, Closed, SweepInv, MarkInv, propagatemark
  PROVE  Closed' /\ SweepInv' /\ MarkInv'
<1>1. PICK o \in Pick(gray) : \E new \in {Marked(Kids(o))} :
       /\ color' = [x \in Objs |->
            IF x = o THEN IF o \in Threads \cup WeakK \cup WeakV THEN "gray" ELSE "black"
            ELSE IF x \notin new THEN color[x]
            ELSE IF x \in Udata \/ (x \in UpVals /\ open[x] = Nil) THEN "black"
            ELSE "gray"]
       /\ gray' = (gray \ {o}) \cup (new \cap (Tables \cup Functions \cup Threads))
       /\ grayagain' = IF o \in Threads THEN grayagain \cup {o} ELSE grayagain
       /\ weak' = IF o \in WeakK \cup WeakV THEN weak \cup {o} ELSE weak
  BY DEF propagatemark
<1> DEFINE new == Marked(Kids(o))
<1>2. /\ color' = [x \in Objs |->
            IF x = o THEN IF o \in Threads \cup Weak THEN "gray" ELSE "black"
            ELSE IF x \notin new THEN color[x]
            ELSE IF x \in Udata \/ (x \in UpVals /\ open[x] = Nil) THEN "black"
            ELSE "gray"]
      /\ gray' = (gray \ {o}) \cup (new \cap Lists)
      /\ grayagain' = IF o \in Threads THEN grayagain \cup {o} ELSE grayagain
      /\ weak' = IF o \in Weak THEN weak \cup {o} ELSE weak
  BY <1>1 DEF Lists, Weak
<1>3. /\ gcstate \in Marking /\ gcstate' = gcstate
      /\ UNCHANGED <<heap, white, sweep, tmudata>>
  BY DEF propagatemark, Marking, finals
<1>4. o \in gray /\ o \in Lists /\ o \in Objs
  BY Picked, Kinds DEF TypeOK, Lists
<1>5. /\ new \subseteq Objs
      /\ \A x \in new : iswhite(x)
      /\ \A x \in Kids(o) : iswhite(x) => x \in new
      /\ \A x \in new \cap (Udata \cup UpVals) : \A v \in Kids(x) : iswhite(v) => v \in new
  BY <1>4, MarkedFacts, KidsByType
<1> HIDE DEF new
<1>6. NoneDead BY <1>3, NoneDeadWhen
<1>7. Darkens BY <1>2, <1>4, Kinds DEF Darkens, Lists
<1>8. Closed' /\ SweepInv'
  BY <1>3, <1>6, <1>7, MarkStep DEF Marking, Atomic
<1>9. /\ \A x \in Objs : ~iswhite(x) => ~iswhite(x)'
      /\ \A x \in Objs : Kids(x)' = Kids(x)
      /\ \A x \in Objs : KidsMarked(x) => KidsMarked(x)'
  BY <1>3, <1>7, MarkedStays
<1>10. \A x \in new : ~iswhite(x)' BY <1>2, <1>5 DEF iswhite
<1>11. \A x \in Objs : Kids(x) \subseteq Objs BY KidsByType
<1>12. KidsMarked(o)'
  BY <1>4, <1>5, <1>9, <1>10, <1>11 DEF KidsMarked
<1>13. \A x \in new \cap (Udata \cup UpVals) : KidsMarked(x)'
  BY <1>5, <1>9, <1>10, <1>11 DEF KidsMarked
<1>14. ASSUME NEW x \in live, color'[x] = "black" PROVE KidsMarked(x)'
  <2>1. x \in Objs BY DEF TypeOK
  <2>2. CASE color[x] = "black" BY <1>3, <1>9, <2>1, <2>2 DEF MarkInv
  <2>3. CASE color[x] # "black" /\ x # o
    <3>1. x \in new \cap (Udata \cup UpVals) BY <1>2, <1>14, <2>1, <2>3
    <3> QED BY <1>13, <3>1
  <2> QED BY <1>12, <2>2, <2>3
<1>15. ASSUME NEW x \in live \cap Lists, color'[x] = "gray"
       PROVE  x \in gray' \cup grayagain' \cup weak'
  <2>1. CASE x = o BY <1>2, <1>4, <1>15, <2>1
  <2>2. CASE x # o /\ x \in new BY <1>2, <1>15, <2>2
  <2>3. CASE x # o /\ x \notin new
    <3>1. color[x] = "gray" BY <1>2, <1>15, <2>3 DEF TypeOK
    <3>2. x \in gray \cup grayagain \cup weak BY <1>3, <1>15, <3>1 DEF MarkInv
    <3> QED BY <1>2, <2>3, <3>2
  <2> QED BY <2>1, <2>2, <2>3
<1>16. \A u \in live \cap UpVals : color'[u] = "gray" => open[u] # Nil
  BY <1>2, <1>3, <1>4, Kinds DEF MarkInv
<1>17. \A u \in live \cap Udata : color'[u] # "gray"
  BY <1>2, <1>3, <1>4, Kinds DEF MarkInv
<1>18. ~iswhite(Main)' /\ ~iswhite(Globals)'
  BY <1>3, <1>9, Kinds DEF MarkInv, Lists
<1>19. grayagain' \cap Weak = {} BY <1>2, <1>3, Kinds DEF MarkInv
<1>20. gcstate \in Atomic =>
         \A u \in live \cap UpVals : color'[u] = "gray" => KidsMarked(u)'
  <2> SUFFICES ASSUME gcstate \in Atomic, NEW u \in live \cap UpVals, color'[u] = "gray"
               PROVE  KidsMarked(u)'
    OBVIOUS
  <2>1. CASE u \in new BY <1>13, <2>1
  <2>2. CASE u \notin new
    <3>1. color[u] = "gray" BY <1>2, <1>4, <2>2, Kinds
    <3> QED BY <1>3, <1>9, <3>1, Kinds DEF MarkInv
  <2> QED BY <2>1, <2>2
<1>21. gcstate \in {"atomic2", "atomic3", "atomic4"} => \A t \in weak' : KidsMarked(t)'
  BY <1>2, <1>3, <1>9, <1>12, Kinds DEF MarkInv, TypeOK, Lists
<1>22. gcstate \in {"atomic3", "atomic4"} => \A x \in grayagain' : KidsMarked(x)'
  BY <1>2, <1>3, <1>9, <1>12, Kinds DEF MarkInv, TypeOK, Lists
<1>23. gcstate = "atomic4" => \A u \in tmudata : color'[u] = "black"
  BY <1>2, <1>3, <1>4, <1>5, Kinds DEF MarkInv, TypeOK, iswhite
<1>24. MarkInv'
  BY <1>3, <1>14, <1>15, <1>16, <1>17, <1>18, <1>19, <1>20, <1>21, <1>22, <1>23
     DEF MarkInv, heap
<1> QED BY <1>8, <1>24

\* The atomic phase starts with the values of the open upvalues.
LEMMA remarkupvalsInv ==
  ASSUME TypeOK, TypeOK', RefTyped, Closed, SweepInv, MarkInv, remarkupvals
  PROVE  Closed' /\ SweepInv' /\ MarkInv'
<1> DEFINE grays == {u \in live \cap UpVals : open[u] # Nil /\ color[u] = "gray"}
           S == UNION {UpValue(u) : u \in grays}
<1>1. S \in SUBSET Objs BY LinksTyped
<1>2. /\ gcstate = "propagate" /\ gcstate' = "atomic1"
      /\ reallymarkobject(S)
      /\ UNCHANGED <<heap, white, sweep, grayagain, weak>>
  BY DEF remarkupvals
<1>3. \A u \in grays : \A v \in UpValue(u) : v \in S OBVIOUS
<1> HIDE DEF S
<1>4. NoneDead BY <1>2, NoneDeadWhen DEF Marking
<1>5. /\ Darkens
      /\ \A o \in S : ~iswhite(o)'
      /\ \A o \in Objs : color'[o] = "black" =>
           color[o] = "black" \/ \A v \in Kids(o) : ~iswhite(v)'
      /\ gray \subseteq gray'
      /\ \A o \in Lists : color'[o] = "gray" => color[o] = "gray" \/ o \in gray'
      /\ \A u \in UpVals : color'[u] = "gray" => color[u] = "gray" \/ open[u] # Nil
      /\ \A u \in Udata : color'[u] = "gray" => color[u] = "gray"
  BY <1>1, <1>2, reallymarkobjectFacts
<1>6. Closed' /\ SweepInv'
  BY <1>2, <1>4, <1>5, MarkStep DEF Marking, Atomic
<1>7. /\ \A x \in Objs : ~iswhite(x) => ~iswhite(x)'
      /\ \A x \in Objs : Kids(x)' = Kids(x)
      /\ \A x \in Objs : KidsMarked(x) => KidsMarked(x)'
  BY <1>2, <1>5, MarkedStays
<1>8. ASSUME NEW o \in live, color'[o] = "black" PROVE KidsMarked(o)'
  <2>1. o \in Objs BY DEF TypeOK
  <2>2. CASE color[o] = "black" BY <1>2, <1>7, <2>1, <2>2 DEF MarkInv, Marking
  <2>3. CASE color[o] # "black" BY <1>5, <1>7, <1>8, <2>1, <2>3 DEF KidsMarked
  <2> QED BY <2>2, <2>3
<1>9. ASSUME NEW u \in live \cap UpVals, color'[u] = "gray" PROVE KidsMarked(u)'
  <2>1. CASE u \in grays
    <3>1. Kids(u) = UpValue(u) BY KidsByType
    <3>2. \A v \in Kids(u) : ~iswhite(v)' BY <1>3, <1>5, <2>1, <3>1
    <3> QED BY <1>7, <3>2, Kinds DEF KidsMarked
  <2>2. CASE u \notin grays
    <3>1. color[u] # "gray" BY <1>2, <2>2 DEF MarkInv, Marking
    <3>2. u \in Marked(S) /\ open[u] # Nil
      BY <1>2, <1>9, <3>1, Kinds DEF reallymarkobject
    <3>3. \A v \in Kids(u) : iswhite(v) => v \in Marked(S)
      BY <1>1, <3>2, MarkedFacts
    <3>4. \A v \in Marked(S) : ~iswhite(v)'
      BY <1>1, <1>2, MarkedFacts DEF reallymarkobject, iswhite
    <3>5. Kids(u) \subseteq Objs BY KidsByType, Kinds
    <3>6. \A v \in Kids(u) : ~iswhite(v)' BY <1>7, <3>3, <3>4, <3>5
    <3> QED BY <1>7, <3>6, Kinds DEF KidsMarked
  <2> QED BY <2>1, <2>2
<1>10. \A o \in live \cap Lists : color'[o] = "gray" => o \in gray' \cup grayagain' \cup weak'
  BY <1>2, <1>5 DEF MarkInv, Marking
<1>11. /\ \A u \in live \cap UpVals : color'[u] = "gray" => open[u] # Nil
       /\ \A u \in live \cap Udata : color'[u] # "gray"
  BY <1>2, <1>5 DEF MarkInv, Marking
<1>12. ~iswhite(Main)' /\ ~iswhite(Globals)'
  BY <1>2, <1>7, Kinds DEF MarkInv, Lists, Marking
<1>13. grayagain' \cap Weak = {} BY <1>2 DEF MarkInv, Marking
<1>14. MarkInv'
  BY <1>2, <1>8, <1>9, <1>10, <1>11, <1>12, <1>13 DEF MarkInv, heap
<1> QED BY <1>6, <1>14

\* The weak tables, and then the tables and threads of grayagain, are traversed
\* again: their list becomes the gray list.
LEMMA RemarkInv ==
  ASSUME TypeOK, TypeOK', RefTyped, Closed, SweepInv, MarkInv, RemarkWeak \/ RemarkGrayAgain
  PROVE  Closed' /\ SweepInv' /\ MarkInv'
<1>1. /\ gcstate \in {"atomic1", "atomic2"} /\ gcstate' \in {"atomic2", "atomic3"}
      /\ UNCHANGED <<heap, color, white, sweep>>
  BY DEF RemarkWeak, RemarkGrayAgain
<1>2. Darkens BY <1>1 DEF Darkens
<1>3. NoneDead BY <1>1, NoneDeadWhen DEF Marking, Atomic
<1>4. Closed' /\ SweepInv' BY <1>1, <1>2, <1>3, MarkStep DEF Marking, Atomic
<1>5. /\ \A x \in Objs : iswhite(x)' <=> iswhite(x)
      /\ \A x \in Objs : KidsMarked(x) => KidsMarked(x)'
  BY <1>1, <1>2, MarkedStays DEF iswhite
<1>6. gray' \cup grayagain' \cup weak' = gray \cup grayagain \cup weak
      /\ grayagain' \subseteq grayagain
  BY DEF RemarkWeak, RemarkGrayAgain
<1>7. /\ gcstate' = "atomic2" => weak' = {}
      /\ gcstate' = "atomic3" => gcstate = "atomic2" /\ weak' = weak /\ grayagain' = {}
  BY DEF RemarkWeak, RemarkGrayAgain
<1>8. /\ \A o \in live : color[o] = "black" => KidsMarked(o)
      /\ \A o \in live \cap Lists : color[o] = "gray" => o \in gray \cup grayagain \cup weak
      /\ \A u \in live \cap UpVals : color[u] = "gray" => open[u] # Nil /\ KidsMarked(u)
      /\ \A u \in live \cap Udata : color[u] # "gray"
      /\ ~iswhite(Main) /\ ~iswhite(Globals)
      /\ grayagain \cap Weak = {}
      /\ gcstate = "atomic2" => \A t \in weak : KidsMarked(t)
  BY <1>1 DEF MarkInv, Marking, Atomic
<1>9. \A o \in live : color'[o] = "black" => KidsMarked(o)' BY <1>1, <1>5, <1>8 DEF TypeOK
<1>10. \A o \in live \cap Lists : color'[o] = "gray" => o \in gray' \cup grayagain' \cup weak'
  BY <1>1, <1>6, <1>8
<1>11. \A u \in live \cap UpVals : color'[u] = "gray" => open[u] # Nil /\ KidsMarked(u)'
  BY <1>1, <1>5, <1>8 DEF TypeOK
<1>12. ~iswhite(Main)' /\ ~iswhite(Globals)' BY <1>5, <1>8, Kinds DEF Lists
<1>13. gcstate' = "atomic3" => \A t \in weak' : KidsMarked(t)'
  BY <1>5, <1>7, <1>8, Kinds DEF TypeOK, Lists
<1>14. \A u \in live \cap Udata : color'[u] # "gray" BY <1>1, <1>8
<1>15. MarkInv'
  BY <1>1, <1>6, <1>7, <1>8, <1>9, <1>10, <1>11, <1>12, <1>13, <1>14 DEF MarkInv, heap
<1> QED BY <1>4, <1>15

\* Dead userdata with finalizers are marked with their environments.
LEMMA SeparateUdataInv ==
  ASSUME TypeOK, TypeOK', RefTyped, Closed, SweepInv, MarkInv, SeparateUdata
  PROVE  Closed' /\ SweepInv' /\ MarkInv'
<1> DEFINE S == UNION {ref[u] : u \in tmudata'}
           new == Marked(S)
<1>1. /\ gcstate = "atomic3" /\ gcstate' = "atomic4" /\ gray = {}
      /\ color' = [o \in Objs |->
            IF o \in tmudata' THEN "black" ELSE IF o \in new THEN "gray" ELSE color[o]]
      /\ gray' = new
      /\ UNCHANGED <<heap, white, sweep, grayagain, weak>>
  BY DEF SeparateUdata
<1>2. tmudata' \subseteq Udata BY Kinds DEF TypeOK
<1>3. S \in SUBSET Tables /\ \A u \in tmudata' : ref[u] \subseteq S
  BY <1>2 DEF RefTyped
<1> HIDE DEF S
<1>4. new = {o \in S : iswhite(o)} BY <1>3, MarkedTables
<1> HIDE DEF new
<1>5. new \subseteq Tables BY <1>3, <1>4
<1>6. NoneDead BY <1>1, NoneDeadWhen DEF Marking, Atomic
<1>7. Darkens BY <1>1, <1>2, Kinds DEF Darkens, Lists
<1>8. Closed' /\ SweepInv' BY <1>1, <1>6, <1>7, MarkStep DEF Marking, Atomic
<1>9. /\ \A x \in Objs : ~iswhite(x) => ~iswhite(x)'
      /\ \A x \in Objs : Kids(x)' = Kids(x)
      /\ \A x \in Objs : KidsMarked(x) => KidsMarked(x)'
  BY <1>1, <1>7, MarkedStays
<1>10. /\ \A o \in live : color[o] = "black" => KidsMarked(o)
       /\ \A o \in live \cap Lists : color[o] = "gray" => o \in grayagain \cup weak
       /\ \A u \in live \cap UpVals : color[u] = "gray" => open[u] # Nil /\ KidsMarked(u)
       /\ \A u \in live \cap Udata : color[u] # "gray"
       /\ ~iswhite(Main) /\ ~iswhite(Globals)
       /\ grayagain \cap Weak = {}
       /\ \A t \in weak : KidsMarked(t)
       /\ \A o \in grayagain : KidsMarked(o)
  BY <1>1 DEF MarkInv, Marking, Atomic
<1>11. ASSUME NEW u \in tmudata' PROVE KidsMarked(u)'
  <2>1. Kids(u) = ref[u] /\ u \in Objs BY <1>2, KidsByType, Kinds
  <2>2. \A v \in S : v \in Objs /\ ~iswhite(v)'
    BY <1>1, <1>2, <1>3, <1>4, <1>9, Kinds DEF iswhite, Lists
  <2> QED BY <1>3, <1>9, <2>1, <2>2 DEF KidsMarked
<1>12. \A o \in live : color'[o] = "black" => KidsMarked(o)'
  BY <1>1, <1>9, <1>10, <1>11 DEF TypeOK
<1>13. \A o \in live \cap Lists : color'[o] = "gray" => o \in gray' \cup grayagain' \cup weak'
  BY <1>1, <1>10, Kinds
<1>14. \A u \in live \cap UpVals : color'[u] = "gray" => open[u] # Nil /\ KidsMarked(u)'
  BY <1>1, <1>5, <1>9, <1>10, Kinds DEF Lists
<1>15. \A u \in live \cap Udata : color'[u] # "gray" BY <1>1, <1>5, <1>10, Kinds DEF Lists
<1>16. ~iswhite(Main)' /\ ~iswhite(Globals)' BY <1>9, <1>10, Kinds DEF Lists
<1>17. /\ \A t \in weak' : KidsMarked(t)'
       /\ \A o \in grayagain' : KidsMarked(o)'
  BY <1>1, <1>9, <1>10, Kinds DEF TypeOK, Lists
<1>18. \A u \in tmudata' : color'[u] = "black" BY <1>1, <1>2, Kinds
<1>19. MarkInv'
  BY <1>1, <1>10, <1>12, <1>13, <1>14, <1>15, <1>16, <1>17, <1>18 DEF MarkInv, heap
<1> QED BY <1>8, <1>19

--------------------------------------------------------------------------------
(* The end of the atomic phase: everything that is not marked becomes dead.      *)

\* When the gray list is empty for the last time, what is marked refers to what
\* is marked, and the marked weak tables are in the weak list.
LEMMA AllTraversed ==
  ASSUME TypeOK, RefTyped, SweepInv, MarkInv, gcstate = "atomic4", gray = {}
  PROVE  /\ \A o \in live : ~iswhite(o) => KidsMarked(o)
         /\ \A t \in live \cap Weak : ~iswhite(t) => t \in weak
<1>1. /\ \A o \in live : color[o] = "black" => KidsMarked(o)
      /\ \A o \in live \cap Lists : color[o] = "gray" => o \in grayagain \cup weak
      /\ \A u \in live \cap UpVals : color[u] = "gray" => KidsMarked(u)
      /\ \A u \in live \cap Udata : color[u] # "gray"
      /\ grayagain \cap Weak = {}
      /\ \A t \in weak : KidsMarked(t)
      /\ \A o \in grayagain : KidsMarked(o)
  BY DEF MarkInv, Marking, Atomic
<1>2. \A s \in Strings : KidsMarked(s) BY KidsByType DEF KidsMarked
<1>3. \A o \in live : o \in Objs /\ (~iswhite(o) => color[o] \in {"gray", "black"})
  BY Whites DEF TypeOK
<1>4. \A t \in live \cap Weak : ~iswhite(t) => t \in weak
  BY <1>1, <1>3, Kinds DEF SweepInv, Lists
<1>5. ASSUME NEW o \in live, color[o] = "gray" PROVE KidsMarked(o)
  BY <1>1, <1>2, <1>3, <1>5, Kinds
<1> QED BY <1>1, <1>3, <1>4, <1>5

\* What stays in a weak table is alive after the flip.
LEMMA ClearedTable ==
  ASSUME TypeOK, RefTyped, NEW t \in weak, KidsMarked(t), NEW p \in cleartable(t),
         NEW x \in {p[1], p[2]}, x # Nil
  PROVE  x \in Objs /\ (~iswhite(x) \/ (x \in Strings /\ x \in StringsMet(t)))
<1>1. p \in entry[t] /\ t \in Tables BY Kinds DEF cleartable, TypeOK
<1>2. p[1] \in Vals /\ p[2] \in Vals BY <1>1 DEF TypeOK
<1>3. x \in Objs BY <1>2 DEF Vals
<1>4. CASE p[1] = Nil /\ t \notin WeakV
  <2>1. x = p[2] BY <1>4
  <2>2. x \in Kids(t) BY <1>1, <1>4, <2>1, KidsByType DEF Entries
  <2> QED BY <1>3, <2>2 DEF KidsMarked
<1>5. CASE ~iscleared(p[1], TRUE) /\ ~iscleared(p[2], FALSE)
  <2>1. x \notin Strings => ~iswhite(x) BY <1>3, <1>5 DEF iscleared
  <2>2. x \in StringsMet(t) BY <1>1, <1>5 DEF StringsMet
  <2> QED BY <1>3, <2>1, <2>2
<1> QED BY <1>4, <1>5 DEF cleartable

LEMMA FinishAtomicInv ==
  ASSUME TypeOK, TypeOK', RefTyped, Closed, SweepInv, MarkInv, FinishAtomic
  PROVE  /\ Closed' /\ SweepInv' /\ MarkInv'
         /\ \A o \in live : ~iswhite(o) => o \in Alive'
         /\ \A o \in Alive' : iswhite(o) => o \in Strings
<1>1. /\ gcstate = "atomic4" /\ gcstate' = "sweepstring" /\ gray = {}
      /\ entry' = [t \in Tables |-> IF t \in weak THEN cleartable(t) ELSE entry[t]]
      /\ color' = [o \in Objs |->
           IF o \in Strings /\ iswhite(o) /\ \E t \in weak : o \in StringsMet(t)
           THEN "gray" ELSE color[o]]
      /\ white' = otherwhite
      /\ sweep' = {o \in live : o \notin UpVals \/ open[o] = Nil}
      /\ UNCHANGED <<live, ref, slot, open>>
  BY DEF FinishAtomic
<1>2. NoneDead BY <1>1, NoneDeadWhen DEF Marking, Atomic
<1>3. Alive = live BY <1>2, AliveIfNoneDead
<1>4. live \subseteq Objs BY DEF TypeOK
<1>5. otherwhite' = white BY <1>1 DEF otherwhite, TypeOK
<1>6. ~iswhite(Main) /\ ~iswhite(Globals) BY <1>1 DEF MarkInv, Marking, Atomic
<1>7. \A o \in live : ~iswhite(o) => o \in Alive'
  BY <1>1, <1>4, <1>5 DEF Alive, isdead, iswhite, TypeOK
<1>8. \A o \in Strings \cap live : (\E t \in weak : o \in StringsMet(t)) => o \in Alive'
  BY <1>1, <1>4, <1>5, <1>7 DEF Alive, isdead, TypeOK
<1>9. \A o \in Alive' : o \in live /\ (iswhite(o) => o \in Strings)
  <2> SUFFICES ASSUME NEW o \in Alive' PROVE o \in live /\ (iswhite(o) => o \in Strings)
    OBVIOUS
  <2>1. o \in live /\ o \in Objs BY <1>1, <1>4 DEF Alive
  <2>2. color'[o] # white \/ o = Main BY <1>5 DEF Alive, isdead
  <2>3. iswhite(o) => color[o] = white
    BY <1>2, <2>1, Whites DEF NoneDead, iswhite, TypeOK, otherwhite
  <2> QED BY <1>1, <1>6, <2>1, <2>2, <2>3
<1>10. /\ \A o \in live : ~iswhite(o) => KidsMarked(o)
       /\ \A t \in live \cap Weak : ~iswhite(t) => t \in weak
  BY <1>1, AllTraversed
<1>11. \A o \in Alive' \ Strings : \A v \in Kids(o) : v \in live => v \in Alive'
  BY <1>7, <1>9, <1>10 DEF KidsMarked
<1>12. \A o \in live : Kids(o) \subseteq live
  BY <1>1, <1>3, KeepsAlive
<1>13. \A o \in Alive' \ Strings : Kids(o) \subseteq Alive' BY <1>9, <1>11, <1>12
<1>14. Closed'
  <2>1. {Main, Globals} \subseteq Alive'
    BY <1>1, <1>3, <1>6, <1>7 DEF Closed
  <2>2. ASSUME NEW t \in Alive' \cap Tables, NEW p \in entry'[t], NEW x \in {p[1], p[2]}, x # Nil
        PROVE  x \in Alive'
    <3>1. t \in live /\ ~iswhite(t) BY <1>9, Kinds DEF Lists
    <3>2. p \in entry[t] BY <1>1 DEF cleartable
    <3>3. x \in live BY <1>3, <2>2, <3>1, <3>2 DEF Closed
    <3>4. CASE t \in weak
      <4>1. p \in cleartable(t) BY <1>1, <3>4
      <4>2. KidsMarked(t) BY <1>10, <3>1
      <4>3. ~iswhite(x) \/ (x \in Strings /\ x \in StringsMet(t))
        BY <2>2, <3>4, <4>1, <4>2, ClearedTable
      <4> QED BY <1>7, <1>8, <3>3, <3>4, <4>3
    <3>5. CASE t \notin weak
      <4>1. t \notin WeakK \cup WeakV BY <1>10, <3>1, <3>5 DEF Weak
      <4>2. x \in Kids(t) BY <2>2, <3>2, <4>1, KidsByType DEF Entries
      <4> QED BY <1>13, <4>2, Kinds DEF Lists
    <3> QED BY <3>4, <3>5
  <2>3. \A t \in Alive' \cap Tables : \A p \in entry'[t] : {p[1], p[2]} \subseteq Alive' \cup {Nil}
    BY <2>2
  <2>4. ASSUME NEW th \in Alive' \cap Threads, NEW i \in Slots PROVE slot'[th][i] \in Alive' \cup {Nil}
    <3>1. slot[th][i] \in Kids(th) \cup {Nil} BY KidsByType DEF Held
    <3> QED BY <1>1, <1>13, <3>1, Kinds DEF Lists
  <2>5. ASSUME NEW u \in Alive' \cap UpVals
        PROVE  IF open'[u] = Nil THEN ref'[u] \subseteq Alive'
               ELSE slot'[open'[u][1]][open'[u][2]] \in Alive' \cup {Nil}
    <3>1. UpValue(u) \subseteq Alive' BY <1>13, KidsByType, Kinds
    <3> QED BY <1>1, <3>1 DEF UpValue
  <2>6. \A o \in Alive' \cap (Functions \cup Udata) : ref'[o] \subseteq Alive'
    BY <1>1, <1>13, KidsByType, Kinds DEF Lists
  <2>7. \A t \in Tables \ live : entry'[t] = {} BY <1>1 DEF Closed, cleartable
  <2>8. /\ \A th \in Threads \ live, i \in Slots : slot[th][i] = Nil
        /\ \A u \in live \cap UpVals : open[u] # Nil => open[u][1] \in live
    BY DEF Closed
  <2> QED BY <1>1, <2>1, <2>3, <2>4, <2>5, <2>6, <2>7, <2>8 DEF Closed
<1>15. SweepInv'
  <2>1. ASSUME NEW o \in live PROVE Pending(o)'
    <3>1. CASE o \notin UpVals \/ open[o] = Nil BY <1>1, <3>1 DEF Pending
    <3>2. CASE o \in UpVals /\ open[o] # Nil
      <4>1. open[o][1] \in live /\ open[o][1] \in Threads
        BY <3>2 DEF Closed, TypeOK
      <4>2. open[o][1] \in sweep' BY <1>1, <4>1, Kinds DEF Lists
      <4> QED BY <1>1, <3>2, <4>2 DEF Pending
    <3> QED BY <3>1, <3>2
  <2>2. \A u \in live \cap UpVals : open[u] # Nil => color'[u] # "black"
    BY <1>1, <1>4 DEF SweepInv, TypeOK
  <2>3. \A o \in Threads \cup Weak : color'[o] # "black"
    BY <1>1, Kinds DEF SweepInv, TypeOK, Lists
  <2> QED BY <1>1, <2>1, <2>2, <2>3 DEF SweepInv, Marking, Atomic
<1>16. MarkInv' BY <1>1 DEF MarkInv, Marking, Atomic
<1> QED BY <1>7, <1>9, <1>14, <1>15, <1>16

--------------------------------------------------------------------------------
(* Sweeping, finalizing and the start of cycles.                                 *)

\* Freeing what is dead leaves the alive objects closed: surviving upvalues of a
\* freed thread are closed with their value.
LEMMA FreeClosed ==
  ASSUME TypeOK, RefTyped, Closed, NEW S, Free(S), S \cap Alive = {},
         Alive' = Alive, gcstate # "closed", gcstate' # "closed"
  PROVE  Closed'
<1>1. /\ live' = live \ S
      /\ \A o \in Objs : ref'[o] =
           IF o \in S THEN {}
           ELSE IF o \in UpVals /\ open[o] # Nil /\ open[o][1] \in S THEN UpValue(o)
           ELSE ref[o]
      /\ \A t \in Tables : entry'[t] = IF t \in S THEN {} ELSE entry[t]
      /\ \A u \in UpVals : open'[u] =
           IF u \in S \/ (open[u] # Nil /\ open[u][1] \in S) THEN Nil ELSE open[u]
      /\ \A th \in Threads : slot'[th] = IF th \in S THEN [i \in Slots |-> Nil] ELSE slot[th]
  BY DEF Free, TypeOK
<1>2. \A o \in Alive : o \notin S /\ o \in live /\ o \in Objs BY DEF Alive, TypeOK
<1>3. {Main, Globals} \subseteq Alive BY DEF Closed
<1>4. \A t \in Alive \cap Tables : \A p \in entry'[t] : {p[1], p[2]} \subseteq Alive \cup {Nil}
  BY <1>1, <1>2 DEF Closed
<1>5. \A th \in Alive \cap Threads, i \in Slots : slot'[th][i] \in Alive \cup {Nil}
  BY <1>1, <1>2 DEF Closed
<1>6. ASSUME NEW u \in Alive \cap UpVals
      PROVE  IF open'[u] = Nil THEN ref'[u] \subseteq Alive
             ELSE slot'[open'[u][1]][open'[u][2]] \in Alive \cup {Nil}
  <2>1. UpValue(u) \subseteq Alive BY DEF Closed, UpValue
  <2>2. CASE open[u] = Nil
    BY <1>1, <1>2, <2>2 DEF Closed
  <2>3. CASE open[u] # Nil /\ open[u][1] \in S
    BY <1>1, <1>2, <2>1, <2>3
  <2>4. CASE open[u] # Nil /\ open[u][1] \notin S
    <3>1. open[u][1] \in Threads BY <2>4 DEF TypeOK
    <3>2. open'[u] = open[u] /\ slot'[open[u][1]] = slot[open[u][1]]
      BY <1>1, <1>2, <2>4, <3>1
    <3>3. slot[open[u][1]][open[u][2]] \in Alive \cup {Nil} BY <2>4 DEF Closed
    <3> QED BY <2>4, <3>2, <3>3
  <2> QED BY <2>2, <2>3, <2>4
<1>7. \A o \in Alive \cap (Functions \cup Udata) : ref'[o] \subseteq Alive
  BY <1>1, <1>2, Kinds DEF Closed, Lists
<1>8. \A t \in Tables \ live' : entry'[t] = {} BY <1>1 DEF Closed
<1>9. \A th \in Threads \ live', i \in Slots : slot'[th][i] = Nil BY <1>1 DEF Closed
<1>10. \A u \in live' \cap UpVals : open'[u] # Nil => open'[u][1] \in live'
  BY <1>1 DEF Closed
<1> QED BY <1>3, <1>4, <1>5, <1>6, <1>7, <1>8, <1>9, <1>10 DEF Closed

\* One turn of the sweep frees dead objects and makes the others white.
LEMMA sweeplistInv ==
  ASSUME TypeOK, TypeOK', RefTyped, Closed, SweepInv, sweeplist
  PROVE  /\ Closed' /\ SweepInv' /\ MarkInv'
         /\ Alive' = Alive
         /\ \E S : /\ live' = live \ S /\ finalized' = finalized \ S
                   /\ \A x \in S : isdead(x)
         /\ \A x \in live' : isdead(x)' => isdead(x)
<1> DEFINE List(o) == {o} \cup (IF o \in Threads THEN Opened(o) ELSE {})
<1>1. PICK o \in Pick(IF gcstate = "sweep" THEN sweep ELSE sweep \cap Strings) :
       /\ Free(Swept(o))
       /\ color' = [x \in Objs |-> IF x \in List(o) \ Swept(o) THEN luaC_white ELSE color[x]]
       /\ sweep' = sweep \ {o}
  BY DEF sweeplist
<1>2. /\ gcstate \in Sweeping /\ gcstate' = gcstate /\ white' = white
  BY DEF sweeplist, Sweeping
<1> DEFINE S == Swept(o)
           L == List(o)
<1>3. /\ S \subseteq L /\ \A x \in L : x \in S <=> isdead(x)
      /\ o \in L /\ \A x \in L \ {o} : o \in Threads /\ x \in Opened(o)
      /\ \A x \in Opened(o) : o \in Threads => x \in L
  BY DEF Swept
<1>4. /\ live' = live \ S /\ finalized' = finalized \ S
      /\ \A u \in UpVals : open'[u] =
           IF u \in S \/ (open[u] # Nil /\ open[u][1] \in S) THEN Nil ELSE open[u]
      /\ color' = [x \in Objs |-> IF x \in L \ S THEN luaC_white ELSE color[x]]
  BY <1>1 DEF Free
<1>5. Free(S) BY <1>1
<1>6. S \cap Threads \subseteq {o} BY <1>3, Kinds DEF Opened, Lists
<1> HIDE DEF S, L
<1>7. otherwhite' = otherwhite /\ live \subseteq Objs
  BY <1>2 DEF otherwhite, TypeOK
<1>8. \A x \in live' : isdead(x)' <=> isdead(x)
  <2> SUFFICES ASSUME NEW x \in live' PROVE isdead(x)' <=> isdead(x)
    OBVIOUS
  <2>1. x \in Objs /\ x \notin S BY <1>4, <1>7
  <2>2. CASE x \in L
    <3>1. ~isdead(x) BY <1>3, <2>1, <2>2
    <3>2. color'[x] = luaC_white BY <1>4, <2>1, <2>2
    <3> QED BY <1>7, <3>1, <3>2, Whites DEF isdead
  <2>3. CASE x \notin L
    <3>1. color'[x] = color[x] BY <1>4, <2>1, <2>3
    <3> QED BY <1>7, <3>1 DEF isdead
  <2> QED BY <2>2, <2>3
<1>9. \A x \in S : isdead(x) BY <1>3
<1>10. Alive' = Alive BY <1>4, <1>8, <1>9 DEF Alive
<1>11. S \cap Alive = {} BY <1>9 DEF Alive
<1>12. Closed' BY <1>2, <1>5, <1>10, <1>11, FreeClosed DEF Sweeping
<1>13. ASSUME NEW x \in live', ~Pending(x)' PROVE color'[x] = white
  <2>1. x \in live /\ x \notin S /\ x \in Objs BY <1>4, <1>7
  <2>2. CASE x \in L BY <1>4, <2>1, <2>2, Whites
  <2>3. CASE x \notin L
    <3>1. color'[x] = color[x] BY <1>4, <2>1, <2>3
    <3>2. x \notin sweep BY <1>1, <1>3, <1>13, <2>3 DEF Pending
    <3>3. ASSUME x \in UpVals, open[x] # Nil, open[x][1] \in sweep PROVE FALSE
      <4>1. open[x][1] \in Threads BY <3>3 DEF TypeOK
      <4>2. open[x][1] # o BY <1>3, <2>1, <2>3, <3>3, <4>1 DEF Opened
      <4>3. open'[x] = open[x] BY <1>4, <1>6, <2>1, <3>3, <4>1, <4>2
      <4> QED BY <1>1, <1>13, <3>3, <4>2, <4>3 DEF Pending
    <3>4. color[x] = white BY <1>2, <2>1, <3>2, <3>3 DEF SweepInv, Pending
    <3> QED BY <3>1, <3>4
  <2> QED BY <2>2, <2>3
<1>14. \A u \in live' \cap UpVals : open'[u] # Nil => color'[u] # "black"
  BY <1>4, <1>7, Whites DEF SweepInv
<1>15. \A x \in Threads \cup Weak : color'[x] # "black"
  BY <1>4, Whites, Kinds DEF SweepInv, Lists
<1>16. SweepInv'
  BY <1>2, <1>13, <1>14, <1>15 DEF SweepInv, Sweeping, Marking, Atomic
<1>17. MarkInv' BY <1>2 DEF MarkInv, Marking, Atomic, Sweeping
<1>18. \E D : /\ live' = live \ D /\ finalized' = finalized \ D
              /\ \A x \in D : isdead(x)
  BY <1>4, <1>9
<1> QED BY <1>8, <1>10, <1>12, <1>16, <1>17, <1>18

\* The steps between the phases of the sweep, the finalizers and a new cycle.
LEMMA CycleInv ==
  ASSUME TypeOK, TypeOK', RefTyped, Closed, SweepInv, MarkInv,
         StartCycle \/ EndSweepString \/ EndSweep \/ EndFinalize
  PROVE  Closed' /\ SweepInv' /\ MarkInv' /\ Alive' = Alive
<1>1. UNCHANGED heap /\ gcstate # "closed" /\ gcstate' # "closed"
  BY DEF StartCycle, EndSweepString, EndSweep, EndFinalize, markroot
<1>2. CASE markroot /\ UNCHANGED <<white, sweep>>
           /\ (gcstate \in {"pause", "finalize"} \/ (gcstate = "sweep" /\ sweep = {}))
  <2>1. Closed' /\ SweepInv' /\ MarkInv' BY <1>1, <1>2, markrootInv
  <2>2. NoneDead BY <1>2, NoneDeadWhen
  <2>3. NoneDead' BY <1>2, <2>1 DEF markroot, SweepInv, NoneDead, Marking
  <2> QED BY <1>1, <2>1, <2>2, <2>3, AliveIfNoneDead DEF heap
<1>3. CASE /\ UNCHANGED marks
           /\ \/ gcstate = "sweepstring" /\ gcstate' = "sweep"
              \/ gcstate = "sweep" /\ sweep = {} /\ gcstate' = "finalize"
              \/ gcstate = "finalize" /\ gcstate' = "pause"
  <2>1. Alive' = Alive
    BY <1>1, <1>3 DEF Alive, isdead, otherwhite, heap, marks
  <2>2. Closed' BY <1>1, <2>1, ClosedKept
  <2>3. SweepInv'
    BY <1>1, <1>3 DEF SweepInv, Pending, heap, marks, Sweeping, Marking, Atomic
  <2>4. MarkInv' BY <1>3 DEF MarkInv, Marking, Atomic
  <2> QED BY <2>1, <2>2, <2>3, <2>4
<1> QED BY <1>2, <1>3 DEF StartCycle, EndSweepString, EndSweep, EndFinalize

\* A finalizer may put its userdata, which is alive, back into the stack.
LEMMA GCTMInv ==
  ASSUME TypeOK, TypeOK', RefTyped, Closed, SweepInv, MarkInv, tmudata \subseteq Alive, GCTM
  PROVE  Closed' /\ SweepInv' /\ MarkInv' /\ Alive' = Alive
<1>1. PICK u \in tmudata :
       /\ color' = [color EXCEPT ![u] = luaC_white]
       /\ \/ slot' = slot
          \/ \E i \in Slots : slot[Main][i] = Nil /\ slot' = [slot EXCEPT ![Main][i] = u]
  BY DEF GCTM
<1>2. /\ gcstate \in {"finalize", "closing"} /\ gcstate' = gcstate
      /\ UNCHANGED <<live, ref, entry, open, white, sweep>>
  BY DEF GCTM
<1>3. u \in Udata /\ u \in Objs /\ u \in Vals /\ u \in Alive BY Kinds DEF TypeOK, Vals, Lists
<1>4. otherwhite' = otherwhite BY <1>2 DEF otherwhite
<1>5. \A x \in Objs : color'[x] = IF x = u THEN luaC_white ELSE color[x]
  BY <1>1, <1>3 DEF TypeOK
<1>6. Alive' = Alive
  <2>1. \A x \in live : isdead(x)' <=> isdead(x)
    BY <1>3, <1>4, <1>5, Whites DEF isdead, Alive, TypeOK
  <2> QED BY <1>2, <2>1 DEF Alive
<1>7. \A x \in Threads, j \in Slots : slot'[x][j] \in {slot[x][j]} \cup (IF x = Main THEN {u} ELSE {})
  <2>1. CASE slot' = slot BY <2>1
  <2>2. ASSUME NEW i \in Slots, slot' = [slot EXCEPT ![Main][i] = u] PROVE <1>7!:
    BY <1>3, <2>2, SlotWritten, Kinds
  <2> QED BY <1>1, <2>1, <2>2
<1>8. Main \in Alive BY <1>2 DEF Closed
<1>9. Closed'
  <2>1. \A th \in Alive \cap Threads, i \in Slots : slot'[th][i] \in Alive \cup {Nil}
    BY <1>3, <1>7 DEF Closed
  <2>2. ASSUME NEW x \in Alive \cap UpVals
        PROVE  IF open[x] = Nil THEN ref[x] \subseteq Alive
               ELSE slot'[open[x][1]][open[x][2]] \in Alive \cup {Nil}
    <3>1. CASE open[x] = Nil BY <3>1 DEF Closed
    <3>2. CASE open[x] # Nil
      <4>1. open[x][1] \in Threads /\ open[x][2] \in Slots BY <3>2 DEF TypeOK
      <4>2. slot[open[x][1]][open[x][2]] \in Alive \cup {Nil} BY <3>2 DEF Closed
      <4> QED BY <1>3, <1>7, <3>2, <4>1, <4>2
    <3> QED BY <3>1, <3>2
  <2>3. \A th \in Threads \ live, i \in Slots : slot'[th][i] = Nil
    BY <1>7, <1>8 DEF Closed, Alive
  <2> QED BY <1>2, <1>6, <2>1, <2>2, <2>3 DEF Closed
<1>10. SweepInv'
  <2>1. gcstate = "finalize" => sweep = {} /\ \A x \in live : color'[x] = white
    <3> SUFFICES ASSUME gcstate = "finalize" PROVE sweep = {} /\ \A x \in live : color'[x] = white
      OBVIOUS
    <3>1. NoneDead /\ \A x \in live : color[x] = white BY NoneDeadWhen DEF Marking, Atomic
    <3> QED BY <1>5, <3>1, Whites DEF NoneDead, TypeOK
  <2>2. \A x \in live \cap UpVals : open[x] # Nil => color'[x] # "black"
    BY <1>5, Whites DEF SweepInv, TypeOK
  <2>3. \A x \in Threads \cup Weak : color'[x] # "black"
    BY <1>3, <1>5, Kinds DEF SweepInv, Lists
  <2> QED BY <1>2, <2>1, <2>2, <2>3 DEF SweepInv, Sweeping, Marking, Atomic
<1>11. MarkInv' BY <1>2 DEF MarkInv, Marking, Atomic
<1> QED BY <1>6, <1>9, <1>10, <1>11

\* A full collection starts: a new cycle, or a sweep of a heap without dead objects.
LEMMA luaC_fullgcInv ==
  ASSUME TypeOK, TypeOK', RefTyped, Closed, SweepInv, MarkInv, luaC_fullgc
  PROVE  Closed' /\ SweepInv' /\ MarkInv' /\ Alive' = Alive
<1>1. UNCHANGED heap /\ gcstate # "closed" /\ gcstate \notin Atomic
  BY DEF luaC_fullgc, Running
<1>2. CASE gcstate = "finalize"
  <2>1. markroot /\ UNCHANGED <<white, sweep>> BY <1>2 DEF luaC_fullgc
  <2>2. Closed' /\ SweepInv' /\ MarkInv' BY <1>1, <1>2, <2>1, markrootInv
  <2>3. NoneDead BY <1>2, NoneDeadWhen
  <2>4. NoneDead' BY <2>1, <2>2 DEF markroot, SweepInv, NoneDead, Marking
  <2> QED BY <1>1, <2>2, <2>3, <2>4, AliveIfNoneDead DEF heap
<1>3. CASE gcstate \in {"pause", "propagate"}
  <2>1. /\ gcstate' = "sweepstring"
        /\ sweep' = {o \in live : o \notin UpVals \/ open[o] = Nil}
        /\ UNCHANGED <<color, white>>
    BY <1>3 DEF luaC_fullgc
  <2>2. Alive' = Alive
    BY <1>1, <2>1 DEF Alive, isdead, otherwhite, heap
  <2>3. Closed' BY <1>1, <2>1, <2>2, ClosedKept
  <2>4. ASSUME NEW o \in live PROVE Pending(o)'
    <3>1. CASE o \notin UpVals \/ open[o] = Nil BY <2>1, <3>1 DEF Pending
    <3>2. CASE o \in UpVals /\ open[o] # Nil
      <4>1. open[o][1] \in live /\ open[o][1] \in Threads
        BY <3>2 DEF Closed, TypeOK
      <4>2. open[o][1] \in sweep' BY <2>1, <4>1, Kinds DEF Lists
      <4> QED BY <1>1, <3>2, <4>2 DEF Pending, heap
    <3> QED BY <3>1, <3>2
  <2>5. SweepInv'
    BY <1>1, <2>1, <2>4 DEF SweepInv, heap, Marking, Atomic
  <2>6. MarkInv' BY <2>1 DEF MarkInv, Marking, Atomic
  <2> QED BY <2>2, <2>3, <2>5, <2>6
<1>4. CASE gcstate \notin {"pause", "propagate", "finalize"}
  <2>1. UNCHANGED <<marks, gcstate>> BY <1>4 DEF luaC_fullgc
  <2>2. Alive' = Alive
    BY <1>1, <2>1 DEF Alive, isdead, otherwhite, heap, marks
  <2>3. Closed' BY <1>1, <2>1, <2>2, ClosedKept
  <2>4. SweepInv'
    BY <1>1, <2>1 DEF SweepInv, Pending, heap, marks, otherwhite
  <2>5. MarkInv' BY <1>1, <1>4, <2>1 DEF MarkInv, Marking
  <2> QED BY <2>2, <2>3, <2>4, <2>5
<1> QED BY <1>2, <1>3, <1>4

--------------------------------------------------------------------------------
(* The program. It only handles alive objects, and makes no alive object dead.   *)

MutationSafe ==
  /\ Alive \subseteq Alive'
  /\ \A x \in live' : isdead(x)' => x \in live /\ isdead(x)
  /\ live \cap Udata \subseteq live'

\* While marking, what a black object refers to is allocated and marked, and it
\* is neither a thread, nor a weak table, nor an open upvalue.
LEMMA BlackObjects ==
  ASSUME TypeOK, RefTyped, Closed, SweepInv, MarkInv, gcstate \in Marking,
         NEW x \in live, color[x] = "black"
  PROVE  /\ x \in Objs /\ x \notin Threads \cup Weak /\ (x \in UpVals => open[x] = Nil)
         /\ \A k \in Kids(x) : k \in live /\ k \in Objs /\ ~iswhite(k)
<1>1. x \in Objs /\ x \notin Threads \cup Weak /\ (x \in UpVals => open[x] = Nil)
  BY DEF SweepInv, TypeOK
<1>2. Alive = live BY NoneDeadWhen, AliveIfNoneDead
<1>3. Kids(x) \subseteq live BY <1>2, KeepsAlive DEF Marking, Atomic
<1> QED BY <1>1, <1>3 DEF MarkInv, KidsMarked, TypeOK

\* The children of an object whose own references stay.
LEMMA KidsStay ==
  ASSUME TypeOK, RefTyped, NEW x \in Objs \ Threads, x \in UpVals => open[x] = Nil,
         x \in Tables => entry'[x] = entry[x],
         x \notin Tables => ref'[x] = ref[x],
         x \in UpVals => open'[x] = open[x]
  PROVE  Kids(x)' = Kids(x)
BY DEF Kids, Entries, UpValue

\* An operation that makes the objects N, or makes them white again when they
\* are dead, and writes one stack slot.
LEMMA StackStep ==
  ASSUME TypeOK, TypeOK', RefTyped, Closed, SweepInv, MarkInv,
         NEW th \in Threads, th \in live, NEW i \in Slots,
         NEW N \in SUBSET Objs, N \cap UpVals # {} => th \in Alive,
         NEW v \in Alive \cup N \cup {Nil},
         gcstate \notin Atomic \cup {"closed"}, gcstate' = gcstate,
         UNCHANGED <<entry, white, gray, grayagain, weak, sweep>>,
         live' = live \cup N,
         \A x \in Objs : color'[x] = IF x \in N /\ x \notin Alive THEN white ELSE color[x],
         \A x \in live : ref'[x] = ref[x],
         \A u \in live \cap UpVals : open'[u] = open[u],
         \A x \in Threads, j \in Slots :
           slot'[x][j] = IF x = th /\ j = i THEN v ELSE slot[x][j],
         N \cap live \subseteq Strings \cup UpVals,
         \A o \in (N \ live) \cap (Functions \cup Udata) : ref'[o] \subseteq Alive \cup N,
         \A u \in N \cap UpVals : \E j \in Slots : open'[u] = <<th, j>>
  PROVE  Closed' /\ SweepInv' /\ MarkInv' /\ MutationSafe
<1>1. otherwhite' = otherwhite /\ otherwhite # white /\ white \in {"white0", "white1"}
  BY Whites DEF otherwhite
<1>2. live \subseteq Objs /\ live' \subseteq Objs BY DEF TypeOK
<1>3. /\ \A x \in N : ~isdead(x)'
      /\ \A x \in live \ N : isdead(x)' <=> isdead(x)
      /\ \A x \in N \cap live : isdead(x)' => isdead(x)
  BY <1>1, <1>2 DEF isdead, Alive
<1>4. Alive' = Alive \cup N BY <1>3 DEF Alive
<1>5. MutationSafe BY <1>3, <1>4 DEF MutationSafe
<1>6. \A x \in Alive' \ live : x \in N \ live BY <1>4 DEF Alive
<1>7. \A x \in Alive' : x \notin Strings \cup UpVals => x \in Alive \/ x \in N \ live
  BY <1>4
<1>8. \A x \in Alive : x \in live BY DEF Alive
<1>9. Closed'
  <2>1. {Main, Globals} \subseteq Alive' BY <1>4 DEF Closed
  <2>2. \A t \in Alive' \cap Tables : \A p \in entry'[t] : {p[1], p[2]} \subseteq Alive' \cup {Nil}
    BY <1>4, <1>7, Kinds DEF Closed, Lists
  <2>3. \A x \in Alive' \cap Threads, j \in Slots : slot'[x][j] \in Alive' \cup {Nil}
    <3> SUFFICES ASSUME NEW x \in Alive' \cap Threads, NEW j \in Slots
                 PROVE  slot'[x][j] \in Alive' \cup {Nil}
      OBVIOUS
    <3>1. CASE x \in Alive
      <4>1. slot[x][j] \in Alive \cup {Nil} BY <3>1 DEF Closed
      <4> QED BY <1>4, <4>1
    <3>2. CASE x \in N \ live
      <4>1. x # th BY <1>8, <3>2
      <4>2. slot[x][j] = Nil BY <3>2 DEF Closed
      <4> QED BY <4>1, <4>2
    <3> QED BY <1>7, <3>1, <3>2, Kinds DEF Lists
  <2>4. ASSUME NEW u \in Alive' \cap UpVals
        PROVE  IF open'[u] = Nil THEN ref'[u] \subseteq Alive'
               ELSE slot'[open'[u][1]][open'[u][2]] \in Alive' \cup {Nil}
    <3>1. CASE u \in N
      <4>1. PICK j \in Slots : open'[u] = <<th, j>> BY <3>1
      <4>2. open'[u] # Nil BY <4>1, Kinds
      <4>3. slot'[th][j] \in Alive' \cup {Nil} BY <1>4, <2>3, <3>1
      <4> QED BY <4>1, <4>2, <4>3
    <3>2. CASE u \notin N
      <4>1. u \in Alive /\ u \in live BY <1>4, <1>8, <3>2
      <4>2. CASE open[u] = Nil BY <1>4, <4>1, <4>2 DEF Closed
      <4>3. CASE open[u] # Nil
        <5>1. open[u][1] \in Threads /\ open[u][2] \in Slots BY <4>3 DEF TypeOK
        <5>2. slot[open[u][1]][open[u][2]] \in Alive \cup {Nil} BY <4>1, <4>3 DEF Closed
        <5> QED BY <1>4, <4>1, <4>3, <5>1, <5>2
      <4> QED BY <4>2, <4>3
    <3> QED BY <3>1, <3>2
  <2>5. \A o \in Alive' \cap (Functions \cup Udata) : ref'[o] \subseteq Alive'
    <3> SUFFICES ASSUME NEW o \in Alive' \cap (Functions \cup Udata) PROVE ref'[o] \subseteq Alive'
      OBVIOUS
    <3>1. CASE o \in Alive BY <1>4, <1>8, <3>1 DEF Closed
    <3>2. CASE o \in N \ live BY <1>4, <3>2
    <3> QED BY <1>7, <3>1, <3>2, Kinds DEF Lists
  <2>6. \A t \in Tables \ live' : entry'[t] = {} BY DEF Closed
  <2>7. \A x \in Threads \ live', j \in Slots : slot'[x][j] = Nil BY <1>8 DEF Closed
  <2>8. \A u \in live' \cap UpVals : open'[u] # Nil => open'[u][1] \in live'
    BY <1>8 DEF Closed
  <2> QED BY <2>1, <2>2, <2>3, <2>4, <2>5, <2>6, <2>7, <2>8 DEF Closed
<1>10. \A x \in live' : x \in live \/ (x \in N /\ color'[x] = white) BY <1>2, <1>8
<1>11. SweepInv'
  <2>1. \A x \in live : Pending(x)' <=> Pending(x) BY DEF Pending
  <2>2. gcstate \in Sweeping \cup {"pause", "finalize"} =>
          \A x \in live' : Pending(x)' \/ color'[x] = white
    BY <1>2, <1>10, <2>1 DEF SweepInv
  <2>3. gcstate \in Marking => \A x \in live' : color'[x] # otherwhite
    BY <1>1, <1>2, <1>10 DEF SweepInv
  <2>4. \A u \in live' \cap UpVals : open'[u] # Nil => color'[u] # "black"
    BY <1>1, <1>2, <1>10 DEF SweepInv
  <2>5. \A x \in Threads \cup Weak : color'[x] # "black"
    BY <1>1, Kinds DEF SweepInv, Lists
  <2> QED BY <1>1, <2>2, <2>3, <2>4, <2>5 DEF SweepInv
<1>12. MarkInv'
  <2> SUFFICES ASSUME gcstate = "propagate" PROVE MarkInv'
    BY DEF MarkInv, Marking
  <2>1. Alive = live BY NoneDeadWhen, AliveIfNoneDead DEF Marking
  <2>2. /\ \A x \in live : color'[x] = color[x] /\ (iswhite(x)' <=> iswhite(x))
        /\ \A x \in live' : x \in live \/ color'[x] = white
    BY <1>2, <1>10, <2>1 DEF iswhite
  <2>3. ASSUME NEW x \in live', color'[x] = "black" PROVE KidsMarked(x)'
    <3>1. x \in live /\ color[x] = "black" BY <1>1, <2>2, <2>3
    <3>2. /\ x \in Objs /\ x \notin Threads \cup Weak /\ (x \in UpVals => open[x] = Nil)
          /\ \A k \in Kids(x) : k \in live /\ ~iswhite(k)
      BY <3>1, BlackObjects DEF Marking
    <3>3. Kids(x)' = Kids(x) BY <3>1, <3>2, KidsStay
    <3> QED BY <2>2, <3>2, <3>3 DEF KidsMarked
  <2>4. /\ \A o \in live' \cap Lists : color'[o] = "gray" => o \in gray \cup grayagain \cup weak
        /\ \A u \in live' \cap UpVals : color'[u] = "gray" => open'[u] # Nil
        /\ \A u \in live' \cap Udata : color'[u] # "gray"
    BY <1>1, <2>2 DEF MarkInv, Marking
  <2>5. ~iswhite(Main)' /\ ~iswhite(Globals)'
    BY <2>1, <2>2 DEF MarkInv, Marking, Closed
  <2>6. grayagain \cap Weak = {} BY DEF MarkInv, Marking
  <2> QED BY <2>3, <2>4, <2>5, <2>6 DEF MarkInv, Atomic
<1> QED BY <1>5, <1>9, <1>11, <1>12

--------------------------------------------------------------------------------
(* The operations of the program.                                               *)

\* What the program finds in a stack, and what it can read through it, is alive.
LEMMA HeldAlive ==
  ASSUME TypeOK, RefTyped, Closed, gcstate # "closed", NEW th \in Alive \cap Threads
  PROVE  /\ th \in live /\ Held(th) \subseteq Alive /\ Held(th) \subseteq Objs \ UpVals
         /\ Globals \in Alive /\ Globals \in Objs
         /\ \A o \in Held(th) \cup {Globals, th} : Reads(o) \subseteq Alive
<1>1. Held(th) \subseteq Alive BY DEF Closed, Held
<1>2. Held(th) \subseteq Objs \ UpVals BY LinksTyped
<1>3. Globals \in Alive /\ Globals \in Objs BY Kinds DEF Closed, Lists
<1>4. ASSUME NEW o \in Alive, o \notin UpVals PROVE Reads(o) \subseteq Alive
  <2>1. CASE o \in Tables BY <1>4, <2>1 DEF Closed, Reads, AllEntries
  <2>2. CASE o \in Functions
    <3>1. o \notin Tables BY <2>2, Kinds DEF Lists
    <3>2. ref[o] \subseteq Alive BY <2>2 DEF Closed
    <3>3. \A u \in ref[o] \cap UpVals : UpValue(u) \subseteq Alive
      BY <3>2 DEF Closed, UpValue
    <3> QED BY <2>2, <3>1, <3>2, <3>3 DEF Reads
  <2>3. CASE o \in Threads
    <3>1. o \notin Tables \cup Functions BY <2>3, Kinds DEF Lists
    <3> QED BY <2>3, <3>1 DEF Closed, Held, Reads
  <2>4. CASE o \in Strings \cup Udata
    <3>1. o \notin Tables \cup Functions \cup Threads BY <2>4, Kinds DEF Lists
    <3>2. ref[o] \subseteq Alive BY <2>4 DEF Closed, RefTyped
    <3> QED BY <3>1, <3>2 DEF Reads
  <2>5. o \in Objs BY DEF Alive, TypeOK
  <2> QED BY <1>4, <2>1, <2>2, <2>3, <2>4, <2>5, Kinds DEF Lists
<1>5. \A o \in Held(th) \cup {Globals, th} : o \in Alive /\ o \notin UpVals
  BY <1>1, <1>2, <1>3, Kinds DEF Lists
<1>6. th \in live BY DEF Alive
<1> QED BY <1>1, <1>2, <1>3, <1>4, <1>5, <1>6

LEMMA MoveToInv ==
  ASSUME TypeOK, TypeOK', RefTyped, Closed, SweepInv, MarkInv,
         NEW th \in Alive \cap Threads, NEW i \in Slots, MoveTo(th, i),
         gcstate \notin Atomic \cup {"closed"}, gcstate' = gcstate
  PROVE  Closed' /\ SweepInv' /\ MarkInv' /\ MutationSafe
<1>1. PICK v : /\ v \in {Nil} \cup UNION {Reads(o) : o \in Held(th) \cup {Globals, th}}
               /\ slot' = [slot EXCEPT ![th][i] = v]
  BY DEF MoveTo
<1>2. UNCHANGED <<live, ref, entry, open, marks>> BY DEF MoveTo
<1>3. v \in Alive \cup {Nil} BY <1>1, HeldAlive
<1>4. v \in Vals
  <2>1. \A o \in Held(th) \cup {Globals, th} : o \in Objs \ UpVals
    BY HeldAlive, Kinds DEF Lists
  <2> QED BY <1>1, <2>1, ReadsTyped DEF Vals
<1>5. \A x \in Threads, j \in Slots :
        slot'[x][j] = IF x = th /\ j = i THEN v ELSE slot[x][j]
  BY <1>1, <1>4, SlotWritten
<1> DEFINE N == {}
<1>6. /\ N \in SUBSET Objs /\ N \cap live \subseteq Strings \cup UpVals
      /\ \A x \in (N \ live) \cap (Functions \cup Udata) : ref'[x] \subseteq Alive \cup N
      /\ \A u \in N \cap UpVals : \E j \in Slots : open'[u] = <<th, j>>
      /\ v \in Alive \cup N \cup {Nil} /\ live' = live \cup N
      /\ \A x \in Objs : color'[x] = IF x \in N /\ x \notin Alive THEN white ELSE color[x]
  BY <1>2, <1>3 DEF marks
<1>7. \A x \in live : ref'[x] = ref[x] BY <1>2
<1>8. \A u \in live \cap UpVals : open'[u] = open[u] BY <1>2
<1>9. UNCHANGED <<entry, white, gray, grayagain, weak, sweep>> BY <1>2 DEF marks
<1> HIDE DEF N
<1>10. th \in Threads /\ th \in live /\ th \in Alive BY HeldAlive
<1> QED BY <1>5, <1>6, <1>7, <1>8, <1>9, <1>10, StackStep, ZenonT(40)

LEMMA NewObjectInv ==
  ASSUME TypeOK, TypeOK', RefTyped, Closed, SweepInv, MarkInv,
         NEW th \in Alive \cap Threads, NEW i \in Slots, NewObject(th, i),
         gcstate \notin Atomic \cup {"closed"}, gcstate' = gcstate
  PROVE  Closed' /\ SweepInv' /\ MarkInv' /\ MutationSafe
<1>1. PICK o \in (Tables \cup Udata \cup Threads) \ live :
    /\ luaC_link({o})
    /\ ref' = IF o \in Udata THEN [ref EXCEPT ![o] = {Globals}] ELSE ref
    /\ slot' = [slot EXCEPT ![th][i] = o]
    /\ UNCHANGED <<entry, open, gray, grayagain, weak, sweep, white, finalized, tmudata>>
  BY DEF NewObject
<1>2. o \in Objs /\ o \notin Strings \cup UpVals \cup Functions BY Kinds DEF Lists
<1>3. o \in Vals /\ o \notin Alive BY <1>1, <1>2 DEF Vals, Alive
<1>4. \A x \in Threads, j \in Slots :
        slot'[x][j] = IF x = th /\ j = i THEN o ELSE slot[x][j]
  BY <1>1, <1>3, SlotWritten, ZenonT(40)
<1>5. live' = live \cup {o} /\ \A x \in Objs :
        color'[x] = IF x \in {o} /\ x \notin Alive THEN white ELSE color[x]
  BY <1>1, <1>3, Whites DEF luaC_link
<1>6. \A x \in live : ref'[x] = ref[x] BY <1>1 DEF TypeOK
<1>7. o \in Udata => ref'[o] \subseteq Alive
  BY <1>1, <1>2, HeldAlive DEF TypeOK
<1> DEFINE N == {o}
<1>8. /\ N \in SUBSET Objs /\ N \cap live \subseteq Strings \cup UpVals
      /\ \A x \in (N \ live) \cap (Functions \cup Udata) : ref'[x] \subseteq Alive \cup N
      /\ \A u \in N \cap UpVals : \E j \in Slots : open'[u] = <<th, j>>
      /\ o \in Alive \cup N \cup {Nil} /\ live' = live \cup N
      /\ \A x \in Objs : color'[x] = IF x \in N /\ x \notin Alive THEN white ELSE color[x]
  BY <1>1, <1>2, <1>5, <1>7
<1> HIDE DEF N
<1>9. th \in Threads /\ th \in live /\ th \in Alive BY HeldAlive
<1> QED BY <1>1, <1>4, <1>6, <1>8, <1>9, StackStep

LEMMA luaS_newlstrInv ==
  ASSUME TypeOK, TypeOK', RefTyped, Closed, SweepInv, MarkInv,
         NEW th \in Alive \cap Threads, NEW i \in Slots, luaS_newlstr(th, i),
         gcstate \notin Atomic \cup {"closed"}, gcstate' = gcstate
  PROVE  Closed' /\ SweepInv' /\ MarkInv' /\ MutationSafe
<1>1. PICK str \in Strings :
    /\ live' = live \cup {str}
    /\ color' = [color EXCEPT ![str] = IF str \in live /\ ~isdead(str) THEN @ ELSE luaC_white]
    /\ slot' = [slot EXCEPT ![th][i] = str]
    /\ UNCHANGED <<ref, entry, open, gray, grayagain, weak, sweep, white, finals>>
  BY DEF luaS_newlstr
<1>2. str \in Objs /\ str \notin Udata \cup UpVals \cup Functions BY Kinds DEF Lists
<1>3. str \in Vals BY <1>2 DEF Vals
<1>4. \A x \in Threads, j \in Slots :
        slot'[x][j] = IF x = th /\ j = i THEN str ELSE slot[x][j]
  BY <1>1, <1>3, SlotWritten
<1>5. \A x \in Objs : color'[x] = IF x \in {str} /\ x \notin Alive THEN white ELSE color[x]
  BY <1>1, <1>2, Whites DEF TypeOK, Alive
<1> DEFINE N == {str}
<1>6. /\ N \in SUBSET Objs /\ N \cap live \subseteq Strings \cup UpVals
      /\ \A x \in (N \ live) \cap (Functions \cup Udata) : ref'[x] \subseteq Alive \cup N
      /\ \A u \in N \cap UpVals : \E j \in Slots : open'[u] = <<th, j>>
      /\ str \in Alive \cup N \cup {Nil} /\ live' = live \cup N
      /\ \A x \in Objs : color'[x] = IF x \in N /\ x \notin Alive THEN white ELSE color[x]
  BY <1>1, <1>2, <1>5
<1>7. \A x \in live : ref'[x] = ref[x] BY <1>1
<1>8. \A u \in live \cap UpVals : open'[u] = open[u] BY <1>1
<1>9. UNCHANGED <<entry, white, gray, grayagain, weak, sweep>> BY <1>1
<1> HIDE DEF N
<1>10. th \in Threads /\ th \in live /\ th \in Alive BY HeldAlive
<1> QED BY <1>4, <1>6, <1>7, <1>8, <1>9, <1>10, StackStep, ZenonT(40)

LEMMA NewClosureInv ==
  ASSUME TypeOK, TypeOK', RefTyped, Closed, SweepInv, MarkInv,
         NEW th \in Alive \cap Threads, NEW i \in Slots, NewClosure(th, i),
         gcstate \notin Atomic \cup {"closed"}, gcstate' = gcstate
  PROVE  Closed' /\ SweepInv' /\ MarkInv' /\ MutationSafe
<1>1. PICK f \in Functions \ live :
    /\ \/ \E j \in Slots : \E u \in luaF_findupval(th, j) :
            /\ live' = live \cup {f, u}
            /\ color' = [color EXCEPT ![f] = luaC_white,
                                     ![u] = IF u \in live /\ ~isdead(u) THEN @ ELSE luaC_white]
            /\ ref' = [ref EXCEPT ![f] = {Globals, u}]
            /\ open' = [open EXCEPT ![u] = <<th, j>>]
       \/ \E g \in Held(th) \cap Functions : \E u \in ref[g] \cap UpVals :
            /\ luaC_link({f})
            /\ ref' = [ref EXCEPT ![f] = {Globals, u}]
            /\ open' = open
    /\ slot' = [slot EXCEPT ![th][i] = f]
    /\ UNCHANGED <<entry, gray, grayagain, weak, sweep, white, finals>>
  BY DEF NewClosure
<1>2. f \in Objs /\ f \in Vals /\ f \notin Alive /\ f \notin Udata \cup UpVals
  BY Kinds DEF Lists, Vals, Alive
<1>3. \A x \in Threads, j \in Slots :
        slot'[x][j] = IF x = th /\ j = i THEN f ELSE slot[x][j]
  <2>1. slot' = [slot EXCEPT ![th][i] = f] BY <1>1
  <2> QED BY <1>2, <2>1, SlotWritten, ZenonT(40)
<1>4. Globals \in Alive /\ Held(th) \subseteq Alive /\ th \in Threads /\ th \in live /\ th \in Alive BY HeldAlive
<1>5. ASSUME NEW j \in Slots, NEW u \in luaF_findupval(th, j),
             live' = live \cup {f, u},
             color' = [color EXCEPT ![f] = luaC_white,
                                   ![u] = IF u \in live /\ ~isdead(u) THEN @ ELSE luaC_white],
             ref' = [ref EXCEPT ![f] = {Globals, u}],
             open' = [open EXCEPT ![u] = <<th, j>>]
      PROVE  Closed' /\ SweepInv' /\ MarkInv' /\ MutationSafe
  <2>1. u \in UpVals /\ (u \in live => open[u] = <<th, j>>) BY FoundUpval
  <2>2. u \in Objs /\ u \notin Functions \cup Udata /\ u # f
    BY <1>2, <2>1, Kinds DEF Lists
  <2> DEFINE N == {f, u}
  <2>3. /\ N \in SUBSET Objs /\ N \cap live \subseteq Strings \cup UpVals
        /\ f \in Alive \cup N \cup {Nil} /\ live' = live \cup N
    BY <1>1, <1>2, <1>5, <2>1, <2>2
  <2>4. \A x \in Objs : color'[x] = IF x \in N /\ x \notin Alive THEN white ELSE color[x]
    BY <1>2, <1>5, <2>2, Whites DEF TypeOK, Alive
  <2>5. /\ \A x \in live : ref'[x] = ref[x]
        /\ ref'[f] = {Globals, u}
    BY <1>1, <1>2, <1>5 DEF TypeOK
  <2>6. \A x \in (N \ live) \cap (Functions \cup Udata) : ref'[x] \subseteq Alive \cup N
    BY <1>4, <2>2, <2>5
  <2>7. /\ \A x \in N \cap UpVals : \E l \in Slots : open'[x] = <<th, l>>
        /\ \A x \in live \cap UpVals : open'[x] = open[x]
    BY <1>2, <1>5, <2>1 DEF TypeOK
  <2> HIDE DEF N
  <2> QED BY <1>1, <1>3, <1>4, <2>3, <2>4, <2>5, <2>6, <2>7, StackStep
<1>6. ASSUME NEW g \in Held(th) \cap Functions, NEW u \in ref[g] \cap UpVals,
             luaC_link({f}), ref' = [ref EXCEPT ![f] = {Globals, u}], open' = open
      PROVE  Closed' /\ SweepInv' /\ MarkInv' /\ MutationSafe
  <2>1. u \in Alive BY <1>4, <1>6 DEF Closed
  <2> DEFINE N == {f}
  <2>2. /\ N \in SUBSET Objs /\ N \cap live \subseteq Strings \cup UpVals
        /\ N \cap UpVals = {}
        /\ f \in Alive \cup N \cup {Nil} /\ live' = live \cup N
        /\ \A x \in Objs : color'[x] = IF x \in N /\ x \notin Alive THEN white ELSE color[x]
    BY <1>1, <1>2, <1>6, Whites DEF luaC_link
  <2>5. \A x \in live \cap UpVals : open'[x] = open[x] BY <1>6
  <2>3. /\ \A x \in live : ref'[x] = ref[x]
        /\ ref'[f] = {Globals, u}
    BY <1>1, <1>2, <1>6 DEF TypeOK
  <2>4. \A x \in (N \ live) \cap (Functions \cup Udata) : ref'[x] \subseteq Alive \cup N
    BY <1>4, <2>1, <2>3
  <2> HIDE DEF N
  <2> QED BY <1>1, <1>3, <1>4, <2>2, <2>3, <2>4, <2>5, StackStep
<1> QED BY <1>1, <1>5, <1>6

\* An assignment to a table: a black table with a new white key or value turns
\* gray and waits to be traversed again.
LEMMA SetTableInv ==
  ASSUME TypeOK, TypeOK', RefTyped, Closed, SweepInv, MarkInv,
         NEW th \in Alive \cap Threads, SetTable(th),
         gcstate \notin Atomic \cup {"closed"}, gcstate' = gcstate
  PROVE  Closed' /\ SweepInv' /\ MarkInv' /\ MutationSafe
<1>1. PICK t \in (Held(th) \cup {Globals}) \cap Tables,
           k \in Held(th) \cup {Nil}, v \in Held(th) \cup {Nil} :
    LET rest == {p \in entry[t] : p[1] # k} IN
    /\ entry' = [entry EXCEPT ![t] = IF v = Nil THEN rest ELSE rest \cup {<<k, v>>}]
    /\ luaC_barriert(t, ({v} \cup IF rest = entry[t] THEN {k} ELSE {}) \ {Nil})
    /\ UNCHANGED <<live, ref, slot, open, finals>>
  BY DEF SetTable
<1> DEFINE rest == {p \in entry[t] : p[1] # k}
           New  == ({v} \cup IF rest = entry[t] THEN {k} ELSE {}) \ {Nil}
<1>2. /\ UNCHANGED <<live, ref, slot, open>> /\ luaC_barriert(t, New)
      /\ \A x \in Tables : x # t => entry'[x] = entry[x]
      /\ entry'[t] = IF v = Nil THEN rest ELSE rest \cup {<<k, v>>}
  BY <1>1 DEF TypeOK
<1>3. /\ t \in Alive /\ t \in Objs /\ t \in live /\ k \in Alive \cup {Nil} /\ v \in Alive \cup {Nil}
      /\ Held(th) \subseteq Objs
  BY HeldAlive DEF Alive
<1>4. /\ UNCHANGED <<gray, weak, sweep, white>> /\ grayagain \subseteq grayagain'
      /\ \A x \in Objs : color'[x] = color[x]
           \/ (x = t /\ color[x] = "black" /\ color'[x] = "gray" /\ x \in grayagain')
      /\ color'[t] = "black" => \A x \in New : ~iswhite(x)
      /\ \A x \in grayagain' : x \in grayagain \/ (x = t /\ color[t] = "black")
  <2> HIDE DEF New
  <2> QED BY <1>2, <1>3 DEF luaC_barriert, marks, TypeOK
<1>5. otherwhite' = otherwhite BY <1>4 DEF otherwhite
<1>6. \A x \in Objs : (isdead(x)' <=> isdead(x)) /\ (iswhite(x)' <=> iswhite(x))
  BY <1>4, <1>5, Whites DEF isdead, iswhite
<1>7. Alive' = Alive BY <1>2, <1>6 DEF Alive, TypeOK
<1>8. MutationSafe BY <1>2, <1>6, <1>7 DEF MutationSafe, TypeOK
<1>9. Closed'
  <2>1. \A x \in Alive \cap Tables : \A p \in entry'[x] : {p[1], p[2]} \subseteq Alive \cup {Nil}
    <3> SUFFICES ASSUME NEW x \in Alive \cap Tables, NEW p \in entry'[x]
                 PROVE  {p[1], p[2]} \subseteq Alive \cup {Nil}
      OBVIOUS
    <3>1. p \in entry[x] \/ (x = t /\ p = <<k, v>>) BY <1>2
    <3>2. CASE p \in entry[x] BY <3>2 DEF Closed
    <3>3. CASE p = <<k, v>> BY <1>3, <3>3
    <3> QED BY <3>1, <3>2, <3>3
  <2>2. \A x \in Tables \ live' : entry'[x] = {} BY <1>2, <1>3 DEF Closed
  <2> QED BY <1>2, <1>7, <2>1, <2>2 DEF Closed
<1>10. SweepInv'
  <2>1. \A x \in live : Pending(x)' <=> Pending(x) BY <1>2, <1>4 DEF Pending
  <2>2. gcstate \in Sweeping \cup {"pause", "finalize"} =>
          \A x \in live : Pending(x)' \/ color'[x] = white
    BY <1>4, <2>1, Whites DEF SweepInv, TypeOK
  <2>3. gcstate \in Marking => \A x \in live : color'[x] # otherwhite
    BY <1>4, Whites DEF SweepInv, TypeOK
  <2>4. \A u \in live \cap UpVals : open[u] # Nil => color'[u] # "black"
    BY <1>4 DEF SweepInv, TypeOK
  <2>5. \A x \in Threads \cup Weak : color'[x] # "black"
    BY <1>4, Kinds DEF SweepInv, Lists
  <2> QED BY <1>2, <1>4, <1>5, <2>2, <2>3, <2>4, <2>5 DEF SweepInv
<1>11. MarkInv'
  <2> SUFFICES ASSUME gcstate = "propagate" PROVE MarkInv'
    BY DEF MarkInv, Marking
  <2>1. ASSUME NEW x \in live', color'[x] = "black" PROVE KidsMarked(x)'
    <3>1. x \in live /\ color[x] = "black" BY <1>2, <1>4, <2>1 DEF TypeOK
    <3>2. /\ x \in Objs /\ x \notin Threads \cup Weak /\ (x \in UpVals => open[x] = Nil)
          /\ \A y \in Kids(x) : y \in Objs /\ ~iswhite(y)
      BY <3>1, BlackObjects DEF Marking
    <3>3. CASE x # t
      <4>1. Kids(x)' = Kids(x) BY <1>2, <3>2, <3>3, KidsStay
      <4> QED BY <1>6, <3>2, <4>1 DEF KidsMarked
    <3>4. CASE x = t
      <4>1. \A y \in Kids(t)' : y \in Kids(t) \/ y \in New
        <5> SUFFICES ASSUME NEW y \in Kids(t)', y \notin Kids(t) PROVE y \in New
          OBVIOUS
        <5>1. /\ Kids(t) = (({p[1] : p \in entry[t]} \cup {p[2] : p \in entry[t]}) \ {Nil})
              /\ Kids(t)' = (({p[1] : p \in entry'[t]} \cup {p[2] : p \in entry'[t]}) \ {Nil})
          BY <3>2, <3>4 DEF Kids, Entries, Weak
        <5>2. PICK p \in entry'[t] : y \in {p[1], p[2]} /\ y # Nil BY <5>1
        <5>3. p \notin entry[t] BY <5>1, <5>2
        <5>4. p = <<k, v>> /\ v # Nil BY <1>2, <5>2, <5>3
        <5>5. CASE y = v BY <5>2, <5>5
        <5>6. CASE y = k
          <6>1. ASSUME rest # entry[t] PROVE FALSE
            <7>1. PICK q \in entry[t] : q[1] = k BY <6>1
            <7> QED BY <5>1, <5>2, <5>6, <7>1
          <6> QED BY <5>2, <5>6, <6>1
        <5> QED BY <5>2, <5>4, <5>5, <5>6
      <4>2. \A y \in New : ~iswhite(y) /\ y \in Objs
        BY <1>3, <1>4, <2>1, <3>4
      <4> QED BY <1>6, <3>2, <3>4, <4>1, <4>2 DEF KidsMarked
    <3> QED BY <3>3, <3>4
  <2>2. \A o \in live' \cap Lists : color'[o] = "gray" => o \in gray' \cup grayagain' \cup weak'
    BY <1>2, <1>4 DEF MarkInv, Marking, TypeOK
  <2>3. \A u \in live' \cap UpVals : color'[u] = "gray" => open'[u] # Nil
    BY <1>1, <1>2, <1>4, Kinds DEF MarkInv, Marking, TypeOK, Lists
  <2>4. \A u \in live' \cap Udata : color'[u] # "gray"
    BY <1>1, <1>2, <1>4, Kinds DEF MarkInv, Marking, TypeOK, Lists
  <2>5. ~iswhite(Main)' /\ ~iswhite(Globals)'
    BY <1>6, Kinds DEF MarkInv, Marking, Lists
  <2>6. grayagain' \cap Weak = {}
    BY <1>4, <1>3, BlackObjects DEF MarkInv, Marking
  <2> QED BY <2>1, <2>2, <2>3, <2>4, <2>5, <2>6 DEF MarkInv, Atomic
<1> QED BY <1>8, <1>9, <1>10, <1>11

\* What luaC_barrier colours. While marking it may mark v; later it may turn o white.
LEMMA luaC_barrierFacts ==
  ASSUME TypeOK, RefTyped, Closed, SweepInv, MarkInv,
         NEW o \in Objs, NEW v \in Vals, luaC_barrier(o, v)
  PROVE  /\ UNCHANGED <<white, sweep, weak, grayagain>>
         /\ gcstate # "propagate" => \A x \in Objs :
              color'[x] = color[x] \/ (x = o /\ color[x] = "black" /\ color'[x] = white)
         /\ gcstate = "propagate" =>
              /\ Darkens
              /\ color'[o] = "black" => color[o] = "black" /\ (v # Nil => ~iswhite(v)')
              /\ \A x \in Objs : color'[x] = "black" =>
                   color[x] = "black" \/ (x \in Udata /\ \A y \in Kids(x) : ~iswhite(y)')
              /\ gray \subseteq gray'
              /\ \A x \in Lists : color'[x] = "gray" => color[x] = "gray" \/ x \in gray'
              /\ \A x \in UpVals \cup Udata : color'[x] = "gray" => color[x] = "gray"
<1>1. CASE v = Nil \/ color[o] # "black" \/ ~iswhite(v)
  <2>1. UNCHANGED <<color, white, sweep, weak, grayagain, gray>>
    BY <1>1 DEF luaC_barrier, marks
  <2>2. color'[o] = "black" => color[o] = "black" /\ (v # Nil => ~iswhite(v)')
    BY <1>1, <2>1 DEF iswhite
  <2>3. Darkens BY <2>1 DEF Darkens
  <2>4. \A x \in Objs : color'[x] = color[x] BY <2>1
  <2>7. \A x \in Objs : color'[x] = "black" =>
          color[x] = "black" \/ (x \in Udata /\ \A y \in Kids(x) : ~iswhite(y)')
    BY <2>1
  <2>8. gray \subseteq gray'
        /\ \A x \in Lists : color'[x] = "gray" => color[x] = "gray" \/ x \in gray'
    BY <2>1
  <2>5. \A x \in UpVals \cup Udata : color'[x] = "gray" => color[x] = "gray" BY <2>1
  <2>6. UNCHANGED <<white, sweep, weak, grayagain>> BY <2>1
  <2> QED BY <2>2, <2>3, <2>4, <2>5, <2>6, <2>7, <2>8
<1>2. CASE v # Nil /\ color[o] = "black" /\ iswhite(v)
  <2>1. v \in Objs \ UpVals BY <1>2 DEF Vals
  <2>2. CASE gcstate = "propagate"
    <3>1. reallymarkobject({v}) /\ UNCHANGED <<grayagain, weak, sweep, white>>
      BY <1>2, <2>2 DEF luaC_barrier
    <3> DEFINE S == {v}
    <3>2. S \in SUBSET Objs /\ S \cap UpVals = {} /\ v \in S BY <2>1
    <3> HIDE DEF S
    <3>3. reallymarkobject(S) BY <3>1 DEF S
    <3>4. /\ Darkens
          /\ \A x \in S : ~iswhite(x)'
          /\ \A x \in Objs : color'[x] = "black" =>
               \/ color[x] = "black"
               \/ x \in Udata \cup (UpVals \cap S) /\ \A y \in Kids(x) : ~iswhite(y)'
          /\ gray \subseteq gray'
          /\ \A x \in Lists : color'[x] = "gray" => color[x] = "gray" \/ x \in gray'
          /\ \A x \in UpVals : color'[x] = "gray" => color[x] = "gray" \/ (open[x] # Nil /\ x \in S)
          /\ \A x \in Udata : color'[x] = "gray" => color[x] = "gray"
      BY <3>2, <3>3, reallymarkobjectFacts
    <3>6. UNCHANGED <<white, sweep, weak, grayagain>> BY <3>1
    <3>7. \A x \in UpVals \cup Udata : color'[x] = "gray" => color[x] = "gray"
      BY <3>2, <3>4
    <3>5. color'[o] = "black" => color[o] = "black" /\ (v # Nil => ~iswhite(v)')
      BY <1>2, <3>2, <3>4
    <3>8. \A x \in Objs : color'[x] = "black" =>
            color[x] = "black" \/ (x \in Udata /\ \A y \in Kids(x) : ~iswhite(y)')
      BY <3>2, <3>4
    <3> QED BY <2>2, <3>4, <3>5, <3>6, <3>7, <3>8
  <2>3. CASE gcstate # "propagate"
    <3>1. /\ color' = [color EXCEPT ![o] = luaC_white]
          /\ UNCHANGED <<gray, grayagain, weak, sweep, white>>
      BY <1>2, <2>3 DEF luaC_barrier
    <3> QED BY <1>2, <2>3, <3>1, Whites DEF TypeOK
  <2> QED BY <2>2, <2>3
<1> QED BY <1>1, <1>2

\* A function, a userdata or a closed upvalue gets a new reference.
LEMMA RefStep ==
  ASSUME TypeOK, TypeOK', RefTyped, Closed, SweepInv, MarkInv,
         NEW o \in Alive \cap (Functions \cup Udata \cup UpVals), o \in UpVals => open[o] = Nil,
         NEW v \in Vals, v \in Alive \cup {Nil}, luaC_barrier(o, v),
         gcstate \notin Atomic \cup {"closed"}, gcstate' = gcstate,
         UNCHANGED <<live, entry, slot, open>>,
         \A x \in Objs : x # o => ref'[x] = ref[x],
         ref'[o] \subseteq ref[o] \cup ({v} \ {Nil})
  PROVE  Closed' /\ SweepInv' /\ MarkInv' /\ MutationSafe
<1>1. o \in Objs /\ o \notin Tables \cup Threads /\ live \subseteq Objs
  BY Kinds DEF Alive, TypeOK, Lists
<1>2. UNCHANGED <<white, sweep, weak, grayagain>> BY <1>1, luaC_barrierFacts
<1>3. otherwhite' = otherwhite BY <1>2 DEF otherwhite
<1>4. \A x \in live : isdead(x)' <=> isdead(x)
  <2>1. CASE gcstate = "propagate"
    <3>1. NoneDead BY <2>1, NoneDeadWhen DEF Marking
    <3>2. Darkens BY <1>1, <2>1, luaC_barrierFacts
    <3> QED BY <1>1, <1>3, <3>1, <3>2, Whites DEF NoneDead, Darkens, isdead
  <2>2. CASE gcstate # "propagate"
    BY <1>1, <1>3, <2>2, luaC_barrierFacts, Whites DEF isdead
  <2> QED BY <2>1, <2>2
<1>5. Alive' = Alive BY <1>4 DEF Alive
<1>6. MutationSafe BY <1>4, <1>5 DEF MutationSafe
<1>7. Closed'
  <2>1. ASSUME NEW u \in Alive \cap UpVals, open[u] = Nil PROVE ref'[u] \subseteq Alive
    <3>1. u \in Objs /\ ref[u] \subseteq Alive BY <2>1, Kinds DEF Closed
    <3> QED BY <3>1
  <2>2. \A x \in Alive \cap (Functions \cup Udata) : ref'[x] \subseteq Alive
    BY Kinds DEF Closed, Lists
  <2> QED BY <1>5, <2>1, <2>2 DEF Closed
<1>8. SweepInv'
  <2>1. \A x : Pending(x)' <=> Pending(x) BY <1>2 DEF Pending
  <2>2. CASE gcstate = "propagate"
    <3>1. Darkens BY <1>1, <2>2, luaC_barrierFacts
    <3>2. \A x \in live : color'[x] # otherwhite
      BY <1>1, <2>2, <3>1, Whites DEF Darkens, SweepInv, Marking
    <3>3. \A u \in live \cap UpVals : open[u] # Nil => color'[u] # "black"
      BY <3>1 DEF SweepInv, Darkens
    <3>4. \A x \in Threads \cup Weak : color'[x] # "black" BY <3>1 DEF SweepInv, Darkens
    <3> QED BY <1>2, <1>3, <2>2, <3>2, <3>3, <3>4 DEF SweepInv, Sweeping, Marking
  <2>3. CASE gcstate # "propagate"
    <3>1. \A x \in Objs : color'[x] = color[x] \/ (color[x] = "black" /\ color'[x] = white)
      BY <1>1, <2>3, luaC_barrierFacts
    <3>2. gcstate \in Sweeping \cup {"pause", "finalize"} =>
            \A x \in live : Pending(x)' \/ color'[x] = white
      BY <1>1, <2>1, <3>1 DEF SweepInv
    <3>3. \A u \in live \cap UpVals : open[u] # Nil => color'[u] # "black"
      BY <1>1, <3>1, Whites DEF SweepInv
    <3>4. \A x \in Threads \cup Weak : color'[x] # "black"
      BY <3>1, Whites, Kinds DEF SweepInv, Lists
    <3> QED BY <1>2, <1>3, <2>3, <3>2, <3>3, <3>4 DEF SweepInv, Marking, Atomic
  <2> QED BY <2>2, <2>3
<1>9. MarkInv'
  <2> SUFFICES ASSUME gcstate = "propagate" PROVE MarkInv'
    BY DEF MarkInv, Marking
  <2>1. /\ Darkens
        /\ color'[o] = "black" => color[o] = "black" /\ (v # Nil => ~iswhite(v)')
        /\ \A x \in Objs : color'[x] = "black" =>
             color[x] = "black" \/ (x \in Udata /\ \A y \in Kids(x) : ~iswhite(y)')
        /\ gray \subseteq gray'
        /\ \A x \in Lists : color'[x] = "gray" => color[x] = "gray" \/ x \in gray'
        /\ \A x \in UpVals \cup Udata : color'[x] = "gray" => color[x] = "gray"
    BY <1>1, luaC_barrierFacts
  <2>2. \A x \in Objs : ~iswhite(x) => ~iswhite(x)' BY <2>1 DEF Darkens, iswhite
  <2>3. ASSUME NEW x \in live, color'[x] = "black" PROVE KidsMarked(x)'
    <3>1. /\ x \in Objs /\ x \notin Threads \cup Weak /\ (x \in UpVals => open[x] = Nil)
          /\ \A y \in Kids(x) : ~iswhite(y)'
      <4>1. CASE color[x] = "black"
        BY <2>2, <4>1, BlackObjects DEF Marking
      <4>2. CASE color[x] # "black"
        <5>1. x \in Udata /\ \A y \in Kids(x) : ~iswhite(y)' BY <1>1, <2>1, <2>3, <4>2
        <5> QED BY <1>1, <5>1, Kinds DEF Lists
      <4> QED BY <4>1, <4>2
    <3>2. CASE x # o
      <4>1. Kids(x)' = Kids(x) BY <3>1, <3>2, KidsStay
      <4> QED BY <3>1, <4>1 DEF KidsMarked
    <3>3. CASE x = o
      <4>1. Kids(o) = ref[o] /\ Kids(o)' = ref'[o]
        BY <1>1, <3>1, <3>3 DEF Kids, UpValue
      <4>2. v # Nil => ~iswhite(v)' BY <2>1, <2>3, <3>3
      <4> QED BY <3>1, <3>3, <4>1, <4>2 DEF KidsMarked
    <3> QED BY <3>2, <3>3
  <2>4. \A x \in live \cap Lists : color'[x] = "gray" => x \in gray' \cup grayagain \cup weak
    BY <2>1 DEF MarkInv, Marking
  <2>5. \A u \in live \cap UpVals : color'[u] = "gray" => open[u] # Nil
    BY <2>1 DEF MarkInv, Marking
  <2>6. \A u \in live \cap Udata : color'[u] # "gray" BY <2>1 DEF MarkInv, Marking
  <2>7. ~iswhite(Main)' /\ ~iswhite(Globals)'
    BY <2>2, Kinds DEF MarkInv, Marking, Lists
  <2>8. grayagain \cap Weak = {} BY DEF MarkInv, Marking
  <2> QED BY <1>2, <2>3, <2>4, <2>5, <2>6, <2>7, <2>8 DEF MarkInv, Atomic
<1> QED BY <1>6, <1>7, <1>8, <1>9

\* An assignment to an upvalue writes the stack while the upvalue is open; then it
\* is never black, and no barrier is needed.
LEMMA SetUpvalInv ==
  ASSUME TypeOK, TypeOK', RefTyped, Closed, SweepInv, MarkInv,
         NEW th \in Alive \cap Threads, SetUpval(th),
         gcstate \notin Atomic \cup {"closed"}, gcstate' = gcstate
  PROVE  Closed' /\ SweepInv' /\ MarkInv' /\ MutationSafe
<1>1. PICK f \in Held(th) \cap Functions : \E u \in ref[f] \cap UpVals, v \in Held(th) \cup {Nil} :
    /\ IF open[u] = Nil
       THEN /\ ref' = [ref EXCEPT ![u] = {v} \ {Nil}]
            /\ slot' = slot
       ELSE /\ slot' = [slot EXCEPT ![open[u][1]][open[u][2]] = v]
            /\ ref' = ref
    /\ luaC_barrier(u, v)
    /\ UNCHANGED <<live, entry, open, finals>>
  BY DEF SetUpval
<1>2. PICK u, v : u \in ref[f] \cap UpVals /\ v \in Held(th) \cup {Nil} /\ <1>1!(f)!(u, v)
  BY <1>1
<1>4. /\ u \in Alive /\ u \in live /\ u \in UpVals /\ u \in Objs
      /\ v \in Alive \cup {Nil} /\ v \in Vals
  BY <1>2, HeldAlive, Kinds DEF Closed, Alive, Vals
<1>5. CASE open[u] = Nil
  <2>1. /\ UNCHANGED <<live, entry, slot, open>> /\ luaC_barrier(u, v)
        /\ \A x \in Objs : x # u => ref'[x] = ref[x]
        /\ ref'[u] \subseteq ref[u] \cup ({v} \ {Nil})
    BY <1>2, <1>4, <1>5 DEF TypeOK
  <2>2. u \in Alive \cap (Functions \cup Udata \cup UpVals) BY <1>4
  <2> QED BY <1>4, <1>5, <2>1, <2>2, RefStep
<1>6. CASE open[u] # Nil
  <2>1. open[u][1] \in Threads /\ open[u][2] \in Slots /\ open[u][1] \in live
    BY <1>4, <1>6 DEF TypeOK, Closed
  <2>2. color[u] # "black" BY <1>4, <1>6 DEF SweepInv
  <2>3. UNCHANGED marks BY <1>2, <2>2 DEF luaC_barrier
  <2> DEFINE tt == open[u][1]
             ii == open[u][2]
             N  == {}
  <2>4. slot' = [slot EXCEPT ![tt][ii] = v] BY <1>2, <1>6
  <2>5. UNCHANGED <<live, ref, entry, open, color, white, gray, grayagain, weak, sweep>>
    BY <1>2, <1>6, <2>3 DEF marks
  <2>6. /\ N \in SUBSET Objs /\ N \cap UpVals = {} /\ N \cap live \subseteq Strings \cup UpVals
        /\ \A x \in (N \ live) \cap (Functions \cup Udata) : ref'[x] \subseteq Alive \cup N
        /\ \A x \in N \cap UpVals : \E j \in Slots : open'[x] = <<tt, j>>
        /\ v \in Alive \cup N \cup {Nil} /\ live' = live \cup N
        /\ \A x \in Objs : color'[x] = IF x \in N /\ x \notin Alive THEN white ELSE color[x]
    BY <1>4, <2>5
  <2>7. \A x \in live : ref'[x] = ref[x] BY <2>5
  <2>8. \A x \in live \cap UpVals : open'[x] = open[x] BY <2>5
  <2>9. tt \in Threads /\ ii \in Slots /\ tt \in live BY <2>1
  <2> HIDE DEF N, tt, ii
  <2>10. \A x \in Threads, j \in Slots :
           slot'[x][j] = IF x = tt /\ j = ii THEN v ELSE slot[x][j]
    BY <1>4, <2>4, <2>9, SlotWritten, ZenonT(40)
  <2>11. UNCHANGED <<entry, white, gray, grayagain, weak, sweep>> BY <2>5
  <2> QED BY <2>6, <2>7, <2>8, <2>9, <2>10, <2>11, StackStep, SMTT(30)
<1> QED BY <1>5, <1>6

LEMMA SetEnvInv ==
  ASSUME TypeOK, TypeOK', RefTyped, Closed, SweepInv, MarkInv,
         NEW th \in Alive \cap Threads, SetEnv(th),
         gcstate \notin Atomic \cup {"closed"}, gcstate' = gcstate
  PROVE  Closed' /\ SweepInv' /\ MarkInv' /\ MutationSafe
<1>1. PICK o \in Held(th) \cap (Functions \cup Udata), t \in Held(th) \cap Tables :
    /\ ref' = [ref EXCEPT ![o] = (@ \ Tables) \cup {t}]
    /\ luaC_barrier(o, t)
    /\ UNCHANGED <<live, entry, slot, open, finals>>
  BY DEF SetEnv
<1>2. /\ o \in Alive \cap (Functions \cup Udata \cup UpVals) /\ o \in Objs /\ o \notin UpVals
      /\ t \in Alive \cup {Nil} /\ t \in Vals /\ t # Nil
  BY HeldAlive, Kinds DEF Vals, Lists
<1>3. /\ \A x \in Objs : x # o => ref'[x] = ref[x]
      /\ ref'[o] \subseteq ref[o] \cup ({t} \ {Nil})
      /\ UNCHANGED <<live, entry, slot, open>>
  BY <1>1, <1>2 DEF TypeOK
<1> QED BY <1>1, <1>2, <1>3, RefStep

\* The slots of a thread from i on are left: its upvalues there are closed with
\* their values. The dead ones are freed, and the marked ones stay marked.
LEMMA luaF_closeInv ==
  ASSUME TypeOK, TypeOK', RefTyped, Closed, SweepInv, MarkInv,
         NEW th \in Alive \cap Threads, NEW i, luaF_close(th, i),
         gcstate \notin Atomic \cup {"closed"}, gcstate' \in {gcstate, "closing"}
  PROVE  /\ Closed' /\ SweepInv' /\ MarkInv' /\ MutationSafe
         /\ live \ live' \subseteq UpVals /\ live' \subseteq live
<1>1. PICK closed \in {{u \in Opened(th) : open[u][2] >= i}} :
    LET lost  == {u \in closed : isdead(u)}
        grays == {u \in closed : color[u] = "gray"}
    IN
    /\ live' = live \ lost
    /\ ref' = [o \in DOMAIN ref |->
         IF o \in lost THEN {} ELSE IF o \in closed THEN UpValue(o) ELSE ref[o]]
    /\ open' = [u \in UpVals |-> IF u \in closed THEN Nil ELSE open[u]]
    /\ slot' = [slot EXCEPT ![th] = [j \in Slots |-> IF j >= i THEN Nil ELSE @[j]]]
    /\ IF gcstate = "propagate"
       THEN \E new \in {Marked(UNION {UpValue(u) : u \in grays})} :
              /\ color' = [o \in Objs |->
                   IF o \in grays \/ (o \in new /\ o \in Udata \cup UpVals) THEN "black"
                   ELSE IF o \in new THEN "gray" ELSE color[o]]
              /\ gray' = gray \cup (new \cap (Tables \cup Functions \cup Threads))
       ELSE /\ color' = [o \in Objs |-> IF o \in grays THEN luaC_white ELSE color[o]]
            /\ gray' = gray
    /\ UNCHANGED <<entry, grayagain, weak, sweep, white>>
  BY DEF luaF_close
<1> DEFINE lost  == {u \in closed : isdead(u)}
           grays == {u \in closed : color[u] = "gray"}
           from  == UNION {UpValue(u) : u \in grays}
           new   == Marked(from)
<1>2. /\ live' = live \ lost
      /\ \A o \in Objs : ref'[o] =
           IF o \in lost THEN {} ELSE IF o \in closed THEN UpValue(o) ELSE ref[o]
      /\ \A u \in UpVals : open'[u] = IF u \in closed THEN Nil ELSE open[u]
      /\ UNCHANGED <<entry, grayagain, weak, sweep, white>>
  BY <1>1 DEF TypeOK
<1>3. \A x \in Threads, j \in Slots : slot'[x][j] = slot[x][j] \/ (x = th /\ slot'[x][j] = Nil)
  <2>1. slot' = [slot EXCEPT ![th] = [j \in Slots |-> IF j >= i THEN Nil ELSE slot[th][j]]]
    BY <1>1
  <2>2. \A x \in Threads : x # th => slot'[x] = slot[x] BY <2>1 DEF TypeOK
  <2>3. slot'[th] = [j \in Slots |-> IF j >= i THEN Nil ELSE slot[th][j]]
    BY <2>1 DEF TypeOK
  <2> QED BY <2>2, <2>3
<1>4. \A u \in closed : u \in live /\ u \in UpVals /\ open[u] # Nil /\ u \in Objs
  BY Kinds DEF Opened
<1>5. /\ lost \subseteq closed /\ grays \subseteq closed /\ lost \cap grays = {}
      /\ \A u \in lost : isdead(u)
      /\ \A u \in closed : isdead(u) => u \in lost
      /\ \A u \in closed : color[u] = "gray" <=> u \in grays
  BY Whites DEF isdead
<1>6. /\ from \subseteq Objs \ UpVals
      /\ \A u \in grays : UpValue(u) \subseteq from
  BY <1>4, LinksTyped
<1>7. /\ new \subseteq Objs /\ new \cap UpVals = {}
      /\ \A o \in new : iswhite(o)
      /\ \A o \in from : iswhite(o) => o \in new
      /\ \A o \in new \cap Udata : \A v \in Kids(o) : iswhite(v) => v \in new
  BY <1>6, MarkedFacts
<1>8. gcstate = "propagate" =>
        /\ \A o \in Objs : color'[o] =
             IF o \in grays \/ (o \in new /\ o \in Udata) THEN "black"
             ELSE IF o \in new THEN "gray" ELSE color[o]
        /\ gray' = gray \cup (new \cap Lists)
  <2>1. gcstate = "propagate" =>
          /\ color' = [o \in Objs |->
               IF o \in grays \/ (o \in new /\ o \in Udata \cup UpVals) THEN "black"
               ELSE IF o \in new THEN "gray" ELSE color[o]]
          /\ gray' = gray \cup (new \cap (Tables \cup Functions \cup Threads))
    BY <1>1
  <2> HIDE DEF lost, grays, from, new
  <2> QED BY <1>7, <2>1 DEF Lists
<1>9. gcstate # "propagate" => \A o \in Objs :
        color'[o] = IF o \in grays THEN white ELSE color[o]
  BY <1>1, Whites
<1> HIDE DEF lost, grays, from, new
<1>10. otherwhite' = otherwhite /\ live \subseteq Objs /\ live' \subseteq live
  BY <1>2 DEF otherwhite, TypeOK
<1>11. gcstate = "propagate" => NoneDead /\ Alive = live
  BY NoneDeadWhen, AliveIfNoneDead DEF Marking
<1>12. \A x \in live' : isdead(x)' <=> isdead(x)
  <2>1. CASE gcstate = "propagate"
    BY <1>8, <1>10, <1>11, <2>1, Whites DEF NoneDead, isdead
  <2>2. CASE gcstate # "propagate"
    BY <1>5, <1>9, <1>10, <2>2, Whites DEF isdead
  <2> QED BY <2>1, <2>2
<1>13. Alive' = Alive BY <1>2, <1>5, <1>12 DEF Alive
<1>14. lost \cap Alive = {} /\ lost \subseteq UpVals BY <1>4, <1>5 DEF Alive
<1>15. MutationSafe
  <2>1. live \cap Udata \subseteq live' BY <1>2, <1>14, Kinds
  <2> QED BY <1>10, <1>12, <1>13, <2>1 DEF MutationSafe
<1>16. th \in live /\ \A x \in Alive : x \in Objs BY <1>10 DEF Alive
<1>17. Closed'
  <2>1. {Main, Globals} \subseteq Alive BY DEF Closed
  <2>2. \A x \in Alive \cap Threads, j \in Slots : slot'[x][j] \in Alive \cup {Nil}
    BY <1>3 DEF Closed
  <2>3. ASSUME NEW u \in Alive \cap UpVals
        PROVE  IF open'[u] = Nil THEN ref'[u] \subseteq Alive
               ELSE slot'[open'[u][1]][open'[u][2]] \in Alive \cup {Nil}
    <3>1. u \notin lost /\ u \in Objs BY <1>14, <1>16
    <3>2. CASE u \in closed
      <4>1. UpValue(u) \subseteq Alive BY DEF Closed, UpValue
      <4> QED BY <1>2, <3>1, <3>2, <4>1
    <3>3. CASE u \notin closed
      <4>1. open'[u] = open[u] /\ ref'[u] = ref[u] BY <1>2, <3>1, <3>3
      <4>2. CASE open[u] = Nil BY <4>1, <4>2 DEF Closed
      <4>3. CASE open[u] # Nil
        <5>1. open[u][1] \in Threads /\ open[u][2] \in Slots BY <4>3 DEF TypeOK
        <5>2. slot[open[u][1]][open[u][2]] \in Alive \cup {Nil} BY <4>3 DEF Closed
        <5>3. slot'[open[u][1]][open[u][2]] \in Alive \cup {Nil} BY <1>3, <5>1, <5>2
        <5> QED BY <4>1, <4>3, <5>3
      <4> QED BY <4>2, <4>3
    <3> QED BY <3>2, <3>3
  <2>4. \A x \in Alive \cap (Functions \cup Udata) : ref'[x] \subseteq Alive
    <3>1. \A x \in Functions \cup Udata : x \notin closed /\ x \notin lost
      BY <1>4, <1>5, Kinds DEF Lists
    <3> QED BY <1>2, <1>16, <3>1 DEF Closed
  <2>5. \A t \in Tables \ live' : entry'[t] = {}
    BY <1>2, <1>14, Kinds DEF Closed, Lists
  <2>6. \A x \in Threads \ live', j \in Slots : slot'[x][j] = Nil
    BY <1>2, <1>3, <1>14, <1>16, Kinds DEF Closed, Lists
  <2>7. \A u \in live' \cap UpVals : open'[u] # Nil => open'[u][1] \in live'
    <3> SUFFICES ASSUME NEW u \in live' \cap UpVals, open'[u] # Nil PROVE open'[u][1] \in live'
      OBVIOUS
    <3>1. open'[u] = open[u] /\ u \in live BY <1>2, <1>10
    <3>2. open[u][1] \in Threads /\ open[u][1] \in live BY <3>1 DEF TypeOK, Closed
    <3> QED BY <1>2, <1>14, <3>1, <3>2, Kinds DEF Lists
  <2> QED BY <1>2, <1>13, <2>1, <2>2, <2>3, <2>4, <2>5, <2>6, <2>7 DEF Closed
<1>18. \A o \in Objs : color'[o] = "black" =>
         color[o] = "black" \/ o \in grays \/ (o \in new /\ o \in Udata /\ gcstate = "propagate")
  BY <1>8, <1>9, Whites
<1>19. SweepInv'
  <2>1. gcstate' \in Sweeping => \A x \in live' : Pending(x)' \/ color'[x] = white
    <3> SUFFICES ASSUME gcstate \in Sweeping, gcstate' = gcstate, NEW x \in live'
                 PROVE  Pending(x)' \/ color'[x] = white
      BY DEF Sweeping
    <3>1. x \in live /\ x \in Objs /\ x \notin lost BY <1>2, <1>10
    <3>2. color'[x] = IF x \in grays THEN white ELSE color[x]
      BY <1>9, <3>1 DEF Sweeping
    <3>3. CASE x \in closed
      <4>1. x \in UpVals /\ open[x] # Nil BY <1>4, <3>3
      <4>2. color[x] # "black" BY <3>1, <4>1 DEF SweepInv
      <4>3. ~isdead(x) BY <1>5, <3>1, <3>3
      <4>4. x # Main BY <4>1, Kinds DEF Lists
      <4>5. color[x] # otherwhite BY <4>3, <4>4 DEF isdead
      <4>6. color[x] = "gray" \/ color[x] = white
        BY <3>1, <4>2, <4>5, Whites DEF otherwhite, TypeOK, Colors
      <4> QED BY <1>5, <3>2, <3>3, <4>6
    <3>4. CASE x \notin closed
      <4>1. x \notin grays BY <1>5, <3>4
      <4>2. Pending(x) \/ color[x] = white BY <3>1 DEF SweepInv
      <4>3. Pending(x)' <=> Pending(x) BY <1>2, <3>4 DEF Pending
      <4> QED BY <3>2, <4>1, <4>2, <4>3
    <3> QED BY <3>3, <3>4
  <2>2. gcstate' \in {"pause", "finalize"} => \A x \in live' : color'[x] = white
    <3> SUFFICES ASSUME gcstate \in {"pause", "finalize"}, NEW x \in live'
                 PROVE  color'[x] = white
      OBVIOUS
    <3>1. \A y \in live : color[y] = white BY NoneDeadWhen DEF Marking, Atomic
    <3> QED BY <1>9, <1>10, <3>1
  <2>3. gcstate' \in Marking => \A x \in live' : color'[x] # otherwhite
    BY <1>8, <1>10, <1>11, Whites DEF NoneDead, Marking, Atomic
  <2>4. \A u \in live' \cap UpVals : open'[u] # Nil => color'[u] # "black"
    BY <1>2, <1>5, <1>7, <1>10, <1>18 DEF SweepInv
  <2>5. \A x \in Threads \cup Weak : color'[x] # "black"
    BY <1>4, <1>5, <1>18, Kinds DEF SweepInv, Lists
  <2>6. gcstate' \in Marking \cup {"pause", "finalize"} => sweep' = {}
    BY <1>2 DEF SweepInv, Marking, Atomic
  <2> QED BY <1>2, <1>10, <2>1, <2>2, <2>3, <2>4, <2>5, <2>6 DEF SweepInv
<1>20. MarkInv'
  <2> SUFFICES ASSUME gcstate = "propagate", gcstate' = "propagate" PROVE MarkInv'
    BY DEF MarkInv, Marking, Atomic
  <2>1. \A x \in Objs : ~iswhite(x) => ~iswhite(x)' BY <1>8 DEF iswhite
  <2>2. \A x \in new : ~iswhite(x)' BY <1>7, <1>8 DEF iswhite
  <2>3. ASSUME NEW x \in live', color'[x] = "black" PROVE KidsMarked(x)'
    <3>1. x \in live /\ x \in Objs /\ x \notin lost BY <1>2, <1>10
    <3>2. CASE color[x] = "black"
      <4>1. /\ x \notin Threads \cup Weak /\ (x \in UpVals => open[x] = Nil)
            /\ \A k \in Kids(x) : k \in Objs /\ ~iswhite(k)
        BY <3>1, <3>2, BlackObjects DEF Marking
      <4>2. x \notin closed BY <1>4, <4>1
      <4>3. Kids(x)' = Kids(x) BY <1>2, <3>1, <4>1, <4>2, KidsStay
      <4> QED BY <2>1, <4>1, <4>3 DEF KidsMarked
    <3>3. CASE x \in grays
      <4>1. x \in UpVals /\ x \in closed BY <1>4, <1>5, <3>3
      <4>2. open'[x] = Nil /\ ref'[x] = UpValue(x) BY <1>2, <3>1, <4>1
      <4>3. Kids(x)' = UpValue(x) BY <4>1, <4>2, Kinds DEF Kids, UpValue, Lists
      <4>4. \A k \in UpValue(x) : k \in from /\ k \in Objs BY <1>6, <3>3
      <4>5. \A k \in UpValue(x) : ~iswhite(k)' BY <1>7, <2>1, <2>2, <4>4
      <4> QED BY <4>3, <4>5 DEF KidsMarked
    <3>4. CASE x \in new /\ x \in Udata
      <4>1. x \notin Tables \cup Threads \cup UpVals /\ x \notin closed
        BY <1>4, <3>4, Kinds DEF Lists
      <4>2. Kids(x)' = Kids(x) BY <1>2, <3>1, <4>1, KidsStay
      <4>3. \A k \in Kids(x) : k \in Objs BY <3>1, KidsByType
      <4> QED BY <1>7, <2>1, <2>2, <3>4, <4>2, <4>3 DEF KidsMarked
    <3> QED BY <1>18, <2>3, <3>1, <3>2, <3>3, <3>4
  <2>4. \A x \in live' \cap Lists : color'[x] = "gray" => x \in gray' \cup grayagain' \cup weak'
    BY <1>2, <1>8, <1>10 DEF MarkInv, Marking
  <2>5. \A u \in live' \cap UpVals : color'[u] = "gray" => open'[u] # Nil
    <3> SUFFICES ASSUME NEW u \in live' \cap UpVals, color'[u] = "gray" PROVE open'[u] # Nil
      OBVIOUS
    <3>1. u \in live /\ u \in Objs /\ u \notin new BY <1>7, <1>10
    <3>2. u \notin grays /\ color[u] = "gray" BY <1>8, <3>1
    <3>3. u \notin closed BY <1>5, <3>2
    <3>4. open[u] # Nil BY <3>1, <3>2 DEF MarkInv, Marking
    <3> QED BY <1>2, <3>3, <3>4
  <2>6. \A u \in live' \cap Udata : color'[u] # "gray"
    BY <1>8, <1>10 DEF MarkInv, Marking
  <2>7. ~iswhite(Main)' /\ ~iswhite(Globals)'
    BY <2>1, Kinds DEF MarkInv, Marking, Lists
  <2>8. grayagain' \cap Weak = {} BY <1>2 DEF MarkInv, Marking
  <2> QED BY <2>3, <2>4, <2>5, <2>6, <2>7, <2>8 DEF MarkInv, Atomic
<1>21. live \ live' \subseteq UpVals BY <1>2, <1>14
<1> QED BY <1>10, <1>15, <1>17, <1>19, <1>20, <1>21

--------------------------------------------------------------------------------
(* Finalizers.                                                                  *)

\* No userdata is freed before its finalizer was called.
Once == \A u \in HasGC : u \in live /\ u \notin live' => called[u] = 1

\* The steps that leave the lists of userdata alone and free none.
LEMMA FinKept ==
  ASSUME TypeOK, FinInv, UNCHANGED <<finalized, tmudata>>,
         tmudata \subseteq Alive', live \cap Udata \subseteq live',
         \A u \in HasGC : called'[u] = IF u \in live' \ live THEN 0 ELSE called[u],
         gcstate' = "atomic4" => \A u \in HasGC \cap live' : iswhite(u)' => u \in finalized,
         gcstate' \in Sweeping => \A u \in HasGC \cap live' : isdead(u)' => u \in finalized,
         gcstate' = "closing" => HasGC \cap live' \subseteq finalized
  PROVE  FinInv' /\ Once
<1>1. HasGC \subseteq Udata /\ finalized \subseteq Udata BY Kinds DEF TypeOK
<1>2. finalized' \subseteq live' BY <1>1 DEF FinInv
<1>3. ASSUME NEW u \in HasGC
      PROVE  /\ called'[u] \in {0, 1}
             /\ u \in tmudata \/ (u \in live' /\ u \notin finalized) => called'[u] = 0
             /\ u \in finalized \ tmudata => called'[u] = 1
             /\ u \in live /\ u \notin live' => called[u] = 1
  <2>1. /\ called[u] \in {0, 1}
        /\ u \in tmudata \/ (u \in live /\ u \notin finalized) => called[u] = 0
        /\ u \in finalized \ tmudata => called[u] = 1 /\ u \in live
        /\ u \in tmudata => u \in live
    BY DEF FinInv
  <2>2. u \in live => u \in live' BY <1>1
  <2> QED BY <2>1, <2>2
<1> QED BY <1>2, <1>3 DEF FinInv, Once

\* A mutation makes no userdata dead that was not, and new ones have not been
\* finalized.
LEMMA MutationFin ==
  ASSUME TypeOK, FinInv, MutationSafe, UNCHANGED <<finalized, tmudata>>,
         \A u \in HasGC : called'[u] = IF u \in live' \ live THEN 0 ELSE called[u],
         gcstate \notin Atomic \cup {"closing", "closed"}, gcstate' = gcstate
  PROVE  FinInv' /\ Once
<1>1. tmudata \subseteq Alive' BY DEF FinInv, MutationSafe
<1>2. live \cap Udata \subseteq live' BY DEF MutationSafe
<1>3. gcstate \in Sweeping => \A u \in HasGC \cap live' : isdead(u)' => u \in finalized
  BY DEF FinInv, MutationSafe
<1> QED BY <1>1, <1>2, <1>3, FinKept DEF Atomic

LEMMA NoNewUdata ==
  ASSUME UNCHANGED called, live' \cap Udata \subseteq live
  PROVE  \A u \in HasGC : called'[u] = IF u \in live' \ live THEN 0 ELSE called[u]
BY Kinds

\* Steps of the collector that neither free nor finalize.
LEMMA CollectorFin ==
  ASSUME TypeOK, TypeOK', Closed, SweepInv, SweepInv', FinInv,
         UNCHANGED <<live, finals>>, Alive' = Alive,
         gcstate' = "atomic4" =>
           gcstate = "atomic4" /\ \A u \in HasGC \cap live : iswhite(u)' => iswhite(u),
         gcstate' \in Sweeping => gcstate \in Sweeping \cup {"pause", "propagate"},
         gcstate' # "closing"
  PROVE  FinInv' /\ Once
<1>1. UNCHANGED <<live, finalized, tmudata, called>> BY DEF finals
<1>2. \A u \in HasGC : called'[u] = IF u \in live' \ live THEN 0 ELSE called[u]
  BY <1>1
<1>3. tmudata \subseteq Alive' /\ live \cap Udata \subseteq live' BY <1>1 DEF FinInv
<1>4. gcstate' = "atomic4" => \A u \in HasGC \cap live' : iswhite(u)' => u \in finalized
  BY <1>1 DEF FinInv
<1>5. ASSUME gcstate' \in Sweeping, NEW u \in HasGC \cap live', isdead(u)'
      PROVE  u \in finalized
  <2>1. u \in live /\ isdead(u) BY <1>1, <1>5 DEF Alive
  <2>2. CASE gcstate \in Sweeping BY <2>1, <2>2 DEF FinInv
  <2>3. CASE gcstate \in {"pause", "propagate"}
    <3>1. Alive = live BY <2>3, NoneDeadWhen, AliveIfNoneDead DEF Marking
    <3> QED BY <2>1, <3>1 DEF Alive
  <2> QED BY <1>5, <2>2, <2>3
<1> QED BY <1>1, <1>2, <1>3, <1>4, <1>5, FinKept

\* Finalizers along the atomic phase, the sweep and at the end of the state.
LEMMA SeparateUdataFin ==
  ASSUME TypeOK, TypeOK', SweepInv, SweepInv', FinInv, SeparateUdata
  PROVE  FinInv' /\ Once
<1> DEFINE dead == {u \in Udata \cap live : iswhite(u)}
           need == {u \in dead : u \in HasGC /\ u \notin finalized}
<1>1. /\ gcstate = "atomic3" /\ gcstate' = "atomic4"
      /\ tmudata' = tmudata \cup need /\ finalized' = finalized \cup dead
      /\ UNCHANGED <<live, called, white>>
      /\ \A o \in Objs : color'[o] \in {color[o], "black", "gray"}
  BY DEF SeparateUdata, NeedFinalizing, heap
<1>2. Alive = live /\ Alive' = live
  <2>1. gcstate \in Marking /\ gcstate' \in Marking BY <1>1 DEF Marking, Atomic
  <2>2. NoneDead /\ NoneDead' BY <2>1 DEF SweepInv, NoneDead
  <2> QED BY <1>1, <2>2, AliveIfNoneDead
<1>3. finalized' \subseteq live' /\ tmudata' \subseteq finalized' \cap Alive'
  BY <1>1, <1>2 DEF FinInv
<1>4. ASSUME NEW u \in HasGC
      PROVE  /\ called'[u] \in {0, 1}
             /\ u \in tmudata' \/ (u \in live' /\ u \notin finalized') => called'[u] = 0
             /\ u \in finalized' \ tmudata' => called'[u] = 1
  BY <1>1, Kinds DEF FinInv
<1>5. \A u \in HasGC \cap live' : iswhite(u)' => u \in finalized'
  <2> SUFFICES ASSUME NEW u \in HasGC \cap live', iswhite(u)' PROVE u \in dead
    BY <1>1
  <2>1. u \in Objs /\ u \in Udata /\ u \in live BY <1>1, Kinds
  <2> QED BY <1>1, <2>1 DEF iswhite
<1> QED BY <1>1, <1>3, <1>4, <1>5 DEF FinInv, Once, Sweeping

LEMMA FinishAtomicFin ==
  ASSUME TypeOK, TypeOK', RefTyped, Closed, SweepInv, MarkInv, FinInv, FinishAtomic
  PROVE  FinInv' /\ Once
<1>1. /\ gcstate = "atomic4" /\ gcstate' = "sweepstring"
      /\ UNCHANGED <<live, finalized, tmudata, called>>
  BY DEF FinishAtomic, finals
<1>2. \A o \in live : ~iswhite(o) => o \in Alive' BY FinishAtomicInv
<1>3. tmudata \subseteq Alive'
  <2>1. \A u \in tmudata : u \in live /\ color[u] = "black"
    BY <1>1 DEF FinInv, MarkInv, Marking, Atomic
  <2> QED BY <1>2, <2>1 DEF iswhite
<1>4. \A u \in HasGC \cap live' : isdead(u)' => u \in finalized
  <2> SUFFICES ASSUME NEW u \in HasGC \cap live', isdead(u)' PROVE u \in finalized
    OBVIOUS
  <2>1. u \in live /\ u \notin Alive' BY <1>1 DEF Alive
  <2>2. iswhite(u) BY <1>2, <2>1
  <2> QED BY <1>1, <2>1, <2>2 DEF FinInv
<1>5. \A u \in HasGC : called'[u] = IF u \in live' \ live THEN 0 ELSE called[u]
  BY <1>1
<1> QED BY <1>1, <1>3, <1>4, <1>5, FinKept

LEMMA sweeplistFin ==
  ASSUME TypeOK, TypeOK', RefTyped, Closed, SweepInv, FinInv, sweeplist
  PROVE  FinInv' /\ Once
<1>1. /\ gcstate \in Sweeping /\ gcstate' = gcstate /\ UNCHANGED <<tmudata, called>>
  BY DEF sweeplist, Sweeping
<1>2. PICK S : /\ live' = live \ S /\ finalized' = finalized \ S
               /\ \A x \in S : isdead(x)
  BY sweeplistInv
<1>3. Alive' = Alive /\ \A x \in live' : isdead(x)' => isdead(x) BY sweeplistInv
<1>4. tmudata \cap S = {} BY <1>2 DEF FinInv, Alive
<1>5. finalized' \subseteq live' /\ tmudata' \subseteq finalized' \cap Alive'
  BY <1>1, <1>2, <1>3, <1>4 DEF FinInv
<1>6. ASSUME NEW u \in HasGC
      PROVE  /\ called'[u] \in {0, 1}
             /\ u \in tmudata' \/ (u \in live' /\ u \notin finalized') => called'[u] = 0
             /\ u \in finalized' \ tmudata' => called'[u] = 1
  BY <1>1, <1>2 DEF FinInv
<1>7. \A u \in HasGC \cap live' : isdead(u)' => u \in finalized'
  BY <1>1, <1>2, <1>3 DEF FinInv
<1>8. Once
  <2> SUFFICES ASSUME NEW u \in HasGC, u \in live, u \notin live' PROVE called[u] = 1
    BY DEF Once
  <2>1. u \in S /\ isdead(u) BY <1>2
  <2>2. u \in finalized /\ u \notin tmudata BY <1>1, <1>4, <2>1 DEF FinInv
  <2> QED BY <2>2 DEF FinInv
<1> QED BY <1>1, <1>5, <1>6, <1>7, <1>8 DEF FinInv, Sweeping

LEMMA GCTMFin ==
  ASSUME TypeOK, TypeOK', FinInv, Alive' = Alive, GCTM
  PROVE  FinInv' /\ Once
<1>1. PICK u \in tmudata : tmudata' = tmudata \ {u} /\ called' = [called EXCEPT ![u] = @ + 1]
  BY DEF GCTM
<1>2. /\ gcstate \in {"finalize", "closing"} /\ gcstate' = gcstate
      /\ UNCHANGED <<live, finalized>>
  BY DEF GCTM
<1>3. called[u] = 0 /\ u \in Udata /\ u \in finalized BY Kinds DEF FinInv, TypeOK
<1>4. \A x \in Udata : called'[x] = IF x = u THEN 1 ELSE called[x]
  BY <1>1, <1>3 DEF TypeOK
<1>5. ASSUME NEW x \in HasGC
      PROVE  /\ called'[x] \in {0, 1}
             /\ x \in tmudata' \/ (x \in live' /\ x \notin finalized') => called'[x] = 0
             /\ x \in finalized' \ tmudata' => called'[x] = 1
  BY <1>1, <1>2, <1>3, <1>4, Kinds DEF FinInv
<1>6. finalized' \subseteq live' /\ tmudata' \subseteq finalized' \cap Alive'
  BY <1>1, <1>2 DEF FinInv
<1> QED BY <1>2, <1>5, <1>6 DEF FinInv, Once, Sweeping

LEMMA lua_closeFin ==
  ASSUME TypeOK, TypeOK', Closed, SweepInv, FinInv, MutationSafe,
         live \ live' \subseteq UpVals, live' \subseteq live, lua_close
  PROVE  FinInv' /\ Once
<1> DEFINE need == {u \in Udata \cap live : u \in HasGC /\ u \notin finalized}
<1>1. /\ gcstate \notin Atomic \cup {"closing", "closed"} /\ gcstate' = "closing"
      /\ tmudata' = tmudata \cup need /\ finalized' = finalized \cup (live \cap Udata)
      /\ called' = called
  BY DEF lua_close, Running, NeedFinalizing
<1>2. need \subseteq Alive
  <2> SUFFICES ASSUME NEW u \in need PROVE ~isdead(u)
    BY DEF Alive
  <2>1. CASE gcstate \in Sweeping BY <2>1 DEF FinInv
  <2>2. CASE gcstate \in Marking \cup {"pause", "finalize"}
    BY <2>2, NoneDeadWhen, AliveIfNoneDead DEF Alive
  <2> QED BY <1>1, <2>1, <2>2 DEF TypeOK
<1>3. live \cap Udata \subseteq live' BY Kinds
<1>4. finalized' \subseteq live' /\ tmudata' \subseteq finalized' \cap Alive'
  BY <1>1, <1>2, <1>3, Kinds DEF FinInv, MutationSafe, TypeOK
<1>5. ASSUME NEW u \in HasGC
      PROVE  /\ called'[u] \in {0, 1}
             /\ u \in tmudata' \/ (u \in live' /\ u \notin finalized') => called'[u] = 0
             /\ u \in finalized' \ tmudata' => called'[u] = 1
             /\ u \in live => u \in live'
  BY <1>1, <1>3, Kinds DEF FinInv
<1>6. HasGC \cap live' \subseteq finalized' BY <1>1, Kinds
<1> QED BY <1>1, <1>4, <1>5, <1>6 DEF FinInv, Once, Sweeping

\* In the end everything is freed, userdata with all finalizers called.
LEMMA luaC_freeallInv ==
  ASSUME TypeOK, TypeOK', Closed, SweepInv, FinInv, luaC_freeall
  PROVE  Closed' /\ SweepInv' /\ MarkInv' /\ FinInv' /\ Once
<1>1. /\ gcstate = "closing" /\ tmudata = {} /\ gcstate' = "closed"
      /\ UNCHANGED <<color, sweep, tmudata, called>>
  BY DEF luaC_freeall, marks
<1>2. /\ live' = {} /\ finalized' = finalized \ live
      /\ \A t \in Tables : entry'[t] = IF t \in live THEN {} ELSE entry[t]
      /\ \A th \in Threads : slot'[th] = IF th \in live THEN [i \in Slots |-> Nil] ELSE slot[th]
  BY DEF luaC_freeall, Free
<1>3. Alive' = {} BY <1>2 DEF Alive
<1>4. SweepInv'
  BY <1>1, <1>2 DEF SweepInv, Marking, Atomic, Sweeping
<1>5. MarkInv' BY <1>1 DEF MarkInv, Marking, Atomic
<1>6. FinInv' /\ Once
  BY <1>1, <1>2 DEF FinInv, Once, Sweeping
<1> QED BY <1>1, <1>2, <1>3, <1>4, <1>5, <1>6 DEF Closed

--------------------------------------------------------------------------------
(* Every step of the system.                                                    *)

\* One step of the collector.
LEMMA singlestepInv ==
  ASSUME HeapInv, TypeOK', RefTyped', singlestep
  PROVE  HeapInv' /\ Once
<1> USE DEF HeapInv
<1>1. CASE propagatemark
  <2>1. Closed' /\ SweepInv' /\ MarkInv' BY <1>1, propagatemarkInv
  <2>2. /\ gcstate' = gcstate /\ gcstate \in Marking /\ UNCHANGED <<live, finals>>
        /\ \A x \in Objs : color'[x] \in {color[x], "gray", "black"}
    BY <1>1 DEF propagatemark, Marking, heap
  <2>3. Alive' = Alive
    <3>1. NoneDead /\ NoneDead' BY <2>1, <2>2 DEF SweepInv, NoneDead
    <3> QED BY <2>2, <3>1, AliveIfNoneDead
  <2>4. \A u \in HasGC \cap live : iswhite(u)' => iswhite(u)
    BY <2>2, Kinds DEF iswhite
  <2>5. gcstate' \notin Sweeping /\ gcstate' # "closing"
    BY <2>2 DEF Sweeping, Marking, Atomic
  <2>6. FinInv' /\ Once BY <2>1, <2>2, <2>3, <2>4, <2>5, CollectorFin
  <2> QED BY <2>1, <2>6
<1>2. CASE remarkupvals \/ RemarkWeak \/ RemarkGrayAgain
  <2>1. Closed' /\ SweepInv' /\ MarkInv' BY <1>2, remarkupvalsInv, RemarkInv
  <2>2. /\ gcstate \in Marking /\ gcstate' \in {"atomic1", "atomic2", "atomic3"}
        /\ UNCHANGED <<live, finals>>
    BY <1>2 DEF remarkupvals, RemarkWeak, RemarkGrayAgain, Marking, Atomic, heap
  <2>3. Alive' = Alive
    <3>1. NoneDead /\ NoneDead'
      BY <2>1, <2>2 DEF SweepInv, NoneDead, Marking, Atomic
    <3> QED BY <2>2, <3>1, AliveIfNoneDead
  <2>4. FinInv' /\ Once BY <2>1, <2>2, <2>3, CollectorFin DEF Sweeping
  <2> QED BY <2>1, <2>4
<1>3. CASE SeparateUdata
  <2>1. Closed' /\ SweepInv' /\ MarkInv' BY <1>3, SeparateUdataInv
  <2> QED BY <1>3, <2>1, SeparateUdataFin
<1>4. CASE FinishAtomic BY <1>4, FinishAtomicInv, FinishAtomicFin
<1>5. CASE sweeplist BY <1>5, sweeplistInv, sweeplistFin
<1>6. CASE StartCycle \/ EndSweepString \/ EndSweep \/ EndFinalize
  <2>1. Closed' /\ SweepInv' /\ MarkInv' /\ Alive' = Alive BY <1>6, CycleInv
  <2>2. /\ UNCHANGED <<live, finals>>
        /\ gcstate' \in {"propagate", "sweep", "finalize", "pause"}
        /\ gcstate' = "sweep" => gcstate = "sweepstring"
    BY <1>6 DEF StartCycle, EndSweepString, EndSweep, EndFinalize, markroot, heap
  <2>3. FinInv' /\ Once BY <2>1, <2>2, CollectorFin DEF Sweeping
  <2> QED BY <2>1, <2>3
<1>7. CASE GCTM
  <2>1. Closed' /\ SweepInv' /\ MarkInv' /\ Alive' = Alive
    BY <1>7, GCTMInv DEF FinInv
  <2> QED BY <1>7, <2>1, GCTMFin
<1> QED BY <1>1, <1>2, <1>3, <1>4, <1>5, <1>6, <1>7 DEF singlestep

\* One operation of the program.
LEMMA MutateInv ==
  ASSUME HeapInv, TypeOK', RefTyped', Mutate
  PROVE  HeapInv' /\ Once
<1> USE DEF HeapInv
<1>1. /\ gcstate \notin Atomic \cup {"closing", "closed"} /\ gcstate' = gcstate
      /\ \E th \in Current :
           \/ \E i \in Slots : \/ NewObject(th, i) \/ luaS_newlstr(th, i) \/ NewClosure(th, i)
                              \/ MoveTo(th, i) \/ Return(th, i)
           \/ SetTable(th) \/ SetUpval(th) \/ SetEnv(th)
  BY DEF Mutate, Running
<1>2. PICK th \in Current :
        \/ \E i \in Slots : \/ NewObject(th, i) \/ luaS_newlstr(th, i) \/ NewClosure(th, i)
                           \/ MoveTo(th, i) \/ Return(th, i)
        \/ SetTable(th) \/ SetUpval(th) \/ SetEnv(th)
  BY <1>1
<1>3. th \in Alive \cap Threads BY <1>1, CurrentAlive
<1>4. ASSUME NEW i \in Slots, NewObject(th, i) PROVE HeapInv' /\ Once
  <2>1. Closed' /\ SweepInv' /\ MarkInv' /\ MutationSafe BY <1>1, <1>3, <1>4, NewObjectInv
  <2>2. PICK o \in (Tables \cup Udata \cup Threads) \ live :
          /\ luaC_link({o})
          /\ called' = IF o \in Udata THEN [called EXCEPT ![o] = 0] ELSE called
          /\ UNCHANGED <<finalized, tmudata>>
    BY <1>4 DEF NewObject
  <2>3. \A u \in HasGC : called'[u] = IF u \in live' \ live THEN 0 ELSE called[u]
    BY <2>2, Kinds DEF luaC_link, TypeOK
  <2> QED BY <1>1, <2>1, <2>2, <2>3, MutationFin
<1>5. ASSUME NEW i \in Slots, luaS_newlstr(th, i) \/ NewClosure(th, i) \/ MoveTo(th, i) \/ Return(th, i)
      PROVE  HeapInv' /\ Once
  <2>1. Closed' /\ SweepInv' /\ MarkInv' /\ MutationSafe
    BY <1>1, <1>3, <1>5, luaS_newlstrInv, NewClosureInv, MoveToInv, luaF_closeInv DEF Return
  <2>2. UNCHANGED <<finalized, tmudata, called>>
    BY <1>5 DEF luaS_newlstr, NewClosure, MoveTo, Return, finals
  <2>3. live' \cap Udata \subseteq live
    <3>1. CASE luaS_newlstr(th, i) BY <3>1, Kinds DEF luaS_newlstr
    <3>2. CASE NewClosure(th, i)
      <4>1. \A j : luaF_findupval(th, j) \subseteq UpVals BY FoundUpval
      <4> QED BY <3>2, <4>1, Kinds DEF NewClosure, luaC_link, Lists
    <3>3. CASE MoveTo(th, i) BY <3>3 DEF MoveTo
    <3>4. CASE Return(th, i) BY <3>4 DEF Return, luaF_close
    <3> QED BY <1>5, <3>1, <3>2, <3>3, <3>4
  <2>4. \A u \in HasGC : called'[u] = IF u \in live' \ live THEN 0 ELSE called[u]
    BY <2>2, <2>3, NoNewUdata
  <2> QED BY <1>1, <2>1, <2>2, <2>4, MutationFin
<1>6. ASSUME SetTable(th) \/ SetUpval(th) \/ SetEnv(th) PROVE HeapInv' /\ Once
  <2>1. Closed' /\ SweepInv' /\ MarkInv' /\ MutationSafe
    BY <1>1, <1>3, <1>6, SetTableInv, SetUpvalInv, SetEnvInv
  <2>2. UNCHANGED <<finalized, tmudata, called, live>>
    BY <1>6 DEF SetTable, SetUpval, SetEnv, finals
  <2>3. \A u \in HasGC : called'[u] = IF u \in live' \ live THEN 0 ELSE called[u]
    BY <2>2
  <2> QED BY <1>1, <2>1, <2>2, <2>3, MutationFin
<1> QED BY <1>2, <1>4, <1>5, <1>6

LEMMA NextInv ==
  ASSUME HeapInv, Next
  PROVE  HeapInv' /\ Once
<1>1. TypeOK' /\ RefTyped' BY NextTypes DEF HeapInv
<1>2. CASE singlestep BY <1>1, <1>2, singlestepInv
<1>3. CASE Mutate BY <1>1, <1>3, MutateInv
<1>4. CASE luaC_fullgc
  <2>1. Closed' /\ SweepInv' /\ MarkInv' /\ Alive' = Alive
    BY <1>1, <1>4, luaC_fullgcInv DEF HeapInv
  <2>2. /\ UNCHANGED <<live, finals>> /\ gcstate' # "closing" /\ gcstate' # "atomic4"
        /\ gcstate' \in Sweeping => gcstate \in Sweeping \cup {"pause", "propagate"}
    BY <1>4 DEF luaC_fullgc, Running, markroot, heap, Sweeping, Atomic
  <2>3. FinInv' /\ Once BY <1>1, <2>1, <2>2, CollectorFin DEF HeapInv
  <2> QED BY <1>1, <2>1, <2>3 DEF HeapInv
<1>5. CASE lua_close
  <2>1. /\ gcstate \notin Atomic \cup {"closing", "closed"} /\ gcstate' = "closing"
        /\ luaF_close(Main, 1)
    BY <1>5 DEF lua_close, Running
  <2>2. Main \in Alive \cap Threads BY <2>1, Kinds DEF HeapInv, Closed
  <2>3. /\ Closed' /\ SweepInv' /\ MarkInv' /\ MutationSafe
        /\ live \ live' \subseteq UpVals /\ live' \subseteq live
    BY <1>1, <2>1, <2>2, luaF_closeInv DEF HeapInv
  <2> QED BY <1>1, <1>5, <2>3, lua_closeFin DEF HeapInv
<1>6. CASE luaC_freeall BY <1>1, <1>6, luaC_freeallInv DEF HeapInv
<1> QED BY <1>2, <1>3, <1>4, <1>5, <1>6 DEF Next

\* Steps that change nothing.
LEMMA StutterInv ==
  ASSUME HeapInv, UNCHANGED vars
  PROVE  HeapInv' /\ Once
<1>1. UNCHANGED <<live, ref, entry, slot, open, color, white, gcstate, gray, grayagain, weak,
                  sweep, finalized, tmudata, called, full, garbage, ops>>
  BY DEF vars, heap, marks, finals
<1>2. TypeOK' /\ RefTyped' BY <1>1 DEF HeapInv, TypeOK, RefTyped
<1>3. Alive' = Alive /\ otherwhite' = otherwhite BY <1>1 DEF Alive, isdead, otherwhite
<1>4. Closed' BY <1>1, <1>3 DEF HeapInv, Closed
<1>5. SweepInv' BY <1>1, <1>3 DEF HeapInv, SweepInv, Pending
<1>6. \A o : KidsMarked(o)' <=> KidsMarked(o)
  BY <1>1 DEF KidsMarked, Kids, Entries, Held, UpValue, iswhite
<1>7. MarkInv' BY <1>1, <1>6 DEF HeapInv, MarkInv, iswhite
<1>8. FinInv' BY <1>1, <1>3 DEF HeapInv, FinInv, iswhite, isdead
<1> QED BY <1>1, <1>2, <1>4, <1>5, <1>7, <1>8 DEF HeapInv, Once

--------------------------------------------------------------------------------
(* What a cycle collects.                                                      *)

\* What a cycle calls garbage: nothing else refers to it, it is not marked, and
\* the sweep comes to all of it.
GarbageInv ==
  gcstate \notin {"closing", "closed"} =>
    /\ \A o \in live \ garbage : Keeps(o) \cap garbage = {}
    /\ Main \notin garbage /\ tmudata \cap garbage = {}
    /\ gcstate \in Marking =>
         /\ \A o \in live \cap garbage : iswhite(o)
         /\ gray \cup grayagain \cup weak \subseteq live \ garbage
    /\ gcstate \in Sweeping => \A o \in live \cap garbage : isdead(o) /\ Pending(o)
    /\ gcstate \in {"pause", "finalize"} => live \cap garbage = {}

\* In every state, and after every step, the search is complete.
LEMMA SearchesComplete == TypeOK /\ RefTyped => SearchComplete
<1> SUFFICES ASSUME TypeOK, RefTyped PROVE \A o \in Objs : Keeps(o) \subseteq Objs
  BY ReachFromComplete
<1>1. \A o \in Objs : Kids(o) \subseteq Objs BY KidsByType
<1>2. \A t \in Tables : AllEntries(t) \subseteq Objs BY LinksTyped
<1> QED BY <1>1, <1>2 DEF Keeps

LEMMA SearchesCompleteNext == TypeOK' /\ RefTyped' => SearchComplete'
BY SearchesComplete, PTL

\* The garbage is not reached from what is not garbage.
LEMMA NoGarbageReached ==
  ASSUME TypeOK, RefTyped, Closed, GarbageInv, gcstate \notin {"closing", "closed"},
         NEW S \in SUBSET (Alive \ garbage)
  PROVE  ReachFrom(S) \subseteq Alive \ garbage
<1>1. Cardinality(Objs) \in Nat BY HeapAssumption, FS_CardinalityType
<1>2. \A o \in Alive : Keeps(o) \subseteq Alive BY KeepsAlive
<1>3. \A o \in Alive \ garbage : Keeps(o) \cap garbage = {} BY DEF GarbageInv, Alive
<1>4. \A o \in Alive \ garbage : Keeps(o) \subseteq Alive \ garbage BY <1>2, <1>3
<1> QED BY <1>1, <1>4, ReachFromClosed

LEMMA RootsNoGarbage ==
  ASSUME HeapInv, GarbageInv, gcstate \notin {"closing", "closed"}
  PROVE  Reachable \subseteq Alive \ garbage
<1>1. TypeOK /\ RefTyped /\ Closed BY DEF HeapInv
<1>2. {Main} \subseteq Alive \ garbage BY <1>1 DEF Closed, GarbageInv
<1> QED BY <1>1, <1>2, NoGarbageReached DEF Reachable

\* Marking does not leave a set that is closed under references.
LEMMA MarkedClosed ==
  ASSUME NEW T, NEW S \in SUBSET T, \A o \in T : Kids(o) \subseteq T
  PROVE  Marked(S) \subseteq T
<1> DEFINE Pale(X) == {o \in X : iswhite(o)}
           A == Pale(S)
           B == A \cup Pale(UNION {Kids(o) : o \in A \cap UpVals})
           C == B \cup Pale(UNION {Kids(o) : o \in B \cap Udata})
<1>1. Marked(S) = C BY DEF Marked
<1>2. A \subseteq T OBVIOUS
<1> HIDE DEF A
<1>3. B \subseteq T BY <1>2
<1> HIDE DEF B
<1> QED BY <1>1, <1>3

LEMMA KeepsHasKids == \A o : Kids(o) \subseteq Keeps(o)
BY DEF Keeps

\* While marking, what is not garbage marks nothing that is.
LEMMA MarkedNoGarbage ==
  ASSUME HeapInv, GarbageInv, gcstate \in Marking, NEW S \in SUBSET (live \ garbage)
  PROVE  Marked(S) \subseteq live \ garbage
<1>1. TypeOK /\ RefTyped /\ Closed /\ SweepInv BY DEF HeapInv
<1>2. Alive = live BY <1>1, NoneDeadWhen, AliveIfNoneDead
<1>3. gcstate \notin {"closing", "closed"} BY DEF Marking, Atomic
<1>4. \A o \in live : Keeps(o) \subseteq live BY <1>1, <1>2, <1>3, KeepsAlive
<1>5. \A o \in live \ garbage : Keeps(o) \cap garbage = {} BY <1>3 DEF GarbageInv
<1>6. \A o \in live \ garbage : Kids(o) \subseteq live \ garbage
  BY <1>4, <1>5, KeepsHasKids
<1> QED BY <1>6, MarkedClosed

--------------------------------------------------------------------------------
(* Operations.                                                                  *)

\* When only objects of C change, and one of them could be reached, one of them
\* still can: the way to the first of C on a path has not changed.
LEMMA ChangedReached ==
  ASSUME TypeOK, RefTyped, TypeOK', RefTyped', Closed, gcstate # "closed", NEW C,
         C \cap Reachable # {},
         \A o \in Alive \ C : Keeps(o) \subseteq Keeps(o)'
  PROVE  C \cap Reachable' # {}
<1> SUFFICES ASSUME C \cap Reachable' = {} PROVE FALSE
  OBVIOUS
<1> DEFINE T == Alive \cap Reachable'
<1>1. Cardinality(Objs) \in Nat BY HeapAssumption, FS_CardinalityType
<1>2. SearchComplete' BY SearchesCompleteNext
<1>3. {Main} \in SUBSET Objs BY Kinds DEF Lists
<1>4. Main \in Reachable' /\ \A o \in Reachable' : Keeps(o)' \subseteq Reachable'
  BY <1>2, <1>3 DEF SearchComplete, Reachable
<1>5. {Main} \subseteq T BY <1>4 DEF Closed
<1>6. \A o \in Alive : Keeps(o) \subseteq Alive BY KeepsAlive
<1>7. \A o \in T : Keeps(o) \subseteq T BY <1>4, <1>6
<1> HIDE DEF T
<1>8. Reachable \subseteq T BY <1>1, <1>5, <1>7, ReachFromClosed DEF Reachable
<1> QED BY <1>8 DEF T

\* What can be reached after a step.
LEMMA ReachableNext ==
  ASSUME TypeOK', RefTyped'
  PROVE  Main \in Reachable' /\ \A o \in Reachable' : Keeps(o)' \subseteq Reachable'
<1>1. SearchComplete' BY SearchesCompleteNext
<1>2. {Main} \in SUBSET Objs BY Kinds DEF Lists
<1> QED BY <1>1, <1>2 DEF SearchComplete, Reachable

LEMMA ReachableNow ==
  ASSUME TypeOK, RefTyped
  PROVE  Main \in Reachable /\ \A o \in Reachable : Keeps(o) \subseteq Reachable
<1>1. SearchComplete BY SearchesComplete
<1>2. {Main} \in SUBSET Objs BY Kinds DEF Lists
<1> QED BY <1>1, <1>2 DEF SearchComplete, Reachable

\* An operation of which everything new, and every new reference, can be reached.
LEMMA OperationGarbage ==
  ASSUME HeapInv, TypeOK', RefTyped', GarbageInv,
         gcstate \notin Atomic \cup {"closing", "closed"}, gcstate' = gcstate,
         garbage' = garbage \ Reachable', UNCHANGED <<tmudata, white, sweep, weak>>,
         live \cap Lists \subseteq live',
         \A o \in live' : o \in Reachable' \/ (o \in live /\ Keeps(o)' \subseteq Keeps(o) \cup Reachable'),
         gcstate \in {"propagate"} \cup Sweeping =>
           \A o \in live \cap live' \cap garbage : o \in Reachable' \/ color'[o] = color[o],
         gcstate \in Sweeping =>
           \A o \in live \cap live' \cap garbage \cap UpVals : o \in Reachable' \/ open'[o] = open[o],
         gcstate = "propagate" => gray' \cup grayagain' \subseteq live \ garbage
  PROVE  GarbageInv'
<1>1. TypeOK BY DEF HeapInv
<1>2. garbage' \cap Reachable' = {} /\ garbage' \subseteq garbage OBVIOUS
<1>3. \A o \in Reachable' : Keeps(o)' \subseteq Reachable' BY ReachableNext
<1>4. Main \notin garbage' /\ tmudata' \cap garbage' = {}
  BY <1>2 DEF GarbageInv
<1>5. \A o \in live' \cap garbage' : o \in live /\ o \in garbage /\ o \notin Reachable'
  BY <1>2
<1>6. ASSUME NEW o \in live' \ garbage' PROVE Keeps(o)' \cap garbage' = {}
  <2>1. CASE o \in Reachable' BY <1>2, <1>3, <2>1
  <2>2. CASE o \notin Reachable'
    <3>1. o \in live \ garbage BY <2>2
    <3>2. Keeps(o) \cap garbage = {} BY <3>1 DEF GarbageInv
    <3>3. Keeps(o)' \subseteq Keeps(o) \cup Reachable' BY <2>2
    <3> QED BY <1>2, <3>2, <3>3
  <2> QED BY <2>1, <2>2
<1>7. CASE gcstate \in {"pause", "finalize"}
  <2>1. live' \cap garbage' = {} BY <1>5, <1>7 DEF GarbageInv
  <2> QED BY <1>4, <1>6, <1>7, <2>1 DEF GarbageInv, Marking, Atomic, Sweeping
<1>8. CASE gcstate = "propagate"
  <2>1. \A o \in live' \cap garbage' : iswhite(o)'
    BY <1>5, <1>8 DEF GarbageInv, iswhite, Marking
  <2>2. gray' \cup grayagain' \cup weak' \subseteq live' \ garbage'
    <3>1. gray' \cup grayagain' \cup weak' \subseteq live \ garbage
      BY <1>8 DEF GarbageInv, Marking
    <3>2. gray' \cup grayagain' \cup weak' \subseteq Lists BY Kinds DEF TypeOK, Lists
    <3> QED BY <1>2, <3>1, <3>2
  <2> QED BY <1>4, <1>6, <1>8, <2>1, <2>2 DEF GarbageInv, Sweeping
<1>9. CASE gcstate \in Sweeping
  <2>1. \A o \in live' \cap garbage' : isdead(o)' /\ Pending(o)'
    BY <1>5, <1>9 DEF GarbageInv, isdead, otherwhite, Pending
  <2> QED BY <1>4, <1>6, <1>9, <2>1 DEF GarbageInv, Marking, Atomic, Sweeping
<1> QED BY <1>1, <1>7, <1>8, <1>9 DEF TypeOK, Marking, Sweeping

\* What a thread the program is in holds, and the globals, can be reached.
LEMMA HeldReachable ==
  ASSUME TypeOK, RefTyped, NEW th \in Reachable \cap Threads
  PROVE  Held(th) \subseteq Reachable /\ Globals \in Reachable
<1>1. Kids(th) = Held(th) \cup {Globals} BY KidsByType
<1> QED BY <1>1, ReachableNow, KeepsHasKids

\* Writing one stack slot, with the objects N made or made white again for it.
StackWrite(th, i, N, v) ==
  /\ th \in Threads /\ i \in Slots /\ N \subseteq Objs /\ v \in Objs \cup {Nil}
  /\ UNCHANGED <<entry, white, gray, grayagain, weak, sweep, tmudata>>
  /\ live' = live \cup N
  /\ \A x \in Objs : color'[x] = IF x \in N /\ x \notin Alive THEN white ELSE color[x]
  /\ \A x \in live : ref'[x] = ref[x]
  /\ \A u \in live \cap UpVals : open'[u] = open[u]
  /\ \A x \in Threads, j \in Slots :
       slot'[x][j] = IF x = th /\ j = i THEN v ELSE slot[x][j]
  /\ N # {} => v # Nil /\ N \subseteq {v} \cup Keeps(v)'

\* A stack is written by the program that runs in it or has an upvalue in it.
LEMMA StackGarbage ==
  ASSUME HeapInv, TypeOK', RefTyped', GarbageInv, NEW th, NEW i, NEW N, NEW v,
         StackWrite(th, i, N, v),
         th \in Reachable \/ \E u \in Reachable \cap UpVals : open[u] = <<th, i>>,
         gcstate \notin Atomic \cup {"closing", "closed"}, gcstate' = gcstate,
         garbage' = garbage \ Reachable'
  PROVE  GarbageInv'
<1>0. /\ th \in Threads /\ i \in Slots /\ N \subseteq Objs /\ v \in Objs \cup {Nil}
      /\ UNCHANGED <<entry, white, gray, grayagain, weak, sweep, tmudata>>
      /\ live' = live \cup N
      /\ \A x \in Objs : color'[x] = IF x \in N /\ x \notin Alive THEN white ELSE color[x]
      /\ \A x \in live : ref'[x] = ref[x]
      /\ \A u \in live \cap UpVals : open'[u] = open[u]
      /\ \A x \in Threads, j \in Slots :
           slot'[x][j] = IF x = th /\ j = i THEN v ELSE slot[x][j]
      /\ N # {} => v # Nil /\ N \subseteq {v} \cup Keeps(v)'
  BY DEF StackWrite
<1> USE <1>0
<1>1. TypeOK /\ RefTyped /\ Closed BY DEF HeapInv
<1> DEFINE C == {th} \cup {u \in live \cap UpVals : open[u] = <<th, i>>}
<1>2. Reachable \subseteq Alive /\ Alive \subseteq live /\ live \subseteq Objs
  BY <1>1, RootsNoGarbage DEF Alive, TypeOK
<1>3. ASSUME NEW o \in live, o \notin C PROVE Keeps(o)' = Keeps(o)
  <2>1. CASE o \in Tables
    <3>1. Kids(o)' = Kids(o) /\ AllEntries(o)' = AllEntries(o)
      BY <2>1 DEF Kids, Entries, AllEntries
    <3> QED BY <2>1, <3>1 DEF Keeps
  <2>2. CASE o \in Threads
    <3>1. o # th BY <1>3
    <3>2. Held(o)' = Held(o) BY <2>2, <3>1 DEF Held
    <3>3. o \notin Tables BY <2>2, Kinds
    <3> QED BY <2>2, <3>2, <3>3 DEF Keeps, Kids
  <2>3. CASE o \in UpVals
    <3>1. o \notin Tables \cup Threads BY <2>3, Kinds DEF Lists
    <3>2. open'[o] = open[o] /\ ref'[o] = ref[o] /\ open[o] # <<th, i>> BY <1>3, <2>3
    <3>3. UpValue(o)' = UpValue(o)
      <4>1. CASE open[o] = Nil BY <3>2, <4>1 DEF UpValue
      <4>2. CASE open[o] # Nil
        <5>1. PICK x \in Threads, j \in Slots : open[o] = <<x, j>>
          BY <1>1, <2>3, <4>2 DEF TypeOK
        <5>2. slot'[x][j] = slot[x][j] BY <3>2, <5>1
        <5>3. open[o][1] = x /\ open[o][2] = j BY <5>1
        <5>4. slot'[open'[o][1]][open'[o][2]] = slot[open[o][1]][open[o][2]]
          BY <3>2, <5>2, <5>3
        <5> QED BY <3>2, <4>2, <5>4 DEF UpValue
      <4> QED BY <4>1, <4>2
    <3> QED BY <2>3, <3>1, <3>3 DEF Keeps, Kids
  <2>4. CASE o \in Strings \cup Udata \cup Functions
    <3>1. o \notin Tables \cup Threads \cup UpVals BY <2>4, Kinds DEF Lists
    <3> QED BY <3>1 DEF Keeps, Kids
  <2> QED BY <1>2, <2>1, <2>2, <2>3, <2>4, Kinds DEF Lists
<1>4. ASSUME NEW o \in C
      PROVE  /\ Keeps(o)' \subseteq Keeps(o) \cup ({v} \ {Nil})
             /\ {v} \ {Nil} \subseteq Keeps(o)'
  <2>1. CASE o = th
    <3>1. Held(th)' \subseteq Held(th) \cup ({v} \ {Nil}) /\ {v} \ {Nil} \subseteq Held(th)'
      BY DEF Held
    <3>2. th \notin Tables BY Kinds
    <3> QED BY <2>1, <3>1, <3>2 DEF Keeps, Kids
  <2>2. CASE o \in live \cap UpVals /\ open[o] = <<th, i>>
    <3>1. o \notin Tables \cup Threads BY <2>2, Kinds DEF Lists
    <3>2. open'[o] = <<th, i>> /\ <<th, i>> # Nil BY <2>2, Kinds
    <3>3. UpValue(o)' = {v} \ {Nil} BY <3>2 DEF UpValue
    <3> QED BY <2>2, <3>1, <3>3 DEF Keeps, Kids
  <2> QED BY <1>4, <2>1, <2>2
<1>5. C \cap Reachable # {} BY <1>2
<1> HIDE DEF C
<1>6. \A o \in Alive \ C : Keeps(o) \subseteq Keeps(o)' BY <1>2, <1>3
<1>7. C \cap Reachable' # {} BY <1>1, <1>5, <1>6, ChangedReached
<1>8. \A o \in Reachable' : Keeps(o)' \subseteq Reachable' BY ReachableNext
<1>9. {v} \ {Nil} \subseteq Reachable' BY <1>4, <1>7, <1>8
<1>10. N \subseteq Reachable' BY <1>8, <1>9
<1>11. \A o \in live' : o \in Reachable' \/ (o \in live /\ Keeps(o)' \subseteq Keeps(o) \cup Reachable')
  BY <1>3, <1>4, <1>9, <1>10
<1>12. \A o \in live : o \in Reachable' \/ color'[o] = color[o]
  BY <1>2, <1>10
<1>13. \A o \in live \cap UpVals : open'[o] = open[o] OBVIOUS
<1>14. gcstate = "propagate" => gray' \cup grayagain' \subseteq live \ garbage
  BY DEF GarbageInv, Marking
<1>15. live \cap Lists \subseteq live' OBVIOUS
<1> QED BY <1>11, <1>12, <1>13, <1>14, <1>15, OperationGarbage

\* An operation that writes a reference of the object o, which can be reached.
\* What the write barrier marks could be reached before.
LEMMA WriteGarbage ==
  ASSUME HeapInv, TypeOK', RefTyped', GarbageInv,
         NEW o \in Reachable,
         gcstate \notin Atomic \cup {"closing", "closed"}, gcstate' = gcstate,
         garbage' = garbage \ Reachable',
         UNCHANGED <<live, slot, open, white, sweep, weak, tmudata>>,
         \A x \in Tables : x # o => entry'[x] = entry[x],
         \A x \in Objs : x # o => ref'[x] = ref[x],
         \A x \in live \cap garbage : color'[x] = color[x],
         gcstate = "propagate" => gray' \cup grayagain' \subseteq live \ garbage
  PROVE  GarbageInv'
<1>1. TypeOK /\ RefTyped /\ Closed BY DEF HeapInv
<1>2. Reachable \subseteq Alive /\ Alive \subseteq live /\ live \subseteq Objs
  BY <1>1, RootsNoGarbage DEF Alive, TypeOK
<1>3. \A x \in live : x # o => Keeps(x)' = Keeps(x)
  BY <1>2 DEF Keeps, Kids, Entries, AllEntries, Held, UpValue
<1> DEFINE C == {o}
<1>4. C \cap Reachable # {} /\ \A x \in Alive \ C : Keeps(x) \subseteq Keeps(x)'
  BY <1>2, <1>3
<1> HIDE DEF C
<1>5. C \cap Reachable' # {} BY <1>1, <1>4, ChangedReached
<1>6. o \in Reachable' BY <1>5 DEF C
<1>7. \A x \in live' : x \in Reachable' \/ (x \in live /\ Keeps(x)' \subseteq Keeps(x) \cup Reachable')
  BY <1>3, <1>6
<1> QED BY <1>7, OperationGarbage

LEMMA luaC_barrierGarbage ==
  ASSUME HeapInv, GarbageInv, gcstate \notin Atomic \cup {"closing", "closed"},
         NEW o \in Reachable, NEW v \in Reachable \cup {Nil}, luaC_barrier(o, v)
  PROVE  /\ UNCHANGED <<white, sweep, weak>>
         /\ \A x \in live \cap garbage : color'[x] = color[x]
         /\ gcstate = "propagate" => gray' \cup grayagain' \subseteq live \ garbage
<1>1. TypeOK /\ RefTyped BY DEF HeapInv
<1>2. Reachable \subseteq Alive \ garbage /\ Alive \subseteq live /\ live \subseteq Objs
  BY <1>1, RootsNoGarbage DEF Alive, TypeOK
<1>3. gcstate = "propagate" => gray \cup grayagain \subseteq live \ garbage
  BY DEF GarbageInv, Marking
<1>4. CASE v = Nil \/ color[o] # "black" \/ ~iswhite(v)
  BY <1>3, <1>4 DEF luaC_barrier, marks
<1>5. CASE v # Nil /\ color[o] = "black" /\ iswhite(v) /\ gcstate = "propagate"
  <2> DEFINE new == Marked({v})
  <2>1. /\ color' = [x \in Objs |->
              IF x \notin new THEN color[x]
              ELSE IF x \in Udata \/ (x \in UpVals /\ open[x] = Nil) THEN "black"
              ELSE "gray"]
        /\ gray' = gray \cup (new \cap (Tables \cup Functions \cup Threads))
        /\ UNCHANGED <<grayagain, weak, sweep, white>>
    BY <1>5 DEF luaC_barrier, reallymarkobject
  <2>2. {v} \in SUBSET (live \ garbage) BY <1>2, <1>5
  <2>3. new \subseteq live \ garbage BY <1>5, <2>2, MarkedNoGarbage DEF Marking
  <2> HIDE DEF new
  <2> QED BY <1>2, <1>3, <2>1, <2>3
<1>6. CASE v # Nil /\ color[o] = "black" /\ iswhite(v) /\ gcstate # "propagate"
  <2>1. /\ color' = [color EXCEPT ![o] = luaC_white]
        /\ UNCHANGED <<gray, grayagain, weak, sweep, white>>
    BY <1>6 DEF luaC_barrier
  <2>2. o \notin garbage BY <1>2
  <2> QED BY <1>1, <1>6, <2>1, <2>2 DEF TypeOK
<1> QED BY <1>4, <1>5, <1>6

\* The operations that only write a stack slot and make what they put there.
LEMMA StackOperations ==
  ASSUME HeapInv, TypeOK', RefTyped', GarbageInv,
         NEW th \in Current, NEW i \in Slots,
         NewObject(th, i) \/ luaS_newlstr(th, i) \/ NewClosure(th, i) \/ MoveTo(th, i),
         gcstate \notin Atomic \cup {"closing", "closed"}, gcstate' = gcstate,
         garbage' = garbage \ Reachable'
  PROVE  GarbageInv'
<1>1. TypeOK /\ RefTyped /\ Closed BY DEF HeapInv
<1>2. /\ th \in Reachable /\ th \in Alive \cap Threads /\ th \in Threads
      /\ Reachable \subseteq Alive /\ Alive \subseteq live
  BY <1>1, CurrentAlive, RootsNoGarbage DEF Current, Alive
<1>0. th \in Threads /\ (th \in Reachable \/ \E u \in Reachable \cap UpVals : open[u] = <<th, i>>)
  BY <1>2
<1>3. CASE NewObject(th, i)
  <2>1. PICK o \in (Tables \cup Udata \cup Threads) \ live :
    /\ luaC_link({o})
    /\ ref' = IF o \in Udata THEN [ref EXCEPT ![o] = {Globals}] ELSE ref
    /\ slot' = [slot EXCEPT ![th][i] = o]
    /\ UNCHANGED <<entry, open, gray, grayagain, weak, sweep, white, finalized, tmudata>>
    BY <1>3 DEF NewObject
  <2>2. o \in Objs /\ o # Nil BY Kinds DEF Lists
  <2>3. o \in Vals /\ o \notin Alive BY <2>1, <2>2, Kinds DEF Vals, Lists, Alive
  <2>4. \A x \in Threads, j \in Slots :
          slot'[x][j] = IF x = th /\ j = i THEN o ELSE slot[x][j]
    BY <1>0, <1>1, <2>1, <2>3, SlotWritten, ZenonT(40)
  <2> DEFINE N == {o}
  <2>5. /\ N \in SUBSET Objs /\ live' = live \cup N /\ N \subseteq {o} \cup Keeps(o)'
        /\ \A x \in Objs : color'[x] = IF x \in N /\ x \notin Alive THEN white ELSE color[x]
    BY <1>1, <2>1, <2>2, <2>3, Whites DEF luaC_link
  <2>6. \A x \in live : ref'[x] = ref[x] BY <1>1, <2>1 DEF TypeOK
  <2>7. UNCHANGED <<entry, white, gray, grayagain, weak, sweep, tmudata>>
        /\ \A u \in live \cap UpVals : open'[u] = open[u]
    BY <2>1
  <2>8. o \in Objs \cup {Nil} /\ (N # {} => o # Nil /\ N \subseteq {o} \cup Keeps(o)')
    BY <2>2, <2>5
  <2> HIDE DEF N
  <2>9. StackWrite(th, i, N, o) BY <1>0, <2>4, <2>5, <2>6, <2>7, <2>8 DEF StackWrite
  <2> QED BY <1>0, <2>9, StackGarbage
<1>4. CASE luaS_newlstr(th, i)
  <2>1. PICK str \in Strings :
    /\ live' = live \cup {str}
    /\ color' = [color EXCEPT ![str] = IF str \in live /\ ~isdead(str) THEN @ ELSE luaC_white]
    /\ slot' = [slot EXCEPT ![th][i] = str]
    /\ UNCHANGED <<ref, entry, open, gray, grayagain, weak, sweep, white, finals>>
    BY <1>4 DEF luaS_newlstr
  <2>2. str \in Objs /\ str # Nil BY Kinds DEF Lists
  <2>3. str \in Vals BY <2>1, <2>2, Kinds DEF Vals, Lists
  <2>4. \A x \in Threads, j \in Slots :
          slot'[x][j] = IF x = th /\ j = i THEN str ELSE slot[x][j]
    BY <1>0, <1>1, <2>1, <2>3, SlotWritten
  <2> DEFINE N == {str}
  <2>5. /\ N \in SUBSET Objs /\ live' = live \cup N /\ N \subseteq {str} \cup Keeps(str)'
        /\ \A x \in Objs : color'[x] = IF x \in N /\ x \notin Alive THEN white ELSE color[x]
    BY <1>1, <2>1, <2>2, Whites DEF TypeOK, Alive
  <2>6. \A x \in live : ref'[x] = ref[x] BY <2>1
  <2>7. UNCHANGED <<entry, white, gray, grayagain, weak, sweep, tmudata>>
        /\ \A u \in live \cap UpVals : open'[u] = open[u]
    BY <2>1 DEF finals
  <2>8. str \in Objs \cup {Nil} /\ (N # {} => str # Nil /\ N \subseteq {str} \cup Keeps(str)')
    BY <2>2, <2>5
  <2> HIDE DEF N
  <2>9. StackWrite(th, i, N, str) BY <1>0, <2>4, <2>5, <2>6, <2>7, <2>8 DEF StackWrite
  <2> QED BY <1>0, <2>9, StackGarbage
<1>5. CASE NewClosure(th, i)
  <2>1. PICK f \in Functions \ live :
    /\ \/ \E j \in Slots : \E u \in luaF_findupval(th, j) :
            /\ live' = live \cup {f, u}
            /\ color' = [color EXCEPT ![f] = luaC_white,
                                     ![u] = IF u \in live /\ ~isdead(u) THEN @ ELSE luaC_white]
            /\ ref' = [ref EXCEPT ![f] = {Globals, u}]
            /\ open' = [open EXCEPT ![u] = <<th, j>>]
       \/ \E g \in Held(th) \cap Functions : \E u \in ref[g] \cap UpVals :
            /\ luaC_link({f})
            /\ ref' = [ref EXCEPT ![f] = {Globals, u}]
            /\ open' = open
    /\ slot' = [slot EXCEPT ![th][i] = f]
    /\ UNCHANGED <<entry, gray, grayagain, weak, sweep, white, finals>>
    BY <1>5 DEF NewClosure
  <2>2. f \in Objs /\ f # Nil /\ f \in Vals /\ f \notin Alive /\ f \notin Tables \cup Threads \cup UpVals
    BY <2>1, Kinds DEF Lists, Vals, Alive
  <2>3. \A x \in Threads, j \in Slots :
          slot'[x][j] = IF x = th /\ j = i THEN f ELSE slot[x][j]
    <3>1. slot' = [slot EXCEPT ![th][i] = f] BY <2>1
    <3>2. f \in Vals /\ th \in Threads BY <1>2, <2>2
    <3> QED BY <1>1, <3>1, <3>2, SlotWritten
  <2>4. UNCHANGED <<entry, white, gray, grayagain, weak, sweep, tmudata>>
    BY <2>1 DEF finals
  <2>5. Keeps(f)' = ref'[f] BY <2>2 DEF Keeps, Kids
  <2>6. ASSUME NEW j \in Slots, NEW u \in luaF_findupval(th, j),
               live' = live \cup {f, u},
               color' = [color EXCEPT ![f] = luaC_white,
                                     ![u] = IF u \in live /\ ~isdead(u) THEN @ ELSE luaC_white],
               ref' = [ref EXCEPT ![f] = {Globals, u}],
               open' = [open EXCEPT ![u] = <<th, j>>]
        PROVE  GarbageInv'
    <3>1. u \in UpVals /\ (u \in live => open[u] = <<th, j>>) BY FoundUpval
    <3>2. u \in Objs /\ u # f BY <2>2, <3>1, Kinds DEF Lists
    <3> DEFINE N == {f, u}
    <3>3. N \in SUBSET Objs /\ live' = live \cup N BY <2>2, <2>6, <3>2
    <3>4. \A x \in Objs : color'[x] = IF x \in N /\ x \notin Alive THEN white ELSE color[x]
      BY <1>1, <2>2, <2>6, <3>2, Whites DEF TypeOK, Alive
    <3>5. /\ \A x \in live : ref'[x] = ref[x]
          /\ ref'[f] = {Globals, u}
      BY <1>1, <2>1, <2>2, <2>6 DEF TypeOK
    <3>6. \A x \in live \cap UpVals : open'[x] = open[x]
      BY <1>1, <2>6, <3>1 DEF TypeOK
    <3>7. f \in Objs \cup {Nil} /\ (N # {} => f # Nil /\ N \subseteq {f} \cup Keeps(f)')
      BY <2>2, <2>5, <3>5
    <3> HIDE DEF N
    <3>8. StackWrite(th, i, N, f) BY <1>0, <2>3, <2>4, <3>3, <3>4, <3>5, <3>6, <3>7 DEF StackWrite
    <3> QED BY <1>0, <3>8, StackGarbage
  <2>7. ASSUME NEW g \in Held(th) \cap Functions, NEW u \in ref[g] \cap UpVals,
               luaC_link({f}), ref' = [ref EXCEPT ![f] = {Globals, u}], open' = open
        PROVE  GarbageInv'
    <3> DEFINE N == {f}
    <3>1. /\ N \in SUBSET Objs /\ live' = live \cup N /\ N \subseteq {f} \cup Keeps(f)'
          /\ \A x \in Objs : color'[x] = IF x \in N /\ x \notin Alive THEN white ELSE color[x]
      BY <1>1, <2>2, <2>7, Whites DEF luaC_link
    <3>2. \A x \in live : ref'[x] = ref[x] BY <1>1, <2>1, <2>2, <2>7 DEF TypeOK
    <3>3. \A x \in live \cap UpVals : open'[x] = open[x] BY <2>7
    <3>4. f \in Objs \cup {Nil} /\ (N # {} => f # Nil /\ N \subseteq {f} \cup Keeps(f)')
      BY <2>2, <3>1
    <3> HIDE DEF N
    <3>5. StackWrite(th, i, N, f) BY <1>0, <2>3, <2>4, <3>1, <3>2, <3>3, <3>4 DEF StackWrite
    <3> QED BY <1>0, <3>5, StackGarbage
  <2> QED BY <2>1, <2>6, <2>7
<1>6. CASE MoveTo(th, i)
  <2>1. PICK v : /\ v \in {Nil} \cup UNION {Reads(o) : o \in Held(th) \cup {Globals, th}}
                 /\ slot' = [slot EXCEPT ![th][i] = v]
    BY <1>6 DEF MoveTo
  <2>2. UNCHANGED <<live, ref, entry, open, marks, tmudata>> BY <1>6 DEF MoveTo, finals
  <2>3. gcstate # "closed" OBVIOUS
  <2>4. v \in Vals /\ v \in Objs \cup {Nil}
    <3>1. \A o \in Held(th) \cup {Globals, th} : o \in Objs \ UpVals
      BY <1>1, <1>2, <2>3, HeldAlive, Kinds DEF Lists
    <3> QED BY <1>1, <2>1, <3>1, ReadsTyped DEF Vals
  <2>5. \A x \in Threads, j \in Slots :
          slot'[x][j] = IF x = th /\ j = i THEN v ELSE slot[x][j]
    BY <1>0, <1>1, <2>1, <2>4, SlotWritten, ZenonT(40)
  <2> DEFINE N == {}
  <2>6. /\ N \in SUBSET Objs /\ N = {} /\ live' = live \cup N
        /\ \A x \in Objs : color'[x] = IF x \in N /\ x \notin Alive THEN white ELSE color[x]
    BY <2>2 DEF marks
  <2>7. /\ \A x \in live : ref'[x] = ref[x]
        /\ \A u \in live \cap UpVals : open'[u] = open[u]
        /\ UNCHANGED <<entry, white, gray, grayagain, weak, sweep, tmudata>>
    BY <2>2 DEF marks
  <2>8. v \in Objs \cup {Nil} /\ (N # {} => v # Nil /\ N \subseteq {v} \cup Keeps(v)')
    BY <2>4, <2>6
  <2> HIDE DEF N
  <2>9. StackWrite(th, i, N, v) BY <1>0, <2>5, <2>6, <2>7, <2>8 DEF StackWrite
  <2> QED BY <1>0, <2>9, StackGarbage
<1> QED BY <1>3, <1>4, <1>5, <1>6

\* The assignments: to a table, an upvalue, an environment.
LEMMA SetTableGarbage ==
  ASSUME HeapInv, TypeOK', RefTyped', GarbageInv, NEW th \in Current, SetTable(th),
         gcstate \notin Atomic \cup {"closing", "closed"}, gcstate' = gcstate,
         garbage' = garbage \ Reachable'
  PROVE  GarbageInv'
<1>1. TypeOK /\ RefTyped BY DEF HeapInv
<1>2. PICK t \in (Held(th) \cup {Globals}) \cap Tables :
    /\ \E X : entry' = [entry EXCEPT ![t] = X]
    /\ \E S : luaC_barriert(t, S)
    /\ UNCHANGED <<live, ref, slot, open, finals>>
  BY DEF SetTable
<1>3. /\ t \in Reachable
      /\ Reachable \subseteq Alive \ garbage /\ Alive \subseteq live
  BY <1>1, <1>2, HeldReachable, RootsNoGarbage DEF Current, Alive
<1>4. \A x \in Tables : x # t => entry'[x] = entry[x] BY <1>1, <1>2 DEF TypeOK
<1>5. UNCHANGED <<live, ref, slot, open, tmudata>> BY <1>2 DEF finals
<1>6. /\ UNCHANGED <<white, sweep, weak, gray>>
      /\ \A x \in live \cap garbage : color'[x] = color[x]
      /\ grayagain' \subseteq grayagain \cup {t}
  <2>1. CASE UNCHANGED marks BY <2>1 DEF marks
  <2>2. CASE /\ color' = [color EXCEPT ![t] = "gray"]
             /\ grayagain' = grayagain \cup {t}
             /\ UNCHANGED <<gray, weak, sweep, white>>
    BY <1>1, <1>3, <2>2 DEF TypeOK
  <2> QED BY <1>2, <2>1, <2>2 DEF luaC_barriert
<1>7. gcstate = "propagate" => gray' \cup grayagain' \subseteq live \ garbage
  BY <1>3, <1>6 DEF GarbageInv, Marking
<1> QED BY <1>3, <1>4, <1>5, <1>6, <1>7, WriteGarbage

LEMMA SetUpvalGarbage ==
  ASSUME HeapInv, TypeOK', RefTyped', GarbageInv, NEW th \in Current, SetUpval(th),
         gcstate \notin Atomic \cup {"closing", "closed"}, gcstate' = gcstate,
         garbage' = garbage \ Reachable'
  PROVE  GarbageInv'
<1>1. TypeOK /\ RefTyped /\ Closed /\ SweepInv BY DEF HeapInv
<1>2. PICK f \in Held(th) \cap Functions : \E u \in ref[f] \cap UpVals, v \in Held(th) \cup {Nil} :
    /\ IF open[u] = Nil
       THEN /\ ref' = [ref EXCEPT ![u] = {v} \ {Nil}]
            /\ slot' = slot
       ELSE /\ slot' = [slot EXCEPT ![open[u][1]][open[u][2]] = v]
            /\ ref' = ref
    /\ luaC_barrier(u, v)
    /\ UNCHANGED <<live, entry, open, finals>>
  BY DEF SetUpval
<1>3. PICK u, v : u \in ref[f] \cap UpVals /\ v \in Held(th) \cup {Nil} /\ <1>2!(f)!(u, v)
  BY <1>2
<1>4. f \in Reachable /\ v \in Reachable \cup {Nil}
  BY <1>1, <1>2, <1>3, HeldReachable DEF Current
<1>5. u \in Reachable
  <2>1. Kids(f) = ref[f] BY <1>1, KidsByType
  <2> QED BY <1>1, <1>3, <1>4, <2>1, ReachableNow, KeepsHasKids
<1>6. u \in Alive /\ u \in live /\ u \in UpVals /\ u \in Objs
  BY <1>1, <1>3, <1>5, RootsNoGarbage, Kinds DEF Alive
<1>7. v \in Vals /\ v \in Objs \cup {Nil}
  <2>1. Held(th) \subseteq Objs \ UpVals BY <1>1, LinksTyped DEF Current
  <2> QED BY <1>3, <2>1 DEF Vals
<1>8. UNCHANGED <<live, entry, open, tmudata>> BY <1>3 DEF finals
<1>9. CASE open[u] = Nil
  <2>1. /\ UNCHANGED <<white, sweep, weak>>
        /\ \A x \in live \cap garbage : color'[x] = color[x]
        /\ gcstate = "propagate" => gray' \cup grayagain' \subseteq live \ garbage
    BY <1>3, <1>4, <1>5, luaC_barrierGarbage
  <2>2. slot' = slot /\ \A x \in Objs : x # u => ref'[x] = ref[x]
    BY <1>1, <1>3, <1>9 DEF TypeOK
  <2>3. \A x \in Tables : x # u => entry'[x] = entry[x] BY <1>8
  <2> QED BY <1>5, <1>8, <2>1, <2>2, <2>3, WriteGarbage
<1>10. CASE open[u] # Nil
  <2>1. PICK tt \in Threads, ii \in Slots : open[u] = <<tt, ii>>
    BY <1>1, <1>6, <1>10 DEF TypeOK
  <2>2. color[u] # "black" BY <1>1, <1>6, <1>10 DEF SweepInv
  <2>3. UNCHANGED marks BY <1>3, <2>2 DEF luaC_barrier
  <2> DEFINE N == {}
  <2>4. slot' = [slot EXCEPT ![tt][ii] = v] BY <1>3, <1>10, <2>1
  <2>5. \A x \in Threads, j \in Slots :
          slot'[x][j] = IF x = tt /\ j = ii THEN v ELSE slot[x][j]
    BY <1>1, <1>7, <2>4, SlotWritten
  <2>6. ref' = ref BY <1>3, <1>10
  <2>7. /\ N \in SUBSET Objs /\ N = {} /\ live' = live \cup N
        /\ \A x \in Objs : color'[x] = IF x \in N /\ x \notin Alive THEN white ELSE color[x]
    BY <1>8, <2>3 DEF marks
  <2>8. /\ \A x \in live : ref'[x] = ref[x]
        /\ \A x \in live \cap UpVals : open'[x] = open[x]
        /\ UNCHANGED <<entry, white, gray, grayagain, weak, sweep, tmudata>>
    BY <1>8, <2>3, <2>6 DEF marks
  <2>9. \E x \in Reachable \cap UpVals : open[x] = <<tt, ii>> BY <1>5, <1>6, <2>1
  <2>10. v \in Objs \cup {Nil} /\ (N # {} => v # Nil /\ N \subseteq {v} \cup Keeps(v)')
    BY <1>7, <2>7
  <2> HIDE DEF N
  <2>11. StackWrite(tt, ii, N, v) BY <2>5, <2>7, <2>8, <2>10 DEF StackWrite
  <2> QED BY <2>9, <2>11, StackGarbage
<1> QED BY <1>9, <1>10

LEMMA SetEnvGarbage ==
  ASSUME HeapInv, TypeOK', RefTyped', GarbageInv, NEW th \in Current, SetEnv(th),
         gcstate \notin Atomic \cup {"closing", "closed"}, gcstate' = gcstate,
         garbage' = garbage \ Reachable'
  PROVE  GarbageInv'
<1>1. TypeOK /\ RefTyped BY DEF HeapInv
<1>2. PICK o \in Held(th) \cap (Functions \cup Udata), t \in Held(th) \cap Tables :
    /\ ref' = [ref EXCEPT ![o] = (@ \ Tables) \cup {t}]
    /\ luaC_barrier(o, t)
    /\ UNCHANGED <<live, entry, slot, open, finals>>
  BY DEF SetEnv
<1>3. o \in Reachable /\ t \in Reachable \cup {Nil}
  BY <1>1, <1>2, HeldReachable DEF Current
<1>4. /\ UNCHANGED <<white, sweep, weak>>
      /\ \A x \in live \cap garbage : color'[x] = color[x]
      /\ gcstate = "propagate" => gray' \cup grayagain' \subseteq live \ garbage
  BY <1>2, <1>3, luaC_barrierGarbage
<1>5. /\ UNCHANGED <<live, slot, open, tmudata>>
      /\ \A x \in Objs : x # o => ref'[x] = ref[x]
      /\ \A x \in Tables : x # o => entry'[x] = entry[x]
  BY <1>1, <1>2 DEF TypeOK, finals
<1> QED BY <1>3, <1>4, <1>5, WriteGarbage

\* Leaving stack slots makes no reference that was not there, and the dead
\* upvalues that the sweep can no longer come to are freed.
LEMMA ReturnGarbage ==
  ASSUME HeapInv, TypeOK', RefTyped', GarbageInv, NEW th \in Current, NEW i, luaF_close(th, i),
         UNCHANGED finals,
         gcstate \notin Atomic \cup {"closing", "closed"}, gcstate' = gcstate,
         garbage' = garbage \ Reachable'
  PROVE  GarbageInv'
<1>0. TypeOK /\ RefTyped /\ Closed BY DEF HeapInv
<1>1. PICK closed \in {{u \in Opened(th) : open[u][2] >= i}} :
    LET lost  == {u \in closed : isdead(u)}
        grays == {u \in closed : color[u] = "gray"}
    IN
    /\ live' = live \ lost
    /\ ref' = [o \in DOMAIN ref |->
         IF o \in lost THEN {} ELSE IF o \in closed THEN UpValue(o) ELSE ref[o]]
    /\ open' = [u \in UpVals |-> IF u \in closed THEN Nil ELSE open[u]]
    /\ slot' = [slot EXCEPT ![th] = [j \in Slots |-> IF j >= i THEN Nil ELSE @[j]]]
    /\ IF gcstate = "propagate"
       THEN \E new \in {Marked(UNION {UpValue(u) : u \in grays})} :
              /\ color' = [o \in Objs |->
                   IF o \in grays \/ (o \in new /\ o \in Udata \cup UpVals) THEN "black"
                   ELSE IF o \in new THEN "gray" ELSE color[o]]
              /\ gray' = gray \cup (new \cap (Tables \cup Functions \cup Threads))
       ELSE /\ color' = [o \in Objs |-> IF o \in grays THEN luaC_white ELSE color[o]]
            /\ gray' = gray
    /\ UNCHANGED <<entry, grayagain, weak, sweep, white>>
  BY DEF luaF_close
<1> DEFINE lost  == {u \in closed : isdead(u)}
           grays == {u \in closed : color[u] = "gray"}
           from  == UNION {UpValue(u) : u \in grays}
           new   == Marked(from)
<1>2. /\ live' = live \ lost
      /\ \A o \in Objs : ref'[o] =
           IF o \in lost THEN {} ELSE IF o \in closed THEN UpValue(o) ELSE ref[o]
      /\ \A u \in UpVals : open'[u] = IF u \in closed THEN Nil ELSE open[u]
      /\ UNCHANGED <<entry, grayagain, weak, sweep, white>>
  BY <1>0, <1>1 DEF TypeOK
<1>3. \A x \in Threads, j \in Slots : slot'[x][j] = slot[x][j] \/ (x = th /\ slot'[x][j] = Nil)
  <2>1. slot' = [slot EXCEPT ![th] = [j \in Slots |-> IF j >= i THEN Nil ELSE slot[th][j]]]
    BY <1>1
  <2>2. \A x \in Threads : x # th => slot'[x] = slot[x] BY <1>0, <2>1 DEF TypeOK
  <2>3. slot'[th] = [j \in Slots |-> IF j >= i THEN Nil ELSE slot[th][j]]
    BY <1>0, <2>1 DEF TypeOK, Current
  <2> QED BY <2>2, <2>3
<1>4. \A u \in closed : u \in live /\ u \in UpVals /\ open[u] # Nil /\ u \in Objs
  BY Kinds DEF Opened
<1>5. /\ lost \subseteq closed /\ grays \subseteq closed
      /\ \A u \in closed : isdead(u) => u \in lost
      /\ \A u \in closed : color[u] = "gray" <=> u \in grays
  OBVIOUS
<1>6. /\ gcstate = "propagate" => \A o \in Objs : o \notin grays \cup new => color'[o] = color[o]
      /\ gcstate # "propagate" => \A o \in Objs : o \notin grays => color'[o] = color[o]
      /\ gcstate = "propagate" => gray' \subseteq gray \cup new
  BY <1>1
<1>7. /\ gcstate = "propagate" => grays \cap garbage = {} /\ new \subseteq live \ garbage
      /\ gcstate \in Sweeping => grays \cap garbage = {}
  <2>1. CASE gcstate = "propagate"
    <3>1. gcstate \in Marking /\ Alive = live
      BY <2>1, NoneDeadWhen, AliveIfNoneDead DEF HeapInv, Marking
    <3>2. grays \cap garbage = {} BY <1>4, <1>5, <3>1 DEF GarbageInv, iswhite
    <3>3. \A u \in grays : u \in live /\ u \notin garbage /\ UpValue(u) \subseteq live \ garbage
      <4> SUFFICES ASSUME NEW u \in grays
                   PROVE  u \in live /\ u \notin garbage /\ UpValue(u) \subseteq live \ garbage
        OBVIOUS
      <4>1. u \in live /\ u \in UpVals /\ u \notin garbage BY <1>4, <1>5, <3>2
      <4>2. Kids(u) = UpValue(u) BY <1>0, <4>1, KidsByType
      <4>3. Kids(u) \subseteq live BY <1>0, <3>1, <4>1, KeepsAlive
      <4>4. Keeps(u) \cap garbage = {} BY <4>1 DEF GarbageInv
      <4> QED BY <4>1, <4>2, <4>3, <4>4, KeepsHasKids
    <3>4. from \in SUBSET (live \ garbage) BY <3>3
    <3> HIDE DEF from, grays
    <3>5. new \subseteq live \ garbage BY <3>1, <3>4, MarkedNoGarbage
    <3> QED BY <2>1, <3>2, <3>5 DEF Sweeping
  <2>2. CASE gcstate \in Sweeping
    <3>1. \A o \in live \cap garbage : isdead(o) BY <2>2 DEF GarbageInv, Sweeping
    <3>2. \A o \in grays : ~isdead(o) BY <1>0, Whites DEF isdead
    <3> QED BY <1>4, <1>5, <2>2, <3>1, <3>2 DEF Sweeping
  <2> QED BY <2>1, <2>2
<1> HIDE DEF lost, grays, new, from
<1>8. UNCHANGED <<tmudata, white, sweep, weak>> BY <1>2 DEF finals
<1>9. live \cap Lists \subseteq live' BY <1>2, <1>4, <1>5, Kinds
<1>10. ASSUME NEW o \in live' PROVE o \in live /\ Keeps(o)' \subseteq Keeps(o)
  <2>1. o \in live /\ o \in Objs /\ o \notin lost BY <1>0, <1>2 DEF TypeOK
  <2>2. CASE o \in Tables
    <3>1. Kids(o)' = Kids(o) /\ AllEntries(o)' = AllEntries(o)
      BY <1>2, <2>2 DEF Kids, Entries, AllEntries
    <3> QED BY <2>1, <3>1 DEF Keeps
  <2>3. CASE o \in Threads
    <3>1. Held(o)' \subseteq Held(o) BY <1>3, <2>3 DEF Held
    <3>2. o \notin Tables BY <2>3, Kinds
    <3> QED BY <2>1, <2>3, <3>1, <3>2 DEF Keeps, Kids
  <2>4. CASE o \in UpVals
    <3>1. o \notin Tables \cup Threads BY <2>4, Kinds DEF Lists
    <3>2. UpValue(o)' \subseteq UpValue(o)
      <4>1. CASE o \in closed BY <1>2, <2>1, <2>4, <4>1 DEF UpValue
      <4>2. CASE o \notin closed /\ open[o] = Nil BY <1>2, <2>1, <2>4, <4>2 DEF UpValue
      <4>3. CASE o \notin closed /\ open[o] # Nil
        <5>1. open[o][1] \in Threads /\ open[o][2] \in Slots BY <1>0, <2>4, <4>3 DEF TypeOK
        <5>2. slot'[open[o][1]][open[o][2]] \in {slot[open[o][1]][open[o][2]], Nil}
          BY <1>3, <5>1
        <5>3. open'[o] = open[o] BY <1>2, <2>4, <4>3
        <5> QED BY <4>3, <5>2, <5>3 DEF UpValue
      <4> QED BY <4>1, <4>2, <4>3
    <3> QED BY <2>1, <2>4, <3>1, <3>2 DEF Keeps, Kids
  <2>5. CASE o \in Strings \cup Udata \cup Functions
    <3>1. o \notin Tables \cup Threads \cup UpVals BY <2>5, Kinds DEF Lists
    <3>2. ref'[o] = ref[o] BY <1>2, <1>4, <2>1, <3>1
    <3> QED BY <2>1, <3>1, <3>2 DEF Keeps, Kids
  <2> QED BY <2>1, <2>2, <2>3, <2>4, <2>5, Kinds DEF Lists
<1>11. gcstate \in {"propagate"} \cup Sweeping =>
         \A o \in live \cap live' \cap garbage : color'[o] = color[o]
  BY <1>0, <1>6, <1>7 DEF TypeOK, Sweeping
<1>12. gcstate \in Sweeping =>
         \A o \in live \cap live' \cap garbage \cap UpVals : open'[o] = open[o]
  <2> SUFFICES ASSUME gcstate \in Sweeping, NEW o \in live \cap live' \cap garbage \cap UpVals
               PROVE  o \notin closed
    BY <1>2
  <2>1. isdead(o) BY DEF GarbageInv, Sweeping
  <2> QED BY <1>2, <1>5, <2>1
<1>13. gcstate = "propagate" => gray' \cup grayagain' \subseteq live \ garbage
  BY <1>2, <1>6, <1>7 DEF GarbageInv, Marking
<1>14. \A o \in live' : o \in Reachable' \/ (o \in live /\ Keeps(o)' \subseteq Keeps(o) \cup Reachable')
  BY <1>10
<1> QED BY <1>8, <1>9, <1>11, <1>12, <1>13, <1>14, OperationGarbage

LEMMA MutateGarbage ==
  ASSUME HeapInv, TypeOK', RefTyped', GarbageInv, Mutate
  PROVE  GarbageInv'
<1>1. /\ gcstate \notin Atomic \cup {"closing", "closed"} /\ gcstate' = gcstate
      /\ garbage' = garbage \ Reachable'
  BY DEF Mutate, Running, Done
<1>2. PICK th \in Current :
        \/ \E i \in Slots : \/ NewObject(th, i) \/ luaS_newlstr(th, i) \/ NewClosure(th, i)
                           \/ MoveTo(th, i) \/ Return(th, i)
        \/ SetTable(th) \/ SetUpval(th) \/ SetEnv(th)
  BY DEF Mutate
<1>3. ASSUME NEW i \in Slots, Return(th, i) PROVE GarbageInv'
  <2>1. luaF_close(th, i) /\ UNCHANGED finals BY <1>3 DEF Return
  <2> QED BY <1>1, <2>1, ReturnGarbage
<1> QED BY <1>1, <1>2, <1>3, StackOperations, SetTableGarbage, SetUpvalGarbage, SetEnvGarbage

--------------------------------------------------------------------------------
(* The collector.                                                               *)

\* The garbage of a cycle is what the search does not reach when it starts.
LEMMA markrootGarbage ==
  ASSUME HeapInv, TypeOK', RefTyped', markroot, UNCHANGED <<heap, white, sweep, tmudata>>,
         gcstate \in {"pause", "finalize"} \/ (gcstate = "sweep" /\ sweep = {})
  PROVE  GarbageInv'
<1>1. TypeOK /\ RefTyped /\ Closed /\ SweepInv BY DEF HeapInv
<1>2. \A o \in live : color[o] = white BY <1>1, NoneDeadWhen DEF Marking, Atomic
<1> DEFINE R == ReachFrom({Main} \cup tmudata)
<1>3. /\ color' = [o \in Objs |-> IF o \in {Main, Globals} /\ iswhite(o) THEN "gray" ELSE color[o]]
      /\ gray' = {o \in {Main, Globals} : iswhite(o)}
      /\ grayagain' = {} /\ weak' = {} /\ gcstate' = "propagate"
      /\ garbage' = live \ R
  BY DEF markroot
<1>4. {Main} \cup tmudata \in SUBSET Objs BY <1>1, Kinds DEF TypeOK, Lists
<1>5. {Main} \cup tmudata \subseteq R /\ \A o \in R : Keeps(o) \subseteq R
  BY <1>1, <1>4, SearchesComplete DEF SearchComplete
<1> HIDE DEF R
<1>6. Globals \in R
  <2>1. Kids(Main) = Held(Main) \cup {Globals} BY <1>1, KidsByType, Kinds
  <2> QED BY <1>5, <2>1, KeepsHasKids
<1>7. live' = live /\ tmudata' = tmudata /\ \A o : Keeps(o)' = Keeps(o)
  BY DEF heap, Keeps, Kids, Entries, AllEntries, Held, UpValue
<1>8. \A o \in live' \ garbage' : Keeps(o)' \cap garbage' = {} BY <1>3, <1>5, <1>7
<1>9. Main \notin garbage' /\ tmudata' \cap garbage' = {} BY <1>3, <1>5, <1>7
<1>10. \A o \in live' \cap garbage' : iswhite(o)'
  <2> SUFFICES ASSUME NEW o \in live' \cap garbage' PROVE color'[o] \in {"white0", "white1"}
    BY DEF iswhite
  <2>1. o \in live /\ o \in Objs /\ o \notin {Main, Globals} BY <1>1, <1>3, <1>5, <1>6, <1>7 DEF TypeOK
  <2> QED BY <1>1, <1>2, <1>3, <2>1 DEF TypeOK
<1>11. {Main, Globals} \subseteq live BY <1>1 DEF Closed, Alive
<1>12. gray' \cup grayagain' \cup weak' \subseteq live' \ garbage'
  BY <1>3, <1>5, <1>6, <1>7, <1>11
<1> QED BY <1>3, <1>8, <1>9, <1>10, <1>12 DEF GarbageInv, Sweeping

\* A step that marks, and nothing that is garbage.
LEMMA MarkStepGarbage ==
  ASSUME HeapInv, GarbageInv, gcstate \in Marking, gcstate' \in Marking,
         UNCHANGED <<heap, tmudata, garbage>>,
         \A o \in live \cap garbage : color'[o] = color[o],
         gray' \cup grayagain' \cup weak' \subseteq live \ garbage
  PROVE  GarbageInv'
<1>1. live' = live /\ tmudata' = tmudata /\ \A o : Keeps(o)' = Keeps(o)
  BY DEF heap, Keeps, Kids, Entries, AllEntries, Held, UpValue
<1>2. /\ \A o \in live \ garbage : Keeps(o) \cap garbage = {}
      /\ Main \notin garbage /\ tmudata \cap garbage = {}
      /\ \A o \in live \cap garbage : iswhite(o)
  BY DEF GarbageInv, Marking, Atomic
<1>3. \A o \in live' \cap garbage' : iswhite(o)' BY <1>1, <1>2 DEF iswhite
<1> QED BY <1>1, <1>2, <1>3 DEF GarbageInv, Marking, Atomic, Sweeping

LEMMA MarkingGarbage ==
  ASSUME HeapInv, GarbageInv, propagatemark \/ remarkupvals \/ RemarkWeak \/ RemarkGrayAgain
  PROVE  GarbageInv'
<1>1. TypeOK /\ RefTyped /\ Closed /\ SweepInv BY DEF HeapInv
<1>2. /\ gcstate \in Marking /\ gcstate' \in Marking /\ gcstate \notin {"closing", "closed"}
      /\ UNCHANGED <<heap, tmudata, garbage>>
  BY DEF propagatemark, remarkupvals, RemarkWeak, RemarkGrayAgain, Marking, Atomic, finals
<1>3. /\ gray \cup grayagain \cup weak \subseteq live \ garbage
      /\ \A o \in live \cap garbage : iswhite(o)
  BY <1>2 DEF GarbageInv
<1>4. Alive = live /\ live \subseteq Objs
  BY <1>1, <1>2, NoneDeadWhen, AliveIfNoneDead DEF TypeOK
<1>5. \A o \in live \ garbage : Kids(o) \in SUBSET (live \ garbage)
  <2>1. \A o \in live : Kids(o) \subseteq live BY <1>1, <1>2, <1>4, KeepsAlive
  <2>2. \A o \in live \ garbage : Keeps(o) \cap garbage = {} BY <1>2 DEF GarbageInv
  <2> QED BY <2>1, <2>2, KeepsHasKids
<1>6. CASE propagatemark
  <2>1. PICK o \in Pick(gray) : \E new \in {Marked(Kids(o))} :
       /\ color' = [x \in Objs |->
            IF x = o THEN IF o \in Threads \cup WeakK \cup WeakV THEN "gray" ELSE "black"
            ELSE IF x \notin new THEN color[x]
            ELSE IF x \in Udata \/ (x \in UpVals /\ open[x] = Nil) THEN "black"
            ELSE "gray"]
       /\ gray' = (gray \ {o}) \cup (new \cap (Tables \cup Functions \cup Threads))
       /\ grayagain' = IF o \in Threads THEN grayagain \cup {o} ELSE grayagain
       /\ weak' = IF o \in WeakK \cup WeakV THEN weak \cup {o} ELSE weak
    BY <1>6 DEF propagatemark
  <2>2. o \in live \ garbage
    <3>1. gray \in SUBSET Objs BY <1>1, Kinds DEF TypeOK
    <3> QED BY <1>3, <2>1, <3>1, Picked
  <2> DEFINE new == Marked(Kids(o))
  <2>3. new \subseteq live \ garbage BY <1>2, <1>5, <2>2, MarkedNoGarbage
  <2>4. /\ \A x \in Objs : x # o /\ x \notin new => color'[x] = color[x]
        /\ gray' \cup grayagain' \cup weak' \subseteq gray \cup grayagain \cup weak \cup {o} \cup new
    BY <2>1
  <2> HIDE DEF new
  <2>5. \A x \in live \cap garbage : color'[x] = color[x] BY <1>4, <2>2, <2>3, <2>4
  <2>6. gray' \cup grayagain' \cup weak' \subseteq live \ garbage BY <1>3, <2>2, <2>3, <2>4
  <2> QED BY <1>2, <2>5, <2>6, MarkStepGarbage
<1>7. CASE remarkupvals
  <2> DEFINE S == UNION {UpValue(u) : u \in {v \in live \cap UpVals :
                                                   open[v] # Nil /\ color[v] = "gray"}}
             new == Marked(S)
  <2>1. \A u \in live \cap UpVals : color[u] = "gray" => UpValue(u) \subseteq live \ garbage
    <3> SUFFICES ASSUME NEW u \in live \cap UpVals, color[u] = "gray"
                 PROVE  UpValue(u) \subseteq live \ garbage
      OBVIOUS
    <3>1. u \in live \ garbage BY <1>3 DEF iswhite
    <3>2. Kids(u) = UpValue(u) BY <1>1, KidsByType
    <3> QED BY <1>5, <3>1, <3>2
  <2>2. S \in SUBSET (live \ garbage) BY <2>1
  <2>3. /\ color' = [x \in Objs |->
              IF x \notin new THEN color[x]
              ELSE IF x \in Udata \/ (x \in UpVals /\ open[x] = Nil) THEN "black"
              ELSE "gray"]
        /\ gray' = gray \cup (new \cap (Tables \cup Functions \cup Threads))
        /\ UNCHANGED <<grayagain, weak>>
    BY <1>7 DEF remarkupvals, reallymarkobject
  <2> HIDE DEF S
  <2>4. new \subseteq live \ garbage BY <1>2, <2>2, MarkedNoGarbage
  <2> HIDE DEF new
  <2>5. \A x \in live \cap garbage : color'[x] = color[x] BY <1>4, <2>3, <2>4
  <2>6. gray' \cup grayagain' \cup weak' \subseteq live \ garbage BY <1>3, <2>3, <2>4
  <2> QED BY <1>2, <2>5, <2>6, MarkStepGarbage
<1>8. CASE RemarkWeak \/ RemarkGrayAgain
  <2>1. color' = color /\ gray' \cup grayagain' \cup weak' \subseteq gray \cup grayagain \cup weak
    BY <1>8 DEF RemarkWeak, RemarkGrayAgain
  <2>2. gray' \cup grayagain' \cup weak' \subseteq live \ garbage BY <1>3, <2>1
  <2> QED BY <1>2, <2>1, <2>2, MarkStepGarbage
<1> QED BY <1>6, <1>7, <1>8

\* What a finalizer will see is no garbage any more.
LEMMA SeparateUdataGarbage ==
  ASSUME HeapInv, HeapInv', GarbageInv, SeparateUdata
  PROVE  GarbageInv'
<1>1. TypeOK /\ RefTyped /\ Closed /\ SweepInv /\ TypeOK' /\ SweepInv' /\ FinInv' BY DEF HeapInv
<1> DEFINE S == UNION {ref[u] : u \in tmudata'}
           new == Marked(S)
           R == ReachFrom(tmudata')
<1>2. /\ gcstate = "atomic3" /\ gcstate' = "atomic4" /\ gray = {}
      /\ color' = [o \in Objs |->
            IF o \in tmudata' THEN "black" ELSE IF o \in new THEN "gray" ELSE color[o]]
      /\ gray' = new
      /\ garbage' = garbage \ R
      /\ UNCHANGED <<heap, white, sweep, grayagain, weak>>
  BY DEF SeparateUdata
<1>3. live' = live /\ \A o : Keeps(o)' = Keeps(o)
  BY <1>2 DEF heap, Keeps, Kids, Entries, AllEntries, Held, UpValue
<1>4. Alive = live /\ live \subseteq Objs
  BY <1>1, <1>2, NoneDeadWhen, AliveIfNoneDead DEF TypeOK, Marking, Atomic
<1>5. tmudata' \subseteq live /\ tmudata' \in SUBSET Objs /\ tmudata' \subseteq Udata
  BY <1>1, <1>3, Kinds DEF FinInv, TypeOK, Alive
<1>6. tmudata' \subseteq R /\ \A o \in R : Keeps(o) \subseteq R
  <2>1. SearchComplete BY <1>1, SearchesComplete
  <2> QED BY <1>5, <2>1 DEF SearchComplete
<1>7. R \subseteq live
  <2>1. tmudata' \in SUBSET Alive BY <1>4, <1>5
  <2> QED BY <1>1, <1>2, <1>4, <2>1, ReachedAlive
<1> HIDE DEF R, S
<1>8. /\ \A o \in live \ garbage : Keeps(o) \cap garbage = {}
      /\ Main \notin garbage
      /\ \A o \in live \cap garbage : iswhite(o)
      /\ gray \cup grayagain \cup weak \subseteq live \ garbage
  BY <1>2 DEF GarbageInv, Marking, Atomic
<1>9. \A o \in live \ garbage' : Keeps(o) \cap garbage' = {}
  BY <1>2, <1>6, <1>8
<1>10. \A o \in live : Keeps(o) \subseteq live
  BY <1>1, <1>2, <1>4, KeepsAlive
<1>11. \A o \in live \ garbage' : Kids(o) \subseteq live \ garbage'
  BY <1>9, <1>10, KeepsHasKids
<1>12. S \in SUBSET (live \ garbage')
  <2>1. \A u \in tmudata' : ref[u] = Kids(u) BY <1>1, <1>5, KidsByType
  <2>2. \A u \in tmudata' : u \in live \ garbage' BY <1>2, <1>5, <1>6
  <2> QED BY <1>11, <2>1, <2>2 DEF S
<1>13. new \subseteq live \ garbage' BY <1>11, <1>12, MarkedClosed
<1> HIDE DEF new
<1>14. \A o \in live' \cap garbage' : iswhite(o)'
  <2> SUFFICES ASSUME NEW o \in live' \cap garbage' PROVE color'[o] \in {"white0", "white1"}
    BY DEF iswhite
  <2>1. o \in live /\ o \in Objs /\ o \in garbage /\ o \notin tmudata' /\ o \notin new
    BY <1>2, <1>3, <1>4, <1>6, <1>13
  <2> QED BY <1>2, <1>8, <2>1 DEF iswhite
<1>15. gray' \cup grayagain' \cup weak' \subseteq live' \ garbage'
  BY <1>2, <1>3, <1>8, <1>13
<1>16. Main \notin garbage' /\ tmudata' \cap garbage' = {} BY <1>2, <1>6, <1>8
<1> QED BY <1>2, <1>3, <1>9, <1>14, <1>15, <1>16 DEF GarbageInv, Sweeping

\* After the flip all garbage is dead, and before the sweep.
LEMMA FinishAtomicGarbage ==
  ASSUME HeapInv, TypeOK', GarbageInv, FinishAtomic
  PROVE  GarbageInv'
<1>1. TypeOK /\ RefTyped /\ Closed /\ SweepInv BY DEF HeapInv
<1>2. /\ gcstate = "atomic4" /\ gcstate' = "sweepstring"
      /\ entry' = [t \in Tables |-> IF t \in weak THEN cleartable(t) ELSE entry[t]]
      /\ color' = [o \in Objs |->
           IF o \in Strings /\ iswhite(o) /\ \E t \in weak : o \in StringsMet(t)
           THEN "gray" ELSE color[o]]
      /\ white' = otherwhite
      /\ sweep' = {o \in live : o \notin UpVals \/ open[o] = Nil}
      /\ UNCHANGED <<live, ref, slot, open, tmudata, garbage>>
  BY DEF FinishAtomic, finals
<1>3. /\ \A o \in live \ garbage : Keeps(o) \cap garbage = {}
      /\ Main \notin garbage /\ tmudata \cap garbage = {}
      /\ \A o \in live \cap garbage : iswhite(o)
      /\ gray \cup grayagain \cup weak \subseteq live \ garbage
  BY <1>2 DEF GarbageInv, Marking, Atomic
<1>4. \A o \in live : Keeps(o)' \subseteq Keeps(o)
  <2> SUFFICES ASSUME NEW o \in live PROVE Keeps(o)' \subseteq Keeps(o)
    OBVIOUS
  <2>1. CASE o \in Tables
    <3>1. entry'[o] \subseteq entry[o] BY <1>2, <2>1 DEF cleartable
    <3>2. Entries(o)' \subseteq Entries(o) /\ AllEntries(o)' \subseteq AllEntries(o)
      BY <3>1 DEF Entries, AllEntries
    <3> QED BY <2>1, <3>2 DEF Keeps, Kids
  <2>2. CASE o \notin Tables BY <1>2, <2>2 DEF Keeps, Kids, Held, UpValue
  <2> QED BY <2>1, <2>2
<1>5. \A o \in live' \ garbage' : Keeps(o)' \cap garbage' = {} BY <1>2, <1>3, <1>4
<1>6. ASSUME NEW o \in live' \cap garbage' PROVE isdead(o)' /\ Pending(o)'
  <2>1. o \in live /\ o \in garbage /\ o \in Objs /\ o # Main BY <1>1, <1>2, <1>3 DEF TypeOK
  <2>2. color[o] = white
    <3>1. iswhite(o) /\ color[o] # otherwhite
      BY <1>2, <1>3, <2>1, <1>1 DEF SweepInv, Marking, Atomic
    <3> QED BY <1>1, <3>1 DEF iswhite, otherwhite, TypeOK
  <2>3. \A t \in weak : o \in Strings => o \notin StringsMet(t)
    <3> SUFFICES ASSUME NEW t \in weak, o \in Strings, o \in StringsMet(t) PROVE FALSE
      OBVIOUS
    <3>1. t \in Tables /\ t \in live \ garbage BY <1>1, <1>3, Kinds DEF TypeOK
    <3>2. o \in AllEntries(t)
      <4>1. o # Nil BY <2>1, Kinds
      <4> QED BY <4>1 DEF StringsMet, AllEntries
    <3>3. o \in Keeps(t) BY <3>1, <3>2 DEF Keeps
    <3> QED BY <1>3, <2>1, <3>1, <3>3
  <2>4. color'[o] = color[o] BY <1>2, <2>1, <2>3
  <2>5. otherwhite' = white BY <1>1, <1>2 DEF otherwhite, TypeOK
  <2>6. isdead(o)' BY <2>1, <2>2, <2>4, <2>5 DEF isdead
  <2>7. Pending(o)'
    <3>1. CASE o \notin UpVals \/ open[o] = Nil BY <1>2, <2>1, <3>1 DEF Pending
    <3>2. CASE o \in UpVals /\ open[o] # Nil
      <4>1. open[o][1] \in Threads /\ open[o][1] \in live
        BY <1>1, <2>1, <3>2 DEF TypeOK, Closed
      <4>2. open[o][1] \in sweep' BY <1>2, <4>1, Kinds DEF Lists
      <4> QED BY <1>2, <3>2, <4>2 DEF Pending
    <3> QED BY <3>1, <3>2
  <2> QED BY <2>6, <2>7
<1> QED BY <1>2, <1>3, <1>5, <1>6 DEF GarbageInv, Sweeping, Marking, Atomic

\* The sweep frees the garbage it comes to.
LEMMA sweeplistGarbage ==
  ASSUME HeapInv, GarbageInv, sweeplist
  PROVE  GarbageInv'
<1>1. TypeOK /\ RefTyped /\ Closed /\ SweepInv BY DEF HeapInv
<1> DEFINE List(o) == {o} \cup (IF o \in Threads THEN Opened(o) ELSE {})
<1>2. PICK o \in Pick(IF gcstate = "sweep" THEN sweep ELSE sweep \cap Strings) :
       /\ Free(Swept(o))
       /\ color' = [x \in Objs |-> IF x \in List(o) \ Swept(o) THEN luaC_white ELSE color[x]]
       /\ sweep' = sweep \ {o}
  BY DEF sweeplist
<1>3. /\ gcstate \in Sweeping /\ gcstate' = gcstate
      /\ UNCHANGED <<white, tmudata, garbage>>
  BY DEF sweeplist, Sweeping
<1> DEFINE S == Swept(o)
<1>4. S = {x \in List(o) : isdead(x)} BY DEF Swept
<1>5. /\ live' = live \ S
      /\ \A x \in Objs : ref'[x] =
           IF x \in S THEN {}
           ELSE IF x \in UpVals /\ open[x] # Nil /\ open[x][1] \in S THEN UpValue(x)
           ELSE ref[x]
      /\ \A t \in Tables : entry'[t] = IF t \in S THEN {} ELSE entry[t]
      /\ \A u \in UpVals : open'[u] =
           IF u \in S \/ (open[u] # Nil /\ open[u][1] \in S) THEN Nil ELSE open[u]
      /\ \A th \in Threads : slot'[th] = IF th \in S THEN [i \in Slots |-> Nil] ELSE slot[th]
  BY <1>1, <1>2 DEF Free, TypeOK
<1>6. \A x \in Objs : color'[x] = IF x \in List(o) \ S THEN luaC_white ELSE color[x]
  BY <1>2
<1>7. /\ o \in List(o)
      /\ \A x \in List(o) : x = o \/ (o \in Threads /\ x \in UpVals /\ open[x] # Nil /\ open[x][1] = o)
      /\ \A u \in live \cap UpVals : o \in Threads /\ open[u] # Nil /\ open[u][1] = o => u \in List(o)
  BY DEF Opened
<1> HIDE DEF S, List
<1>8. /\ \A x \in live \ garbage : Keeps(x) \cap garbage = {}
      /\ Main \notin garbage /\ tmudata \cap garbage = {}
      /\ \A x \in live \cap garbage : isdead(x) /\ Pending(x)
  BY <1>3 DEF GarbageInv, Sweeping
<1>9. ASSUME NEW x \in live' PROVE Keeps(x)' \subseteq Keeps(x)
  <2>1. x \in live /\ x \in Objs /\ x \notin S BY <1>1, <1>5 DEF TypeOK
  <2>2. CASE x \in Tables
    <3>1. entry'[x] = entry[x] BY <1>5, <2>1, <2>2
    <3>2. Kids(x)' = Kids(x) /\ AllEntries(x)' = AllEntries(x)
      BY <2>2, <3>1 DEF Kids, Entries, AllEntries
    <3> QED BY <3>2 DEF Keeps
  <2>3. CASE x \in Threads
    <3>1. Held(x)' = Held(x) BY <1>5, <2>1, <2>3 DEF Held
    <3>2. x \notin Tables BY <2>3, Kinds
    <3> QED BY <2>3, <3>1, <3>2 DEF Keeps, Kids
  <2>4. CASE x \in UpVals
    <3>1. x \notin Tables \cup Threads BY <2>4, Kinds DEF Lists
    <3>2. UpValue(x)' = UpValue(x)
      <4>1. CASE open[x] = Nil BY <1>5, <2>1, <2>4, <4>1 DEF UpValue
      <4>2. CASE open[x] # Nil /\ open[x][1] \in S
        <5>1. open'[x] = Nil /\ ref'[x] = UpValue(x) BY <1>5, <2>1, <2>4, <4>2
        <5> QED BY <5>1 DEF UpValue
      <4>3. CASE open[x] # Nil /\ open[x][1] \notin S
        <5>1. open[x][1] \in Threads BY <1>1, <2>4, <4>3 DEF TypeOK
        <5>2. open'[x] = open[x] /\ slot'[open[x][1]] = slot[open[x][1]]
          BY <1>5, <2>1, <2>4, <4>3, <5>1
        <5> QED BY <4>3, <5>2 DEF UpValue
      <4> QED BY <4>1, <4>2, <4>3
    <3> QED BY <2>4, <3>1, <3>2 DEF Keeps, Kids
  <2>5. CASE x \in Strings \cup Udata \cup Functions
    <3>1. x \notin Tables \cup Threads \cup UpVals BY <2>5, Kinds DEF Lists
    <3>2. ref'[x] = ref[x] BY <1>5, <2>1, <3>1
    <3> QED BY <3>1, <3>2 DEF Keeps, Kids
  <2> QED BY <2>1, <2>2, <2>3, <2>4, <2>5, Kinds DEF Lists
<1>10. \A x \in live' \ garbage' : Keeps(x)' \cap garbage' = {}
  BY <1>3, <1>5, <1>8, <1>9
<1>11. ASSUME NEW x \in live' \cap garbage' PROVE isdead(x)' /\ Pending(x)'
  <2>1. x \in live /\ x \in garbage /\ x \in Objs /\ x \notin S BY <1>1, <1>3, <1>5 DEF TypeOK
  <2>2. isdead(x) /\ Pending(x) BY <1>8, <2>1
  <2>3. x \notin List(o) BY <1>4, <2>1, <2>2
  <2>4. color'[x] = color[x] BY <1>6, <2>1, <2>3
  <2>5. isdead(x)' BY <1>3, <2>2, <2>4 DEF isdead, otherwhite
  <2>6. CASE x \in sweep
    <3>1. x # o BY <1>7, <2>3
    <3> QED BY <1>2, <2>5, <2>6, <3>1 DEF Pending
  <2>7. CASE x \in UpVals /\ open[x] # Nil /\ open[x][1] \in sweep
    <3>1. open[x][1] \in Threads BY <1>1, <2>7 DEF TypeOK
    <3>2. open[x][1] # o BY <1>7, <2>1, <2>3, <2>7, <3>1
    <3>3. open[x][1] \notin S
      <4>1. \A y \in S : y = o \/ y \in UpVals BY <1>4, <1>7
      <4> QED BY <3>1, <3>2, <4>1, Kinds DEF Lists
    <3>4. open'[x] = open[x] BY <1>5, <2>1, <2>7, <3>3
    <3> QED BY <1>2, <2>5, <2>7, <3>2, <3>4 DEF Pending
  <2> QED BY <2>2, <2>6, <2>7 DEF Pending
<1> QED BY <1>3, <1>8, <1>10, <1>11 DEF GarbageInv, Sweeping, Marking, Atomic

\* The steps between the phases, and finalizers.
LEMMA CycleGarbage ==
  ASSUME HeapInv, TypeOK', RefTyped', GarbageInv,
         StartCycle \/ EndSweepString \/ EndSweep \/ EndFinalize
  PROVE  GarbageInv'
<1>1. UNCHANGED <<heap, tmudata>>
  BY DEF StartCycle, EndSweepString, EndSweep, EndFinalize, finals
<1>2. CASE markroot /\ UNCHANGED <<white, sweep>>
           /\ (gcstate \in {"pause", "finalize"} \/ (gcstate = "sweep" /\ sweep = {}))
  BY <1>1, <1>2, markrootGarbage
<1>3. CASE /\ UNCHANGED <<marks, garbage>>
           /\ \/ gcstate = "sweepstring" /\ gcstate' = "sweep"
              \/ gcstate = "sweep" /\ sweep = {} /\ gcstate' = "finalize"
              \/ gcstate = "finalize" /\ gcstate' = "pause"
  <2>1. live' = live /\ open' = open /\ \A o : Keeps(o)' = Keeps(o)
    BY <1>1 DEF heap, Keeps, Kids, Entries, AllEntries, Held, UpValue
  <2>2. /\ \A o \in live \ garbage : Keeps(o) \cap garbage = {}
        /\ Main \notin garbage /\ tmudata \cap garbage = {}
    BY <1>3 DEF GarbageInv
  <2>3. CASE gcstate = "sweepstring" /\ gcstate' = "sweep"
    <3>1. \A o \in live \cap garbage : isdead(o) /\ Pending(o)
      BY <2>3 DEF GarbageInv, Sweeping
    <3>2. \A o \in live' \cap garbage' : isdead(o)' /\ Pending(o)'
      BY <1>3, <2>1, <3>1 DEF marks, isdead, otherwhite, Pending
    <3> QED BY <1>1, <1>3, <2>1, <2>2, <2>3, <3>2 DEF GarbageInv, Marking, Atomic
  <2>4. CASE gcstate = "sweep" /\ sweep = {} /\ gcstate' = "finalize"
    <3>1. live \cap garbage = {} BY <2>4 DEF GarbageInv, Sweeping, Pending
    <3> QED BY <1>1, <1>3, <2>1, <2>2, <2>4, <3>1 DEF GarbageInv, Marking, Atomic, Sweeping
  <2>5. CASE gcstate = "finalize" /\ gcstate' = "pause"
    <3>1. live \cap garbage = {} BY <2>5 DEF GarbageInv
    <3> QED BY <1>1, <1>3, <2>1, <2>2, <2>5, <3>1 DEF GarbageInv, Marking, Atomic, Sweeping
  <2> QED BY <1>3, <2>3, <2>4, <2>5
<1>4. StartCycle => <1>2!1 BY DEF StartCycle
<1>5. EndSweepString => <1>3!1 BY DEF EndSweepString
<1>6. EndFinalize => <1>3!1 BY DEF EndFinalize
<1>7. EndSweep => <1>2!1 \/ <1>3!1 BY DEF EndSweep
<1> QED BY <1>2, <1>3, <1>4, <1>5, <1>6, <1>7

\* A userdata that its finalizer keeps is no garbage.
LEMMA GCTMGarbage ==
  ASSUME HeapInv, TypeOK', RefTyped', GarbageInv, GCTM
  PROVE  GarbageInv'
<1>1. TypeOK BY DEF HeapInv
<1>2. PICK u \in tmudata :
       /\ tmudata' = tmudata \ {u}
       /\ \/ slot' = slot
          \/ \E i \in Slots : slot[Main][i] = Nil /\ slot' = [slot EXCEPT ![Main][i] = u]
  BY DEF GCTM
<1>3. /\ gcstate \in {"finalize", "closing"} /\ gcstate' = gcstate
      /\ UNCHANGED <<live, ref, entry, open, garbage>>
  BY DEF GCTM
<1> SUFFICES ASSUME gcstate = "finalize" PROVE GarbageInv'
  BY <1>3 DEF GarbageInv
<1>4. /\ \A o \in live \ garbage : Keeps(o) \cap garbage = {}
      /\ Main \notin garbage /\ tmudata \cap garbage = {} /\ live \cap garbage = {}
  BY DEF GarbageInv
<1>5. u \in Vals /\ u \notin garbage
  BY <1>1, <1>2, <1>4, Kinds DEF TypeOK, Vals, Lists
<1>6. \A x \in Threads, j \in Slots : slot'[x][j] \in {slot[x][j], u}
  <2>1. CASE slot' = slot BY <2>1
  <2>2. ASSUME NEW i \in Slots, slot' = [slot EXCEPT ![Main][i] = u]
        PROVE  \A x \in Threads, j \in Slots : slot'[x][j] \in {slot[x][j], u}
    <3>1. Main \in Threads BY Kinds
    <3>2. \A x \in Threads, j \in Slots :
            slot'[x][j] = IF x = Main /\ j = i THEN u ELSE slot[x][j]
      BY <1>1, <1>5, <2>2, <3>1, SlotWritten
    <3> QED BY <3>2
  <2> QED BY <1>2, <2>1, <2>2
<1>7. ASSUME NEW o \in live' \ garbage' PROVE Keeps(o)' \cap garbage' = {}
  <2>1. o \in live /\ o \in Objs /\ Keeps(o) \cap garbage = {} BY <1>1, <1>3, <1>4 DEF TypeOK
  <2>2. Keeps(o)' \subseteq Keeps(o) \cup {u}
    <3>1. CASE o \in Threads
      <4>1. Held(o)' \subseteq Held(o) \cup {u} BY <1>6, <3>1 DEF Held
      <4>2. o \notin Tables BY <3>1, Kinds
      <4> QED BY <3>1, <4>1, <4>2 DEF Keeps, Kids
    <3>2. CASE o \in UpVals
      <4>1. o \notin Tables \cup Threads BY <3>2, Kinds DEF Lists
      <4>2. UpValue(o)' \subseteq UpValue(o) \cup {u}
        <5>1. CASE open[o] = Nil BY <1>3, <5>1 DEF UpValue
        <5>2. CASE open[o] # Nil
          <6>1. open[o][1] \in Threads /\ open[o][2] \in Slots BY <1>1, <3>2, <5>2 DEF TypeOK
          <6>2. slot'[open[o][1]][open[o][2]] \in {slot[open[o][1]][open[o][2]], u}
            BY <1>6, <6>1
          <6> QED BY <1>3, <5>2, <6>2 DEF UpValue
        <5> QED BY <5>1, <5>2
      <4> QED BY <3>2, <4>1, <4>2 DEF Keeps, Kids
    <3>3. CASE o \notin Threads \cup UpVals
      BY <1>3, <3>3 DEF Keeps, Kids, Entries, AllEntries
    <3> QED BY <3>1, <3>2, <3>3
  <2> QED BY <1>3, <1>5, <2>1, <2>2
<1>8. Main \notin garbage' /\ tmudata' \cap garbage' = {} /\ live' \cap garbage' = {}
  BY <1>2, <1>3, <1>4
<1> QED BY <1>3, <1>7, <1>8 DEF GarbageInv, Marking, Atomic, Sweeping

\* A full collection starts without garbage, or with that of a new cycle.
LEMMA luaC_fullgcGarbage ==
  ASSUME HeapInv, TypeOK', RefTyped', GarbageInv, luaC_fullgc
  PROVE  GarbageInv'
<1>1. UNCHANGED <<heap, tmudata>> /\ gcstate \notin Atomic \cup {"closing", "closed"}
  BY DEF luaC_fullgc, Running, finals
<1>2. CASE gcstate = "finalize"
  <2>1. markroot /\ UNCHANGED <<white, sweep>> BY <1>2 DEF luaC_fullgc
  <2> QED BY <1>1, <1>2, <2>1, markrootGarbage
<1>3. CASE gcstate # "finalize"
  <2>1. garbage' = {} BY <1>3 DEF luaC_fullgc
  <2>2. gcstate' \notin Marking
    BY <1>1, <1>3 DEF luaC_fullgc, Marking, Atomic, HeapInv, TypeOK, Sweeping
  <2> QED BY <2>1, <2>2 DEF GarbageInv
<1> QED BY <1>2, <1>3

LEMMA NextGarbage ==
  ASSUME HeapInv, HeapInv', GarbageInv, Next
  PROVE  GarbageInv'
<1>1. TypeOK' /\ RefTyped' BY DEF HeapInv
<1>2. CASE singlestep
  BY <1>1, <1>2, CycleGarbage, MarkingGarbage, SeparateUdataGarbage, FinishAtomicGarbage,
     sweeplistGarbage, GCTMGarbage DEF singlestep
<1>3. CASE Mutate BY <1>1, <1>3, MutateGarbage
<1>4. CASE luaC_fullgc BY <1>1, <1>4, luaC_fullgcGarbage
<1>5. CASE lua_close \/ luaC_freeall
  <2>1. gcstate' \in {"closing", "closed"} BY <1>5 DEF lua_close, luaC_freeall
  <2> QED BY <2>1 DEF GarbageInv
<1> QED BY <1>2, <1>3, <1>4, <1>5 DEF Next

LEMMA InitGarbage == Init => GarbageInv
BY DEF Init, GarbageInv, Marking, Atomic, Sweeping

LEMMA StutterGarbage ==
  ASSUME GarbageInv, UNCHANGED vars
  PROVE  GarbageInv'
<1>1. UNCHANGED <<live, ref, entry, slot, open, color, white, gcstate, gray, grayagain, weak,
                  sweep, finalized, tmudata, called, full, garbage, ops>>
  BY DEF vars, heap, marks, finals
<1>2. \A o : Keeps(o)' = Keeps(o)
  BY <1>1 DEF Keeps, Kids, Entries, AllEntries, Held, UpValue
<1>3. \A o : (iswhite(o)' <=> iswhite(o)) /\ (isdead(o)' <=> isdead(o)) /\ (Pending(o)' <=> Pending(o))
  BY <1>1 DEF iswhite, isdead, otherwhite, Pending
<1> QED BY <1>1, <1>2, <1>3 DEF GarbageInv

--------------------------------------------------------------------------------
(* The theorems.                                                                *)

\* The heap and the colours are what the invariant says, whatever the program
\* and the collector do (lgc.c with lfunc.c, lstring.c and lapi.c).
THEOREM HeapIsInvariant == Spec => []HeapInv
<1>1. Init => HeapInv BY InitInv
<1>2. HeapInv /\ [Next]_vars => HeapInv' BY NextInv, StutterInv
<1> QED BY <1>1, <1>2, PTL DEF Spec

\* Nothing that the program, a weak table it can reach or a finalizer that is
\* still to be called can get at is ever freed (lgc.c, luaC_step and its barriers).
THEOREM ReachableNeverFreed == Spec => []ReachableLive
<1>1. HeapInv => ReachableLive BY HeapInvSafe
<1> QED BY <1>1, HeapIsInvariant, PTL

\* While marking, no black object refers to a white one, nothing gray is
\* forgotten, and an open upvalue is not black (lgc.c and the write barriers).
THEOREM ColoursKeptApart == Spec => []TriColour
<1>1. HeapInv => TriColour BY HeapInvTriColour
<1> QED BY <1>1, HeapIsInvariant, PTL

\* Everything that could not be reached when a cycle began, and that no operation
\* or finalizer got at again, is gone at its end (lgc.c, singlestep).
THEOREM CyclesCollect == Spec => []GarbageCollected
<1>1. Init => GarbageInv BY InitGarbage
<1>2. HeapInv /\ HeapInv' /\ GarbageInv /\ [Next]_vars => GarbageInv'
  BY NextGarbage, StutterGarbage
<1>3. GarbageInv => GarbageCollected BY DEF GarbageInv, GarbageCollected
<1> QED BY <1>1, <1>2, <1>3, HeapIsInvariant, PTL DEF Spec

\* Each finalizer is called at most once, and before its userdata is freed
\* (luaC_separateudata, GCTM, luaC_callGCTMudata, lua_close).
THEOREM FinalizersCalledOnce == Spec => FinalizedOnce
<1>1. HeapInv /\ [Next]_vars =>
        [ \A u \in HasGC : /\ called'[u] <= 1
                           /\ u \in live /\ u \notin live' => called[u] = 1 ]_vars
  <2> SUFFICES ASSUME HeapInv, [Next]_vars
               PROVE  \A u \in HasGC : /\ called'[u] <= 1
                                       /\ u \in live /\ u \notin live' => called[u] = 1
    OBVIOUS
  <2>1. HeapInv' /\ Once BY NextInv, StutterInv
  <2>2. \A u \in HasGC : called'[u] \in {0, 1} BY <2>1 DEF HeapInv, FinInv
  <2> QED BY <2>1, <2>2 DEF Once
<1> QED BY <1>1, HeapIsInvariant, PTL DEF Spec, FinalizedOnce
================================================================================
