----------------------------- MODULE ListProofs -----------------------------
(***************************************************************************)
(* What Filter returns, for every list. The induction over the length that *)
(* this takes is done with sets of numbers: the library's induction        *)
(* theorems take an operator, and a set can be given to a prover.          *)
(***************************************************************************)
EXTENDS Lists, NaturalsInduction, WellFoundedInduction, TLAPS

\* A non-empty set of natural numbers has a least element.
LEMMA LeastNatural ==
  ASSUME NEW T \in SUBSET Nat, T # {}
  PROVE  \E n \in T : \A m \in T : n <= m
<1> DEFINE R == OpToRel(<, Nat)
<1>1. IsWellFoundedOn(R, Nat) BY NatLessThanWellFounded
<1>2. \A x, y \in Nat : x < y => <<x, y>> \in R BY DEF OpToRel
<1> HIDE DEF R
<1>3. PICK n \in T : \A m \in T : <<m, n>> \notin R
  BY <1>1, WFMin
<1>4. \A m \in T : ~(m < n) BY <1>2, <1>3, Zenon
<1>5. \A m \in T : n <= m BY <1>4
<1> QED BY <1>5

\* Induction: a set with 0 and every successor is Nat.
LEMMA SetInduction ==
  ASSUME NEW T \in SUBSET Nat, 0 \in T, \A n \in T : n + 1 \in T
  PROVE  T = Nat
<1> SUFFICES ASSUME Nat \ T # {} PROVE FALSE
  OBVIOUS
<1>1. PICK n \in Nat \ T : \A m \in Nat \ T : n <= m
  BY LeastNatural
<1>2. n # 0 /\ n - 1 \in Nat /\ n - 1 \notin Nat \ T BY <1>1
<1>3. n - 1 \in T BY <1>2
<1>4. (n - 1) + 1 \in T BY <1>3
<1> QED BY <1>1, <1>4

\* Filter computes what its recursive definition says.
LEMMA FilterSteps ==
  ASSUME NEW S, NEW s \in Seq(S), NEW P
  PROVE  \E kept :
           /\ DOMAIN kept = 0 .. Len(s)
           /\ kept[0] = << >>
           /\ \A n \in 1 .. Len(s) :
                kept[n] = IF s[n] \in P THEN Append(kept[n - 1], s[n]) ELSE kept[n - 1]
           /\ Filter(s, P) = kept[Len(s)]
<1> DEFINE N == Len(s)
           Body(f, n) == IF n = 0 THEN << >>
                         ELSE IF s[n] \in P THEN Append(f[n - 1], s[n])
                         ELSE f[n - 1]
           Upto == {m \in Nat : \E f : f = [n \in 0 .. m |-> Body(f, n)]}
<1>1. \A f, g : \A n : f[n - 1] = g[n - 1] => Body(f, n) = Body(g, n)
  OBVIOUS
<1>2. \A f : Body(f, 0) = << >>
  OBVIOUS
<1>3. \A f : \A n \in 1 .. N :
        Body(f, n) = IF s[n] \in P THEN Append(f[n - 1], s[n]) ELSE f[n - 1]
  OBVIOUS
<1> HIDE DEF Body
<1>4. 0 \in Upto
  <2> DEFINE f == [n \in 0 .. 0 |-> << >>]
  <2>1. f = [n \in 0 .. 0 |-> Body(f, n)] BY <1>2
  <2> QED BY <2>1
<1>5. ASSUME NEW m \in Upto PROVE m + 1 \in Upto
  <2>1. PICK f : f = [n \in 0 .. m |-> Body(f, n)] BY <1>5
  <2> DEFINE h == [n \in 0 .. m + 1 |-> IF n = m + 1 THEN Body(f, m + 1) ELSE f[n]]
  <2>2. ASSUME NEW n \in 0 .. m + 1 PROVE h[n] = Body(h, n)
    <3>1. CASE n = 0 BY <1>2, <2>1, <3>1
    <3>2. CASE n \in 1 .. m
      <4>1. h[n] = f[n] /\ h[n - 1] = f[n - 1] BY <3>2
      <4>2. n \in 0 .. m BY <3>2
      <4>3. f[n] = Body(f, n) BY <2>1, <4>2, Zenon
      <4> QED BY <1>1, <4>1, <4>3
    <3>3. CASE n = m + 1
      <4>1. h[n - 1] = f[n - 1] /\ h[n] = Body(f, n) BY <3>3
      <4> QED BY <1>1, <4>1
    <3> QED BY <3>1, <3>2, <3>3
  <2>3. h = [n \in 0 .. m + 1 |-> Body(h, n)] BY <2>2
  <2> HIDE DEF h
  <2> QED BY <2>3
<1>6. N \in Upto
  <2>1. N \in Nat OBVIOUS
  <2> HIDE DEF N
  <2>2. Upto \in SUBSET Nat OBVIOUS
  <2> HIDE DEF Upto
  <2> QED BY <1>4, <1>5, <2>1, <2>2, SetInduction
<1> DEFINE kept == CHOOSE f : f = [n \in 0 .. N |-> Body(f, n)]
<1>7. kept = [n \in 0 .. N |-> Body(kept, n)]
  BY <1>6
<1>8. Filter(s, P) = kept[N]
  BY DEF Filter, Body
<1> HIDE DEF kept
<1>9. DOMAIN kept = 0 .. Len(s) /\ kept[0] = << >> BY <1>2, <1>7
<1>10. \A n \in 1 .. Len(s) :
         kept[n] = IF s[n] \in P THEN Append(kept[n - 1], s[n]) ELSE kept[n - 1]
  <2> TAKE n \in 1 .. Len(s)
  <2>1. n \in 0 .. N OBVIOUS
  <2>2. kept[n] = Body(kept, n) BY <1>7, <2>1, Zenon
  <2> QED BY <1>3, <2>2
<1> QED BY <1>8, <1>9, <1>10

\* t has the items of s that are in P, in their order: e gives for each item
\* of t its place in s.
Embeds(t, s, P, e) ==
  /\ e \in [1 .. Len(t) -> 1 .. Len(s)]
  /\ \A n \in 1 .. Len(t) : t[n] = s[e[n]] /\ s[e[n]] \in P
  /\ \A m, n \in 1 .. Len(t) : m < n => e[m] < e[n]
  /\ \A k \in 1 .. Len(s) : s[k] \in P => \E n \in 1 .. Len(t) : e[n] = k

\* What Filter returns is embedded like this.
LEMMA FilterMeaning ==
  ASSUME NEW S, NEW s \in Seq(S), NEW P
  PROVE  /\ Filter(s, P) \in Seq(S)
         /\ \E e : Embeds(Filter(s, P), s, P, e)
<1>1. PICK kept :
        /\ DOMAIN kept = 0 .. Len(s)
        /\ kept[0] = << >>
        /\ \A n \in 1 .. Len(s) :
             kept[n] = IF s[n] \in P THEN Append(kept[n - 1], s[n]) ELSE kept[n - 1]
        /\ Filter(s, P) = kept[Len(s)]
  BY FilterSteps
<1> DEFINE
      UpTo(t, l, e) ==
        /\ e \in [1 .. Len(t) -> 1 .. l]
        /\ \A n \in 1 .. Len(t) : t[n] = s[e[n]] /\ s[e[n]] \in P
        /\ \A m, n \in 1 .. Len(t) : m < n => e[m] < e[n]
        /\ \A k \in 1 .. l : s[k] \in P => \E n \in 1 .. Len(t) : e[n] = k
      Good == {l \in Nat : l <= Len(s) => /\ kept[l] \in Seq(S)
                                          /\ \E e : UpTo(kept[l], l, e)}
<1>2. Len(s) \in Nat OBVIOUS
<1>3. 0 \in Good
  <2>1. kept[0] = << >> BY <1>1
  <2> DEFINE e == [n \in 1 .. 0 |-> 1]
  <2>2. UpTo(<< >>, 0, e) OBVIOUS
  <2>3. << >> \in Seq(S) OBVIOUS
  <2> HIDE DEF UpTo, e
  <2>4. \E f : UpTo(kept[0], 0, f) BY <2>1, <2>2
  <2>5. kept[0] \in Seq(S) BY <2>1, <2>3
  <2> QED BY <2>4, <2>5
<1>4. ASSUME NEW l \in Good PROVE l + 1 \in Good
  <2> HIDE DEF UpTo
  <2>0. l + 1 \in Nat OBVIOUS
  <2> SUFFICES ASSUME l + 1 <= Len(s)
               PROVE  /\ kept[l + 1] \in Seq(S)
                      /\ \E e : UpTo(kept[l + 1], l + 1, e)
    BY <2>0
  <2> USE DEF UpTo
  <2>1. l \in Nat /\ kept[l] \in Seq(S) BY <1>2, <1>4
  <2>2. PICK e : UpTo(kept[l], l, e) BY <1>2, <1>4
  <2>3. l + 1 \in 1 .. Len(s) /\ (l + 1) - 1 = l BY <1>2, <2>1
  <2>4. s[l + 1] \in S BY <2>3
  <2>5. CASE s[l + 1] \in P
    <3> DEFINE t == kept[l]
               u == Append(t, s[l + 1])
               d == [n \in 1 .. Len(t) + 1 |-> IF n = Len(t) + 1 THEN l + 1 ELSE e[n]]
    <3>1. kept[l + 1] = u BY <1>1, <2>3, <2>5
    <3>2. /\ u \in Seq(S) /\ Len(u) = Len(t) + 1 /\ Len(t) \in Nat
          /\ u[Len(t) + 1] = s[l + 1]
          /\ \A n \in 1 .. Len(t) : u[n] = t[n]
      BY <2>1, <2>4
    <3> HIDE DEF u
    <3>3. d \in [1 .. Len(u) -> 1 .. l + 1] BY <2>1, <2>2, <3>2
    <3>4. ASSUME NEW n \in 1 .. Len(u) PROVE u[n] = s[d[n]] /\ s[d[n]] \in P
      <4>1. CASE n = Len(t) + 1
        <5>1. d[n] = l + 1 BY <3>2, <4>1
        <5> QED BY <2>5, <3>2, <4>1, <5>1
      <4>2. CASE n \in 1 .. Len(t)
        <5>1. d[n] = e[n] /\ u[n] = t[n] BY <3>2, <4>2
        <5>2. t[n] = s[e[n]] /\ s[e[n]] \in P BY <2>2, <4>2
        <5> QED BY <5>1, <5>2
      <4> QED BY <3>2, <4>1, <4>2
    <3>5. ASSUME NEW m \in 1 .. Len(u), NEW n \in 1 .. Len(u), m < n PROVE d[m] < d[n]
      <4>1. m \in 1 .. Len(t) /\ d[m] = e[m] /\ e[m] \in 1 .. l BY <2>2, <3>2, <3>5
      <4>2. CASE n = Len(t) + 1 BY <2>1, <3>2, <4>1, <4>2
      <4>3. CASE n \in 1 .. Len(t) BY <2>2, <3>5, <4>1, <4>3
      <4> QED BY <3>2, <4>2, <4>3
    <3>6. ASSUME NEW k \in 1 .. l + 1, s[k] \in P PROVE \E n \in 1 .. Len(u) : d[n] = k
      <4>1. CASE k = l + 1
        <5>1. Len(t) + 1 \in 1 .. Len(u) BY <3>2
        <5>2. d[Len(t) + 1] = l + 1 BY <3>2
        <5> HIDE DEF d
        <5> QED BY <4>1, <5>1, <5>2
      <4>2. CASE k \in 1 .. l
        <5>1. PICK n \in 1 .. Len(t) : e[n] = k BY <2>2, <3>6, <4>2
        <5>2. n \in 1 .. Len(u) /\ n \in 1 .. Len(t) + 1 /\ n # Len(t) + 1 BY <3>2
        <5>3. d[n] = e[n] BY <5>2
        <5> HIDE DEF d
        <5> QED BY <5>1, <5>2, <5>3
      <4>3. k = l + 1 \/ k \in 1 .. l BY <2>1
      <4> HIDE DEF d
      <4> QED BY <4>1, <4>2, <4>3
    <3> HIDE DEF d
    <3>7. UpTo(u, l + 1, d) BY <3>3, <3>4, <3>5, <3>6
    <3> HIDE DEF UpTo
    <3>8. \E c : UpTo(kept[l + 1], l + 1, c) BY <3>1, <3>7, Zenon
    <3> QED BY <3>1, <3>2, <3>8
  <2>6. CASE s[l + 1] \notin P
    <3>1. kept[l + 1] = kept[l] BY <1>1, <2>3, <2>6
    <3>2. UpTo(kept[l], l + 1, e) BY <2>1, <2>2, <2>6
    <3> HIDE DEF UpTo
    <3>3. UpTo(kept[l + 1], l + 1, e) BY <3>1, <3>2
    <3>4. \E d : UpTo(kept[l + 1], l + 1, d) BY <3>3, Zenon
    <3> QED BY <2>1, <3>1, <3>4
  <2> QED BY <2>5, <2>6
<1>5. Good = Nat
  <2>1. Good \in SUBSET Nat OBVIOUS
  <2> HIDE DEF Good
  <2> QED BY <1>3, <1>4, <2>1, SetInduction
<1>6. kept[Len(s)] \in Seq(S) /\ \E e : UpTo(kept[Len(s)], Len(s), e)
  <2>1. Len(s) \in Good BY <1>2, <1>5
  <2> HIDE DEF UpTo
  <2> QED BY <1>2, <2>1
<1>7. \A e : UpTo(kept[Len(s)], Len(s), e) => Embeds(kept[Len(s)], s, P, e)
  BY DEF Embeds
<1> HIDE DEF UpTo
<1> QED BY <1>1, <1>6, <1>7

\* What Filter returns contains exactly the items of s in P.
LEMMA FilterRange ==
  ASSUME NEW S, NEW s \in Seq(S), NEW P
  PROVE  /\ Filter(s, P) \in Seq(S)
         /\ Len(Filter(s, P)) \in Nat
         /\ RangeOf(Filter(s, P)) = RangeOf(s) \cap P
<1>1. Filter(s, P) \in Seq(S) BY FilterMeaning
<1>2. PICK e : Embeds(Filter(s, P), s, P, e) BY FilterMeaning
<1>3. RangeOf(Filter(s, P)) \subseteq RangeOf(s) \cap P BY <1>2 DEF RangeOf, Embeds
<1>4. RangeOf(s) \cap P \subseteq RangeOf(Filter(s, P)) BY <1>2 DEF RangeOf, Embeds
<1> QED BY <1>1, <1>3, <1>4

\* What a list contains after another is appended to it.
LEMMA ConcatRange ==
  ASSUME NEW S, NEW s \in Seq(S), NEW t \in Seq(S)
  PROVE  /\ s \o t \in Seq(S)
         /\ RangeOf(s \o t) = RangeOf(s) \cup RangeOf(t)
<1>1. /\ s \o t \in Seq(S) /\ Len(s \o t) = Len(s) + Len(t)
      /\ Len(s) \in Nat /\ Len(t) \in Nat
  OBVIOUS
<1>2. ASSUME NEW n \in 1 .. Len(s \o t) PROVE (s \o t)[n] \in RangeOf(s) \cup RangeOf(t)
  <2>1. CASE n <= Len(s) BY <1>1, <2>1 DEF RangeOf
  <2>2. CASE n > Len(s)
    <3>1. n - Len(s) \in 1 .. Len(t) BY <1>1, <2>2
    <3>2. (s \o t)[n] = t[n - Len(s)] BY <1>1, <2>2
    <3> QED BY <3>1, <3>2 DEF RangeOf
  <2> QED BY <1>1, <2>1, <2>2
<1>3. ASSUME NEW n \in 1 .. Len(s) PROVE s[n] \in RangeOf(s \o t)
  <2>1. (s \o t)[n] = s[n] /\ n \in 1 .. Len(s \o t) BY <1>1
  <2> QED BY <2>1 DEF RangeOf
<1>4. ASSUME NEW n \in 1 .. Len(t) PROVE t[n] \in RangeOf(s \o t)
  <2>1. (s \o t)[n + Len(s)] = t[n] /\ n + Len(s) \in 1 .. Len(s \o t) BY <1>1
  <2> QED BY <2>1 DEF RangeOf
<1>5. RangeOf(s \o t) \subseteq RangeOf(s) \cup RangeOf(t) BY <1>2 DEF RangeOf
<1>6. RangeOf(s) \cup RangeOf(t) \subseteq RangeOf(s \o t)
  <2>1. \A y \in RangeOf(s) : y \in RangeOf(s \o t) BY <1>3 DEF RangeOf
  <2>2. \A y \in RangeOf(t) : y \in RangeOf(s \o t) BY <1>4 DEF RangeOf
  <2> QED BY <2>1, <2>2
<1> QED BY <1>1, <1>5, <1>6

-----------------------------------------------------------------------------
(* Beginnings of lists                                                       *)

Begins(p, q) == Len(p) <= Len(q) /\ \A x \in 1 .. Len(p) : q[x] = p[x]

LEMMA AppendMeaning ==
  ASSUME NEW S, NEW s \in Seq(S), NEW e \in S
  PROVE  /\ Append(s, e) \in Seq(S) /\ Len(Append(s, e)) = Len(s) + 1 /\ Len(s) \in Nat
         /\ \A x \in 1 .. Len(s) : Append(s, e)[x] = s[x]
         /\ Append(s, e)[Len(s) + 1] = e
  OBVIOUS

LEMMA SameItems ==
  ASSUME NEW S, NEW s \in Seq(S), NEW t \in Seq(S), Len(s) = Len(t),
         \A x \in 1 .. Len(s) : s[x] = t[x]
  PROVE  s = t
  OBVIOUS

\* One more item comes last in what Filter keeps, if it is kept.
LEMMA FilterAppend ==
  ASSUME NEW S, NEW s \in Seq(S), NEW e \in S, NEW P
  PROVE  Filter(Append(s, e), P) = IF e \in P THEN Append(Filter(s, P), e) ELSE Filter(s, P)
<1> DEFINE t == Append(s, e)
           N == Len(s)
<1>1. /\ t \in Seq(S) /\ N \in Nat /\ Len(t) = N + 1 /\ t[N + 1] = e
      /\ \A x \in 1 .. N : t[x] = s[x]
  BY AppendMeaning
<1> HIDE DEF t
<1>2. PICK a : /\ DOMAIN a = 0 .. Len(s)
               /\ a[0] = << >>
               /\ \A n \in 1 .. Len(s) :
                    a[n] = IF s[n] \in P THEN Append(a[n - 1], s[n]) ELSE a[n - 1]
               /\ Filter(s, P) = a[Len(s)]
  BY FilterSteps
<1>3. PICK b : /\ DOMAIN b = 0 .. Len(t)
               /\ b[0] = << >>
               /\ \A n \in 1 .. Len(t) :
                    b[n] = IF t[n] \in P THEN Append(b[n - 1], t[n]) ELSE b[n - 1]
               /\ Filter(t, P) = b[Len(t)]
  BY <1>1, FilterSteps
<1> HIDE DEF N
<1> DEFINE T == {n \in Nat : n <= N => a[n] = b[n]}
<1>4. 0 \in T BY <1>2, <1>3
<1>5. ASSUME NEW n \in T PROVE n + 1 \in T
  <2> SUFFICES ASSUME n + 1 <= N PROVE a[n + 1] = b[n + 1] OBVIOUS
  <2>1. n \in Nat /\ n + 1 \in 1 .. N /\ n + 1 \in 1 .. N + 1 /\ n <= N /\ (n + 1) - 1 = n
    BY <1>1
  <2>2. a[n] = b[n] /\ t[n + 1] = s[n + 1] BY <1>1, <2>1
  <2>3. a[n + 1] = IF s[n + 1] \in P THEN Append(a[n], s[n + 1]) ELSE a[n]
    BY <1>2, <2>1 DEF N
  <2>4. b[n + 1] = IF t[n + 1] \in P THEN Append(b[n], t[n + 1]) ELSE b[n]
    BY <1>1, <1>3, <2>1
  <2> QED BY <2>2, <2>3, <2>4
<1>6. N \in T
  <2>1. T \in SUBSET Nat OBVIOUS
  <2> HIDE DEF T
  <2> QED BY <1>1, <1>4, <1>5, <2>1, SetInduction
<1>7. b[N + 1] = IF e \in P THEN Append(b[N], e) ELSE b[N]
  <2>1. N + 1 \in 1 .. Len(t) /\ (N + 1) - 1 = N BY <1>1
  <2>2. b[N + 1] = IF t[N + 1] \in P THEN Append(b[(N + 1) - 1], t[N + 1]) ELSE b[(N + 1) - 1]
    BY <1>3, <2>1
  <2> QED BY <1>1, <2>1, <2>2
<1> QED BY <1>1, <1>2, <1>3, <1>6, <1>7 DEF t, N

LEMMA FilterEmpty ==
  ASSUME NEW S, NEW s \in Seq(S), NEW P, Len(s) = 0
  PROVE  Filter(s, P) = << >>
<1>1. PICK a : /\ DOMAIN a = 0 .. Len(s)
               /\ a[0] = << >>
               /\ \A n \in 1 .. Len(s) :
                    a[n] = IF s[n] \in P THEN Append(a[n - 1], s[n]) ELSE a[n - 1]
               /\ Filter(s, P) = a[Len(s)]
  BY FilterSteps
<1> QED BY <1>1

LEMMA BeginsTransitive ==
  ASSUME NEW S, NEW p \in Seq(S), NEW q \in Seq(S), NEW r \in Seq(S), Begins(p, q), Begins(q, r)
  PROVE  Begins(p, r)
<1>1. Len(p) \in Nat /\ Len(q) \in Nat /\ Len(r) \in Nat OBVIOUS
<1> QED BY <1>1 DEF Begins

LEMMA AppendBegins ==
  ASSUME NEW S, NEW s \in Seq(S), NEW e \in S
  PROVE  Begins(s, s) /\ Begins(s, Append(s, e))
<1>1. Len(s) \in Nat OBVIOUS
<1> QED BY <1>1, AppendMeaning DEF Begins

\* The beginning of a list with one more item.
LEMMA FrontAppend ==
  ASSUME NEW S, NEW s \in Seq(S), NEW n \in Nat, n < Len(s)
  PROVE  /\ SubSeq(s, 1, n) \in Seq(S) /\ Len(SubSeq(s, 1, n)) = n
         /\ \A x \in 1 .. n : SubSeq(s, 1, n)[x] = s[x]
         /\ n + 1 \in 1 .. Len(s) /\ s[n + 1] \in S
         /\ SubSeq(s, 1, n + 1) = Append(SubSeq(s, 1, n), s[n + 1])
  OBVIOUS

LEMMA WholeList ==
  ASSUME NEW S, NEW s \in Seq(S)
  PROVE  SubSeq(s, 1, Len(s)) = s /\ SubSeq(s, 1, 0) = << >>
  OBVIOUS

\* What Filter keeps of a beginning is the beginning of what it keeps.
LEMMA FilterBegins ==
  ASSUME NEW S, NEW s \in Seq(S), NEW P, NEW l \in Nat, l <= Len(s)
  PROVE  Begins(Filter(SubSeq(s, 1, l), P), Filter(s, P))
<1> DEFINE N == Len(s)
           F(n) == Filter(SubSeq(s, 1, n), P)
           T == {n \in Nat : l + n <= N => F(l + n) \in Seq(S) /\ Begins(F(l), F(l + n))}
<1>1. N \in Nat OBVIOUS
<1>2. ASSUME NEW n \in Nat, n <= N PROVE SubSeq(s, 1, n) \in Seq(S) /\ F(n) \in Seq(S)
  <2>1. SubSeq(s, 1, n) \in Seq(S)
    <3>1. CASE n < N BY <3>1, FrontAppend
    <3>2. CASE n = N BY <3>2, WholeList
    <3> QED BY <1>1, <1>2, <3>1, <3>2
  <2> QED BY <2>1, FilterRange
<1>3. ASSUME NEW n \in Nat, n < N
      PROVE  Begins(F(n), F(n + 1))
  <2>1. SubSeq(s, 1, n) \in Seq(S) /\ s[n + 1] \in S
        /\ SubSeq(s, 1, n + 1) = Append(SubSeq(s, 1, n), s[n + 1])
    BY <1>3, FrontAppend
  <2>2. F(n + 1) = IF s[n + 1] \in P THEN Append(F(n), s[n + 1]) ELSE F(n)
    <3> DEFINE u == SubSeq(s, 1, n)
               e == s[n + 1]
    <3>1. u \in Seq(S) /\ e \in S /\ SubSeq(s, 1, n + 1) = Append(u, e) BY <2>1
    <3> HIDE DEF u, e, F
    <3>2. Filter(Append(u, e), P) = IF e \in P THEN Append(Filter(u, P), e) ELSE Filter(u, P)
      BY <3>1, FilterAppend
    <3> QED BY <3>1, <3>2 DEF u, e, F
  <2>3. F(n) \in Seq(S) BY <1>2, <1>3, <1>1
  <2> HIDE DEF F
  <2> QED BY <2>1, <2>2, <2>3, AppendBegins
<1> HIDE DEF N, F
<1>4. 0 \in T
  <2>1. F(l) \in Seq(S) BY <1>2 DEF N
  <2>2. Begins(F(l), F(l)) BY <2>1 DEF Begins
  <2> QED BY <2>1, <2>2
<1>5. ASSUME NEW n \in T PROVE n + 1 \in T
  <2> SUFFICES ASSUME l + (n + 1) <= N
               PROVE  F(l + (n + 1)) \in Seq(S) /\ Begins(F(l), F(l + (n + 1)))
    OBVIOUS
  <2>1. /\ n \in Nat /\ l + n \in Nat /\ l + n < N /\ (l + n) + 1 = l + (n + 1)
        /\ l + n <= N /\ l + (n + 1) \in Nat /\ l <= N
    BY <1>1
  <2>2. F(l + n) \in Seq(S) /\ Begins(F(l), F(l + n)) BY <2>1
  <2>3. Begins(F(l + n), F(l + (n + 1))) BY <1>3, <2>1
  <2>4. F(l + (n + 1)) \in Seq(S) /\ F(l) \in Seq(S) BY <1>2, <2>1
  <2> QED BY <2>2, <2>3, <2>4, BeginsTransitive
<1>6. N - l \in T
  <2>1. T \in SUBSET Nat /\ N - l \in Nat BY <1>1 DEF N
  <2> HIDE DEF T
  <2> QED BY <1>4, <1>5, <2>1, SetInduction
<1>7. l + (N - l) = N /\ N <= N BY <1>1
<1>8. Begins(F(l), F(N)) BY <1>6, <1>7
<1>9. F(N) = Filter(s, P) BY WholeList DEF F, N
<1> QED BY <1>8, <1>9 DEF F
=============================================================================
