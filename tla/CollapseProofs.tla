--------------------------- MODULE CollapseProofs ---------------------------
(***************************************************************************)
(* What holds of the collapsed configurations for every script, every list *)
(* of configurations and platforms and every order of pairs().             *)
(*                                                                         *)
(* The invariant follows merge(): what a configuration holds is a matter of*)
(* the blocks it was given so far (EntryInv), whether it is still being    *)
(* built (cfg), finished (result) or taken over from the solution as the   *)
(* beginning of another. The terms tables, which the configurations share, *)
(* need a part of their own: a table holds the terms of the configuration  *)
(* merged last among those that refer to it (TablesInv).                   *)
(***************************************************************************)
EXTENDS Collapse, ListProofs, SequenceTheorems, TLAPS

-----------------------------------------------------------------------------
(* The inductive invariant *)

\* The value of a kind term: a kind that some block of the script sets, or none.
ScriptKind(k) ==
  k = Nil \/ \E x \in Objs : \E n \in 1 .. Len(script[x]) : k = script[x][n].kind

\* A terms table while collapse() works on it, apart from config and platform.
TermsInv(t) ==
  /\ DOMAIN t = TermKeys
  /\ t["env"] = Env /\ t["word"] = Nil /\ t["required"] = Nil
  /\ ScriptKind(t["kind"])

CfgFields == {"kind", "targetname", "links", "files", "excludes", "terms", "merged",
              "job", "posted", "fileconfigs"}

\* The blocks c was merged from are blocks of the solution, or blocks of x that
\* precede the n-th.
Seen(c, x, n) ==
  \A id \in c.merged :
    /\ id[1] \in {0, x}
    /\ id[2] \in 1 .. Len(script[id[1]])
    /\ id[1] = x => id[2] < n

\* What merged blocks look like to the kind-insensitive part of the script.
ExactlyMatching(c, x, n) ==
  \A m \in 1 .. Len(script[x]) :
    /\ m < n
    /\ KindFree(script[x][m].keywords)
    => (<<x, m>> \in c.merged <=> AllKeywords(script[x][m].keywords, TermsOf(c.job)))

\* Links are never rewritten, so their index is exact.
LinksInv(c) ==
  /\ c.links \in [seq : Seq(Items), keys : SUBSET Items]
  /\ c.links.keys = RangeOf(c.links.seq)
  /\ \A y \in Items : (y \in RangeOf(c.links.seq)) <=> (Sources(c, y) # {})
  /\ \A m, n \in 1 .. Len(c.links.seq) : m < n =>
       /\ c.links.seq[m] # c.links.seq[n]
       /\ \E id \in Sources(c, c.links.seq[m]) :
            \A other \in Sources(c, c.links.seq[n]) : ~Before(other, id)

Names(paths) == {p.item : p \in paths}

\* A path list that came from the given paths: all of its paths are absolute
\* or all relative, and the index, which may have the other spelling, has the
\* same names.
PathsInv(l, x, paths) ==
  /\ l \in [seq : Seq(Path), keys : SUBSET Path]
  /\ \A p \in RangeOf(l.seq) : p.abs <=> x = 0
  /\ Names(RangeOf(l.seq)) = Names(paths)
  /\ Names(l.keys) = Names(paths)

FilePaths(c) == UNION {RangeOf(script[id[1]][id[2]].files) : id \in c.merged}

ExcludePaths(c) == UNION {RangeOf(script[id[1]][id[2]].excludes) : id \in c.merged}

\* The part of EntryInv that post-processing leaves alone.
MergedInv(c, x, n) ==
  /\ DOMAIN c = CfgFields
  /\ c.merged \in SUBSET (Objs \X Nat)
  /\ c.posted \in BOOLEAN
  /\ Seen(c, x, n)
  /\ ExactlyMatching(c, x, n)
  /\ n > 1 => \E m \in 1 .. Len(script[x]) : m < n /\ c.terms = <<x, m>>
  /\ LinksInv(c)

\* Configuration c of x after the blocks before the n-th were looked at.
EntryInv(c, x, n) ==
  /\ MergedInv(c, x, n)
  /\ ~c.posted
  /\ ScriptKind(c.kind)
  /\ PathsInv(c.files, x, FilePaths(c))
  /\ PathsInv(c.excludes, x, ExcludePaths(c))

\* What the settings of a file may be, if t is what its terms table held.
FileConfigInv(c, x, t) ==
  \A f \in DOMAIN c.fileconfigs : \A n \in 1 .. Len(script[x]) :
    LET kws == script[x][n].keywords
        tf  == [t EXCEPT !["required"] = <<f.item>>]
    IN KindFree(kws) => /\ MustMatch(kws, tf) => n \in c.fileconfigs[f]
                        /\ n \in c.fileconfigs[f] => AllKeywords(kws, tf)

NamesFile(c, x) ==
  \A f \in DOMAIN c.fileconfigs :
    \A n \in c.fileconfigs[f] :
      \E m \in 1 .. Len(script[x][n].keywords) :
        LET kw == script[x][n].keywords[m] IN
        ~kw.neg /\ \E a \in 1 .. Len(kw.alts) : <<f.item>> \in kw.alts[a]

\* The number of merges that have been made for object x.
Done(x) == IF Collapsed(x) THEN NumJobs ELSE IF x = o THEN j - 1 ELSE 0

Entry(x, m) == result[x][Key(JobAt(m))]

\* Merge m is the last so far that left its configuration with this table.
LastWith(x, m) ==
  /\ m \in 1 .. NumJobs /\ m <= Done(x)
  /\ \A n \in 1 .. NumJobs : m < n /\ n <= Done(x) => Entry(x, n).terms # Entry(x, m).terms

PostedInv(x, c) ==
  /\ MergedInv(c, x, Len(script[x]) + 1)
  /\ Collapsed(x) /\ x # 0
  /\ NamesFile(c, x)
  /\ Names(RangeOf(c.files.seq)) = Names(FilePaths(c)) \ Names(ExcludePaths(c))
  /\ \A m \in 1 .. NumJobs :
       KeysDistinct /\ LastWith(x, m) /\ Entry(x, m).terms = c.terms =>
         FileConfigInv(c, x, [TermsOf(JobAt(m)) EXCEPT
                                !["word"] = script[c.terms[1]][c.terms[2]].word])

ResultInv ==
  /\ DOMAIN result = Objs
  /\ \A x \in Objs :
       /\ \A m \in 1 .. NumJobs : m <= Done(x) => Key(JobAt(m)) \in DOMAIN result[x]
       /\ \A k \in DOMAIN result[x] :
            LET c == result[x][k] IN
            /\ \E m \in 1 .. NumJobs : m <= Done(x) /\ c.job = JobAt(m)
            /\ k = Key(c.job)
            /\ IF c.posted THEN PostedInv(x, c) ELSE EntryInv(c, x, Len(script[x]) + 1)

\* The table that merge m of x left its configuration with has the merge's terms.
HoldsTerms(x, m) ==
  LET r == Entry(x, m).terms IN
  \A k \in {"env", "config", "platform"} : tab[r[1]][r[2]][k] = TermsOf(JobAt(m))[k]

TablesInv ==
  /\ DOMAIN tab = Objs
  /\ \A x \in Objs :
       /\ DOMAIN tab[x] = 1 .. Len(script[x])
       /\ \A n \in 1 .. Len(script[x]) :
            /\ DOMAIN tab[x][n] = TermKeys
            /\ ScriptKind(tab[x][n]["kind"])
            /\ tab[x][n]["word"] = script[x][n].word
       /\ \A m \in 1 .. NumJobs : KeysDistinct /\ LastWith(x, m) => HoldsTerms(x, m)

PhaseInv ==
  /\ script \in Scripts
  /\ pc \in {"merge", "blocks", "post", "done"}
  /\ o \in Objs /\ j \in 1 .. NumJobs
  /\ pc = "post" => o # 0
  /\ pc = "done" => o = NumProjects
  /\ TermsInv(base) /\ TermsInv(terms)

\* The configuration that merge() is building.
CurrentInv ==
  pc = "blocks" =>
    /\ i \in 1 .. Len(script[o]) + 1
    /\ cfg.job = JobAt(j)
    /\ terms["config"] = JobAt(j).config /\ terms["platform"] = JobAt(j).platform
    /\ EntryInv(cfg, o, i)

CollapseInv == PhaseInv /\ CurrentInv /\ ResultInv /\ TablesInv

-----------------------------------------------------------------------------
(* The merges and the terms *)

\* Division with remainder.
LEMMA DivMod ==
  ASSUME NEW a \in Nat, NEW b \in Nat \ {0}
  PROVE  a \div b \in Nat /\ a % b \in 0 .. b - 1 /\ a = (b * (a \div b)) + (a % b)
<1>1. a \div b \in Nat OBVIOUS
<1>2. a % b \in 0 .. b - 1 OBVIOUS
<1>3. a = (b * (a \div b)) + (a % b) OBVIOUS
<1> QED BY <1>1, <1>2, <1>3

\* There is at least the root merge, and every merge is of two names.
LEMMA JobFacts ==
  /\ NumJobs \in Nat \ {0}
  /\ \A m \in 1 .. NumJobs : JobAt(m) \in [config : Values, platform : Values]
<1>1. /\ Platforms \in Seq(Values) /\ Configs \in Seq(Values)
      /\ Native \in Values /\ << >> \in Values
  BY ScriptAssumption
<1>2. Extra \in Seq(Values) BY <1>1, FilterRange DEF Extra
<1> DEFINE L == Len(Configs)
           Q == PerConfig
<1>3. L \in Nat /\ Q \in Nat \ {0} /\ Q = Len(Extra) + 1 BY <1>1, <1>2 DEF PerConfig
<1>4. NumJobs = 1 + L * Q BY DEF NumJobs
<1>5. ASSUME NEW m \in 1 .. NumJobs PROVE JobAt(m) \in [config : Values, platform : Values]
  <2>1. CASE m = 1 BY <1>1, <2>1 DEF JobAt, Root, Job
  <2>2. CASE m # 1
    <3> DEFINE d == (m - 2) \div Q
               r == (m - 2) % Q
    <3> HIDE DEF L, Q
    <3>1. L * Q \in Nat BY <1>3
    <3>2. m - 2 \in Nat /\ m - 2 < L * Q BY <1>4, <2>2, <3>1
    <3>3. d \in Nat /\ r \in 0 .. Q - 1 /\ m - 2 = (Q * d) + r BY <1>3, <3>2, DivMod
    <3> HIDE DEF d, r
    <3>4. d < L
      <4> SUFFICES ASSUME L <= d PROVE FALSE BY <1>3, <3>3
      <4>1. Q * L <= Q * d BY <1>3, <3>3
      <4> QED BY <1>3, <3>2, <3>3, <4>1
    <3>5. Configs[d + 1] \in Values BY <1>1, <1>3, <3>3, <3>4 DEF L
    <3>6. r # 0 => Extra[r] \in Values BY <1>2, <1>3, <3>3
    <3>7. JobAt(m) = Job(Configs[d + 1], IF r = 0 THEN Native ELSE Extra[r])
      BY <2>2 DEF JobAt, d, r, Q
    <3> QED BY <1>1, <3>5, <3>6, <3>7 DEF Job
  <2> QED BY <2>1, <2>2
<1>6. NumJobs \in Nat \ {0}
  <2>1. L * Q \in Nat BY <1>3
  <2> QED BY <1>4, <2>1
<1> QED BY <1>5, <1>6

\* Two terms tables that differ in the kind only are the same to keywords that
\* match no kind of the script.
LEMMA KindInsensitive ==
  ASSUME NEW kws \in Seq(Keyword), KindFree(kws), NEW t, NEW u,
         ScriptKind(t["kind"]), ScriptKind(u["kind"]),
         \A k \in TermKeys \ {"kind"} : t[k] = u[k]
  PROVE  /\ AllKeywords(kws, t) <=> AllKeywords(kws, u)
         /\ MustMatch(kws, t) <=> MustMatch(kws, u)
<1>1. ASSUME NEW n \in 1 .. Len(kws) PROVE MatchKeys(kws[n], t) = MatchKeys(kws[n], u)
  <2> DEFINE alts == kws[n].alts
  <2>1. ASSUME NEW a \in 1 .. Len(alts) PROVE Hits(alts[a], t) = Hits(alts[a], u)
    <3>1. \A x \in Objs : \A m \in 1 .. Len(script[x]) : script[x][m].kind \notin alts[a]
      BY <1>1, <2>1 DEF KindFree
    <3>2. t["kind"] # Nil => t["kind"] \notin alts[a] BY <3>1 DEF ScriptKind
    <3>3. u["kind"] # Nil => u["kind"] \notin alts[a] BY <3>1 DEF ScriptKind
    <3> QED BY <3>2, <3>3 DEF Hits
  <2> DEFINE First(v) == {b \in 1 .. Len(alts) : \A h \in 1 .. b - 1 : Hits(alts[h], v) = {}}
  <2>2. First(t) = First(u)
    <3>1. ASSUME NEW b \in 1 .. Len(alts), NEW h \in 1 .. b - 1
          PROVE  Hits(alts[h], t) = Hits(alts[h], u)
      <4>1. kws[n] \in Keyword BY <1>1
      <4>2. alts \in Seq(SUBSET Values) BY <4>1 DEF Keyword
      <4>3. h \in 1 .. Len(alts) BY <4>2
      <4> QED BY <2>1, <4>3
    <3> QED BY <3>1
  <2>3. \A b \in First(t) : Hits(alts[b], t) = Hits(alts[b], u) BY <2>1
  <2>4. MatchKeys(kws[n], t) = UNION {Hits(alts[b], t) : b \in First(t)} BY DEF MatchKeys
  <2>5. MatchKeys(kws[n], u) = UNION {Hits(alts[b], u) : b \in First(u)} BY DEF MatchKeys
  <2> HIDE DEF First
  <2> QED BY <2>2, <2>3, <2>4, <2>5
<1>2. AllKeywords(kws, t) <=> AllKeywords(kws, u) BY <1>1 DEF AllKeywords, iskeywordmatch
<1>3. t["required"] = u["required"] BY DEF TermKeys
<1> QED BY <1>1, <1>2, <1>3 DEF MustMatch

-----------------------------------------------------------------------------
(* Merging one block *)

\* Filtering the places of a list gives those in P, in increasing order.
LEMMA FilterPlaces ==
  ASSUME NEW N \in Nat, NEW P \in SUBSET (1 .. N)
  PROVE  LET places == Filter([n \in 1 .. N |-> n], P) IN
         /\ places \in Seq(1 .. N)
         /\ \A n \in 1 .. Len(places) : places[n] \in P
         /\ \A m, n \in 1 .. Len(places) : m < n => places[m] < places[n]
         /\ \A k \in P : \E n \in 1 .. Len(places) : places[n] = k
<1> DEFINE s == [n \in 1 .. N |-> n]
           t == Filter(s, P)
<1>1. s \in Seq(1 .. N) /\ Len(s) = N /\ \A n \in 1 .. N : s[n] = n
  OBVIOUS
<1> HIDE DEF s
<1>2. PICK e : Embeds(t, s, P, e) BY <1>1, FilterMeaning
<1>3. t \in Seq(1 .. N) BY <1>1, FilterMeaning
<1> HIDE DEF t
<1>4. \A n \in 1 .. Len(t) : e[n] \in 1 .. N /\ t[n] = e[n] BY <1>1, <1>2 DEF Embeds
<1>5. \A n \in 1 .. Len(t) : t[n] \in P BY <1>2 DEF Embeds
<1>6. \A m, n \in 1 .. Len(t) : m < n => t[m] < t[n] BY <1>2, <1>4 DEF Embeds
<1>7. \A k \in P : \E n \in 1 .. Len(t) : t[n] = k BY <1>1, <1>2, <1>4 DEF Embeds
<1> QED BY <1>3, <1>5, <1>6, <1>7 DEF t, s

\* mergefield adds the items that the index does not have, each once.
LEMMA MergeFieldMeaning ==
  ASSUME NEW S, NEW d \in [seq : Seq(S), keys : SUBSET S], NEW src \in Seq(S)
  PROVE  LET m == mergefield(d, src) IN
         /\ m \in [seq : Seq(S), keys : SUBSET S]
         /\ m.keys = d.keys \cup RangeOf(src)
         /\ RangeOf(m.seq) = RangeOf(d.seq) \cup (RangeOf(src) \ d.keys)
         /\ Len(d.seq) \in Nat /\ Len(m.seq) \in Nat /\ Len(d.seq) <= Len(m.seq)
         /\ \A k \in 1 .. Len(d.seq) : m.seq[k] = d.seq[k]
         /\ \A k \in Len(d.seq) + 1 .. Len(m.seq) :
              /\ m.seq[k] \in RangeOf(src) \ d.keys
              /\ \A l \in Len(d.seq) + 1 .. Len(m.seq) : k < l => m.seq[k] # m.seq[l]
<1> DEFINE
      new(n) == /\ src[n] \notin d.keys
                /\ \A h \in 1 .. n - 1 : src[h] # src[n]
      places == [n \in 1 .. Len(src) |-> n]
      P == {n \in 1 .. Len(src) : new(n)}
      fresh == Filter(places, P)
      tail == [n \in 1 .. Len(fresh) |-> src[fresh[n]]]
<1>1. /\ mergefield(d, src).seq = d.seq \o tail
      /\ mergefield(d, src).keys = d.keys \cup {src[n] : n \in 1 .. Len(src)}
      /\ mergefield(d, src) = [seq |-> d.seq \o tail,
                               keys |-> d.keys \cup {src[n] : n \in 1 .. Len(src)}]
  BY DEF mergefield
<1>2. Len(src) \in Nat /\ places \in Seq(1 .. Len(src)) /\ Len(places) = Len(src)
  OBVIOUS
<1>3. P \in SUBSET (1 .. Len(src)) OBVIOUS
<1>4. fresh \in Seq(1 .. Len(src)) /\ Len(fresh) \in Nat
  <2> HIDE DEF P
  <2>1. fresh \in Seq(1 .. Len(src)) BY <1>2, <1>3, FilterPlaces
  <2> QED BY <2>1
<1>5. /\ \A n \in 1 .. Len(fresh) : fresh[n] \in P
      /\ \A m, n \in 1 .. Len(fresh) : m < n => fresh[m] < fresh[n]
      /\ \A k \in P : \E n \in 1 .. Len(fresh) : fresh[n] = k
  <2> HIDE DEF P
  <2> QED BY <1>2, <1>3, FilterPlaces
<1> HIDE DEF fresh
<1>6. tail \in Seq(S) /\ Len(tail) = Len(fresh)
  <2>1. \A n \in 1 .. Len(fresh) : src[fresh[n]] \in S BY <1>4
  <2> QED BY <1>4, <2>1
<1>7. \A n \in 1 .. Len(tail) : tail[n] \in RangeOf(src) \ d.keys
  BY <1>4, <1>5, <1>6 DEF RangeOf
<1>8. ASSUME NEW m \in 1 .. Len(tail), NEW n \in 1 .. Len(tail), m < n
      PROVE  tail[m] # tail[n]
  <2>1. m \in 1 .. Len(fresh) /\ n \in 1 .. Len(fresh) BY <1>6
  <2>2. /\ fresh[m] < fresh[n] /\ new(fresh[n])
        /\ fresh[m] \in 1 .. Len(src) /\ fresh[n] \in 1 .. Len(src)
    BY <1>5, <1>8, <2>1
  <2>3. fresh[m] \in 1 .. fresh[n] - 1 BY <1>2, <2>2
  <2>4. src[fresh[m]] # src[fresh[n]] BY <2>2, <2>3
  <2> QED BY <2>1, <2>4
<1>9. ASSUME NEW y \in RangeOf(src) \ d.keys PROVE y \in RangeOf(tail)
  <2> DEFINE T == {n \in 1 .. Len(src) : src[n] = y}
  <2>1. T # {} /\ T \in SUBSET Nat BY <1>2, <1>9 DEF RangeOf
  <2>2. PICK n \in T : \A m \in T : n <= m BY <2>1, LeastNatural
  <2>3. n \in P
    <3>1. n \in 1 .. Len(src) /\ src[n] = y BY <2>2
    <3>2. \A h \in 1 .. n - 1 : h \in 1 .. Len(src) /\ ~(n <= h) BY <1>2, <3>1
    <3>3. \A h \in 1 .. n - 1 : src[h] # y BY <2>2, <3>2
    <3> QED BY <1>9, <3>1, <3>3
  <2>4. PICK k \in 1 .. Len(fresh) : fresh[k] = n BY <1>5, <2>3
  <2>5. tail[k] = y BY <2>2, <2>4
  <2> QED BY <1>6, <2>4, <2>5 DEF RangeOf
<1> HIDE DEF tail
<1>10. RangeOf(tail) = RangeOf(src) \ d.keys BY <1>7, <1>9 DEF RangeOf
<1> DEFINE m == d.seq \o tail
<1>11. /\ m \in Seq(S)
       /\ Len(d.seq) \in Nat /\ Len(tail) \in Nat
       /\ Len(m) = Len(d.seq) + Len(tail)
       /\ \A k \in 1 .. Len(d.seq) : m[k] = d.seq[k]
       /\ \A k \in Len(d.seq) + 1 .. Len(m) : m[k] = tail[k - Len(d.seq)]
  <2>1. d.seq \in Seq(S) OBVIOUS
  <2>2. Len(d.seq) \in Nat /\ Len(tail) \in Nat BY <1>6, <2>1
  <2>3. /\ m \in Seq(S)
        /\ Len(m) = Len(d.seq) + Len(tail)
        /\ \A k \in 1 .. Len(d.seq) + Len(tail) :
             m[k] = IF k <= Len(d.seq) THEN d.seq[k] ELSE tail[k - Len(d.seq)]
    BY <1>6, <2>1, ConcatProperties
  <2> HIDE DEF m
  <2>4. \A k \in 1 .. Len(d.seq) : m[k] = d.seq[k] BY <2>2, <2>3
  <2>5. \A k \in Len(d.seq) + 1 .. Len(m) : m[k] = tail[k - Len(d.seq)] BY <2>2, <2>3
  <2> QED BY <2>2, <2>3, <2>4, <2>5
<1> HIDE DEF m
<1>12. RangeOf(m) = RangeOf(d.seq) \cup RangeOf(tail)
  <2>1. RangeOf(m) \subseteq RangeOf(d.seq) \cup RangeOf(tail)
    <3> SUFFICES ASSUME NEW k \in 1 .. Len(m)
                 PROVE  m[k] \in RangeOf(d.seq) \cup RangeOf(tail)
      BY DEF RangeOf
    <3>1. CASE k <= Len(d.seq) BY <1>11, <3>1 DEF RangeOf
    <3>2. CASE k > Len(d.seq)
      <4>1. k - Len(d.seq) \in 1 .. Len(tail) /\ m[k] = tail[k - Len(d.seq)]
        BY <1>11, <3>2
      <4> QED BY <4>1 DEF RangeOf
    <3> QED BY <1>11, <3>1, <3>2
  <2>2. RangeOf(d.seq) \subseteq RangeOf(m) BY <1>11 DEF RangeOf
  <2>3. RangeOf(tail) \subseteq RangeOf(m)
    <3> SUFFICES ASSUME NEW k \in 1 .. Len(tail) PROVE tail[k] \in RangeOf(m)
      BY DEF RangeOf
    <3>1. k + Len(d.seq) \in Len(d.seq) + 1 .. Len(m) BY <1>11
    <3>2. m[k + Len(d.seq)] = tail[k]
      <4>1. m[k + Len(d.seq)] = tail[(k + Len(d.seq)) - Len(d.seq)] BY <1>11, <3>1
      <4>2. (k + Len(d.seq)) - Len(d.seq) = k BY <1>11
      <4> QED BY <4>1, <4>2
    <3>3. k + Len(d.seq) \in 1 .. Len(m) BY <1>11
    <3> QED BY <3>2, <3>3 DEF RangeOf
  <2> QED BY <2>1, <2>2, <2>3
<1>13. \A k \in Len(d.seq) + 1 .. Len(m) :
         /\ m[k] \in RangeOf(src) \ d.keys
         /\ \A l \in Len(d.seq) + 1 .. Len(m) : k < l => m[k] # m[l]
  <2> TAKE k \in Len(d.seq) + 1 .. Len(m)
  <2>1. k - Len(d.seq) \in 1 .. Len(tail) /\ m[k] = tail[k - Len(d.seq)] BY <1>11
  <2>2. m[k] \in RangeOf(src) \ d.keys BY <1>7, <2>1
  <2>3. ASSUME NEW l \in Len(d.seq) + 1 .. Len(m), k < l PROVE m[k] # m[l]
    <3>1. /\ l - Len(d.seq) \in 1 .. Len(tail) /\ m[l] = tail[l - Len(d.seq)]
          /\ k - Len(d.seq) < l - Len(d.seq)
      BY <1>11, <2>3
    <3> QED BY <1>8, <2>1, <3>1
  <2> QED BY <2>2, <2>3
<1>14. /\ mergefield(d, src).seq = m
       /\ mergefield(d, src).keys = d.keys \cup RangeOf(src)
       /\ mergefield(d, src) = [seq |-> m, keys |-> d.keys \cup RangeOf(src)]
  BY <1>1 DEF m, RangeOf
<1>15. RangeOf(src) \subseteq S BY DEF RangeOf
<1> QED BY <1>10, <1>11, <1>12, <1>13, <1>14, <1>15

\* The blocks of a script.
LEMMA ScriptFacts ==
  ASSUME script \in Scripts, NEW x \in Objs
  PROVE  /\ script[x] \in Seq(Block)
         /\ Len(script[x]) \in Nat \ {0}
         /\ script[x][1].keywords = << >>
         /\ \A n \in 1 .. Len(script[x]) :
              /\ script[x][n] \in Block
              /\ \A p \in RangeOf(script[x][n].files) \cup RangeOf(script[x][n].excludes) :
                   p.abs <=> x = 0
<1>1. script \in [Objs -> Seq(Block)] BY ScriptAssumption
<1>2. script[x] \in Seq(Block) BY <1>1
<1>3. Len(script[x]) > 0 /\ script[x][1].keywords = << >> BY ScriptAssumption
<1>4. \A n \in 1 .. Len(script[x]) : script[x][n] \in Block BY <1>2
<1>5. \A n \in 1 .. Len(script[x]) :
        \A p \in RangeOf(script[x][n].files) \cup RangeOf(script[x][n].excludes) :
          p.abs <=> x = 0
  BY ScriptAssumption
<1>6. Len(script[x]) \in Nat \ {0} BY <1>2, <1>3
<1> QED BY <1>2, <1>3, <1>4, <1>5, <1>6

\* The fields after a block was merged.
LEMMA MergeObjectFields ==
  ASSUME NEW c, DOMAIN c = CfgFields, NEW b, NEW id
  PROVE  LET d == mergeobject(c, b, id) IN
         /\ DOMAIN d = CfgFields
         /\ d.kind = Overwrite(c.kind, b.kind)
         /\ d.links = mergefield(c.links, b.links)
         /\ d.files = mergefield(c.files, b.files)
         /\ d.excludes = mergefield(c.excludes, b.excludes)
         /\ d.terms = id /\ d.merged = c.merged \cup {id}
         /\ d.job = c.job /\ d.posted = c.posted
BY DEF mergeobject, CfgFields

LEMMA NamesOfUnion == ASSUME NEW A, NEW B PROVE Names(A \cup B) = Names(A) \cup Names(B)
BY DEF Names

\* Merging a block's paths: whatever the spelling of the index, every name that
\* is new gets into the list.
LEMMA MergePaths ==
  ASSUME NEW l, NEW x, NEW paths, PathsInv(l, x, paths),
         NEW src \in Seq(Path), \A p \in RangeOf(src) : p.abs <=> x = 0
  PROVE  PathsInv(mergefield(l, src), x, paths \cup RangeOf(src))
<1> DEFINE m == mergefield(l, src)
<1>1. l \in [seq : Seq(Path), keys : SUBSET Path] BY DEF PathsInv
<1>2. /\ m \in [seq : Seq(Path), keys : SUBSET Path]
      /\ m.keys = l.keys \cup RangeOf(src)
      /\ RangeOf(m.seq) = RangeOf(l.seq) \cup (RangeOf(src) \ l.keys)
  BY <1>1, MergeFieldMeaning
<1> HIDE DEF m
<1>3. \A p \in RangeOf(m.seq) : p.abs <=> x = 0 BY <1>2 DEF PathsInv
<1> DEFINE R == RangeOf(src)
<1> HIDE DEF R
<1>4. Names(l.keys) = Names(paths) /\ Names(RangeOf(l.seq)) = Names(paths) BY DEF PathsInv
<1>5. Names(paths \cup R) = Names(paths) \cup Names(R) BY NamesOfUnion
<1>6. Names(m.keys) = Names(paths \cup R)
  <2>1. Names(m.keys) = Names(l.keys \cup R) BY <1>2 DEF R
  <2>2. Names(l.keys \cup R) = Names(l.keys) \cup Names(R) BY NamesOfUnion
  <2> QED BY <1>4, <1>5, <2>1, <2>2, Zenon
<1>7. Names(RangeOf(m.seq)) = Names(paths \cup R)
  <2>1. Names(RangeOf(m.seq)) = Names(RangeOf(l.seq) \cup (R \ l.keys)) BY <1>2 DEF R
  <2>2. Names(RangeOf(l.seq) \cup (R \ l.keys)) = Names(RangeOf(l.seq)) \cup Names(R \ l.keys)
    BY NamesOfUnion
  <2>3. Names(R) \subseteq Names(R \ l.keys) \cup Names(l.keys) BY DEF Names
  <2>4. Names(R \ l.keys) \subseteq Names(R) BY DEF Names
  <2> QED BY <1>4, <1>5, <2>1, <2>2, <2>3, <2>4
<1> QED BY <1>2, <1>3, <1>6, <1>7 DEF PathsInv, m, R

\* Merging a block's links: a new item comes after all those of earlier blocks.
LEMMA MergeLinks ==
  ASSUME NEW c, LinksInv(c), NEW x \in Objs, NEW n \in 1 .. Len(script[x]),
         script \in Scripts, Seen(c, x, n), c.merged \in SUBSET (Objs \X Nat),
         NEW d, d.links = mergefield(c.links, script[x][n].links),
         d.merged = c.merged \cup {<<x, n>>}
  PROVE  LinksInv(d)
<1> DEFINE src == script[x][n].links
           id == <<x, n>>
           s == c.links.seq
           t == d.links.seq
<1>1. src \in Seq(Items) BY ScriptFacts DEF Block
<1>2. c.links \in [seq : Seq(Items), keys : SUBSET Items] BY DEF LinksInv
<1>3. /\ d.links \in [seq : Seq(Items), keys : SUBSET Items]
      /\ d.links.keys = c.links.keys \cup RangeOf(src)
      /\ RangeOf(t) = RangeOf(s) \cup (RangeOf(src) \ c.links.keys)
      /\ Len(s) \in Nat /\ Len(t) \in Nat /\ Len(s) <= Len(t)
      /\ \A k \in 1 .. Len(s) : t[k] = s[k]
      /\ \A k \in Len(s) + 1 .. Len(t) :
           /\ t[k] \in RangeOf(src) \ c.links.keys
           /\ \A l \in Len(s) + 1 .. Len(t) : k < l => t[k] # t[l]
  <2> DEFINE M == mergefield(c.links, src)
  <2> HIDE DEF src
  <2>1. /\ M \in [seq : Seq(Items), keys : SUBSET Items]
        /\ M.keys = c.links.keys \cup RangeOf(src)
    BY <1>1, <1>2, MergeFieldMeaning
  <2>6. RangeOf(M.seq) = RangeOf(s) \cup (RangeOf(src) \ c.links.keys)
    BY <1>1, <1>2, MergeFieldMeaning, SMTT(30)
  <2>2. Len(s) \in Nat /\ Len(M.seq) \in Nat /\ Len(s) <= Len(M.seq)
    BY <1>1, <1>2, MergeFieldMeaning
  <2>3. \A k \in 1 .. Len(s) : M.seq[k] = s[k]
    BY <1>1, <1>2, MergeFieldMeaning, SMTT(30)
  <2>4. \A k \in Len(s) + 1 .. Len(M.seq) :
          /\ M.seq[k] \in RangeOf(src) \ c.links.keys
          /\ \A l \in Len(s) + 1 .. Len(M.seq) : k < l => M.seq[k] # M.seq[l]
    BY <1>1, <1>2, MergeFieldMeaning
  <2>5. d.links = M BY DEF src
  <2> HIDE DEF M
  <2> QED BY <2>1, <2>2, <2>3, <2>4, <2>5, <2>6
<1>4. \A k \in 1 .. Len(t) : t[k] \in Items BY <1>3
<1>5. c.links.keys = RangeOf(s) BY DEF LinksInv
<1>6. d.links.keys = RangeOf(t) BY <1>3, <1>5
<1>7. ASSUME NEW y PROVE Sources(d, y) = Sources(c, y) \cup (IF y \in RangeOf(src) THEN {id} ELSE {})
  <2>1. script[id[1]][id[2]].links = src OBVIOUS
  <2> HIDE DEF src
  <2> QED BY <2>1 DEF Sources
<1>8. \A y \in Items : (y \in RangeOf(t)) <=> (Sources(d, y) # {})
  <2> TAKE y \in Items
  <2>1. (y \in RangeOf(s)) <=> (Sources(c, y) # {}) BY DEF LinksInv
  <2>2. Sources(d, y) # {} <=> (Sources(c, y) # {} \/ y \in RangeOf(src))
    <3> HIDE DEF src, id
    <3> QED BY <1>7
  <2> HIDE DEF src, s, t
  <2> QED BY <1>3, <1>5, <2>1, <2>2
<1>9. ASSUME NEW old \in c.merged PROVE ~Before(id, old)
  <2>1. PICK a \in Objs, b \in Nat : old = <<a, b>> BY <1>9
  <2>2. a \in {0, x} /\ (a = x => b < n) BY <1>9, <2>1 DEF Seen
  <2>3. x \in Nat /\ n \in Nat BY ScriptFacts DEF Objs
  <2> QED BY <2>1, <2>2, <2>3 DEF Before
<1>10. \A y : Sources(c, y) \subseteq c.merged BY DEF Sources
<1>11. ~Before(id, id)
  <2>1. x \in Nat /\ n \in Nat BY ScriptFacts DEF Objs
  <2> QED BY <2>1 DEF Before
<1> HIDE DEF src, id, t
<1>12. ASSUME NEW k \in 1 .. Len(t), NEW l \in 1 .. Len(t), k < l
       PROVE  /\ t[k] # t[l]
              /\ \E a \in Sources(d, t[k]) : \A b \in Sources(d, t[l]) : ~Before(b, a)
  <2>1. CASE k <= Len(s)
    <3>1. k \in 1 .. Len(s) /\ t[k] = s[k] BY <1>3, <2>1
    <3>2. s[k] \in RangeOf(s) /\ s[k] \in Items BY <1>2, <3>1 DEF RangeOf
    <3>3. CASE l <= Len(s)
      <4>1. l \in 1 .. Len(s) /\ t[l] = s[l] BY <1>3, <3>3
      <4>2. s[k] # s[l] BY <1>12, <3>1, <4>1 DEF LinksInv
      <4>3. PICK a \in Sources(c, s[k]) : \A b \in Sources(c, s[l]) : ~Before(b, a)
        BY <1>12, <3>1, <4>1 DEF LinksInv
      <4>4. a \in Sources(d, t[k]) BY <1>7, <3>1, <4>3
      <4>5. ~Before(id, a) BY <1>9, <1>10, <4>3
      <4>6. \A b \in Sources(d, t[l]) : ~Before(b, a) BY <1>7, <4>1, <4>3, <4>5
      <4> QED BY <3>1, <4>1, <4>2, <4>4, <4>6
    <3>4. CASE l > Len(s)
      <4>1. t[l] \in RangeOf(src) \ RangeOf(s) BY <1>3, <1>5, <3>4
      <4>2. t[l] \in Items BY <1>4
      <4>3. Sources(c, t[l]) = {} BY <4>1, <4>2 DEF LinksInv
      <4>4. Sources(d, t[l]) \subseteq {id} BY <1>7, <4>3
      <4>5. PICK a \in Sources(c, s[k]) : TRUE BY <3>2 DEF LinksInv
      <4>6. a \in Sources(d, t[k]) BY <1>7, <3>1, <4>5
      <4>7. ~Before(id, a) BY <1>9, <1>10, <4>5
      <4> QED BY <3>1, <3>2, <4>1, <4>4, <4>6, <4>7
    <3> QED BY <1>3, <3>3, <3>4
  <2>2. CASE k > Len(s)
    <3>1. k \in Len(s) + 1 .. Len(t) /\ l \in Len(s) + 1 .. Len(t)
      BY <1>3, <1>12, <2>2
    <3>2. t[k] # t[l] BY <1>3, <1>12, <3>1
    <3>3. t[k] \in RangeOf(src) /\ t[l] \in RangeOf(src) \ RangeOf(s) BY <1>3, <1>5, <3>1
    <3>4. Sources(c, t[l]) = {}
      <4>1. t[l] \in Items BY <1>4
      <4> QED BY <3>3, <4>1 DEF LinksInv
    <3>5. Sources(d, t[l]) \subseteq {id} BY <1>7, <3>4
    <3>6. id \in Sources(d, t[k]) BY <1>7, <3>3
    <3> QED BY <1>11, <3>2, <3>5, <3>6
  <2> QED BY <1>3, <2>1, <2>2
<1> QED BY <1>3, <1>6, <1>8, <1>12 DEF LinksInv, t

\* Merging a block that matches.
LEMMA MergeKeepsEntry ==
  ASSUME script \in Scripts, NEW x \in Objs, NEW n \in 1 .. Len(script[x]),
         NEW c, EntryInv(c, x, n),
         KindFree(script[x][n].keywords) => AllKeywords(script[x][n].keywords, TermsOf(c.job))
  PROVE  EntryInv(mergeobject(c, script[x][n], <<x, n>>), x, n + 1)
<1> DEFINE b == script[x][n]
           id == <<x, n>>
           d == mergeobject(c, b, id)
<1>1. MergedInv(c, x, n) /\ DOMAIN c = CfgFields /\ c.merged \in SUBSET (Objs \X Nat)
  BY DEF EntryInv, MergedInv
<1>2. /\ DOMAIN d = CfgFields
      /\ d.kind = Overwrite(c.kind, b.kind)
      /\ d.links = mergefield(c.links, b.links)
      /\ d.files = mergefield(c.files, b.files)
      /\ d.excludes = mergefield(c.excludes, b.excludes)
      /\ d.terms = id /\ d.merged = c.merged \cup {id}
      /\ d.job = c.job /\ d.posted = c.posted
  <2> HIDE DEF b, id
  <2> QED BY <1>1, MergeObjectFields
<1> HIDE DEF d
<1>3. /\ b \in Block /\ Len(script[x]) \in Nat /\ n \in Nat /\ x \in Nat
      /\ \A p \in RangeOf(b.files) \cup RangeOf(b.excludes) : p.abs <=> x = 0
  BY ScriptFacts DEF Objs
<1>4. /\ b.files \in Seq(Path) /\ b.excludes \in Seq(Path) BY <1>3 DEF Block
<1>5. d.merged \in SUBSET (Objs \X Nat) BY <1>1, <1>2, <1>3
<1>6. Seen(d, x, n + 1)
  <2>1. id[1] = x /\ id[2] = n OBVIOUS
  <2> HIDE DEF id
  <2> SUFFICES ASSUME NEW a \in d.merged
               PROVE  /\ a[1] \in {0, x} /\ a[2] \in 1 .. Len(script[a[1]])
                      /\ (a[1] = x => a[2] < n + 1)
    BY DEF Seen
  <2>2. CASE a = id BY <1>3, <2>1, <2>2
  <2>3. CASE a \in c.merged
    <3>1. a[1] \in {0, x} /\ a[2] \in 1 .. Len(script[a[1]]) /\ (a[1] = x => a[2] < n)
      BY <1>1, <2>3 DEF MergedInv, Seen
    <3>2. a[2] \in Nat BY <1>1, <2>3
    <3> QED BY <1>3, <3>1, <3>2
  <2> QED BY <1>2, <2>2, <2>3
<1>7. ExactlyMatching(d, x, n + 1)
  <2> SUFFICES ASSUME NEW m \in 1 .. Len(script[x]), m < n + 1,
                      KindFree(script[x][m].keywords)
               PROVE  <<x, m>> \in d.merged
                        <=> AllKeywords(script[x][m].keywords, TermsOf(c.job))
    BY <1>2 DEF ExactlyMatching
  <2>1. CASE m = n BY <1>2, <2>1
  <2>2. CASE m # n
    <3>1. m < n BY <1>3, <2>2
    <3>2. <<x, m>> # id BY <2>2
    <3>3. <<x, m>> \in c.merged <=> AllKeywords(script[x][m].keywords, TermsOf(c.job))
      BY <1>1, <3>1 DEF MergedInv, ExactlyMatching
    <3> HIDE DEF id
    <3> QED BY <1>2, <3>2, <3>3
  <2> QED BY <2>1, <2>2
<1>8. \E m \in 1 .. Len(script[x]) : m < n + 1 /\ d.terms = <<x, m>> BY <1>2, <1>3
<1>9. LinksInv(d)
  <2>1. LinksInv(c) /\ Seen(c, x, n) BY <1>1 DEF MergedInv
  <2> QED BY <1>1, <1>2, <2>1, MergeLinks
<1>10. ScriptKind(d.kind)
  <2>1. ScriptKind(c.kind) BY DEF EntryInv
  <2>2. ScriptKind(b.kind) BY DEF ScriptKind
  <2> HIDE DEF b
  <2> QED BY <1>2, <2>1, <2>2 DEF Overwrite
<1>11. FilePaths(d) = FilePaths(c) \cup RangeOf(b.files)
  <2>1. script[id[1]][id[2]] = b OBVIOUS
  <2> HIDE DEF id, b
  <2> QED BY <1>2, <2>1 DEF FilePaths
<1>12. ExcludePaths(d) = ExcludePaths(c) \cup RangeOf(b.excludes)
  <2>1. script[id[1]][id[2]] = b OBVIOUS
  <2> HIDE DEF id, b
  <2> QED BY <1>2, <2>1 DEF ExcludePaths
<1> HIDE DEF b, id
<1>13. PathsInv(d.files, x, FilePaths(d))
  <2>1. PathsInv(c.files, x, FilePaths(c)) BY DEF EntryInv
  <2>2. \A p \in RangeOf(b.files) : p.abs <=> x = 0 BY <1>3
  <2> QED BY <1>2, <1>4, <1>11, <2>1, <2>2, MergePaths
<1>14. PathsInv(d.excludes, x, ExcludePaths(d))
  <2>1. PathsInv(c.excludes, x, ExcludePaths(c)) BY DEF EntryInv
  <2>2. \A p \in RangeOf(b.excludes) : p.abs <=> x = 0 BY <1>3
  <2> QED BY <1>2, <1>4, <1>12, <2>1, <2>2, MergePaths
<1>15. d.posted = FALSE BY <1>2 DEF EntryInv, MergedInv
<1>16. MergedInv(d, x, n + 1)
  BY <1>2, <1>5, <1>6, <1>7, <1>8, <1>9, <1>15 DEF MergedInv
<1> QED BY <1>10, <1>13, <1>14, <1>15, <1>16 DEF EntryInv, d, b, id

\* Skipping one that does not; the first block of an object always matches.
LEMMA SkipKeepsEntry ==
  ASSUME script \in Scripts, NEW x \in Objs, NEW n \in 1 .. Len(script[x]), n # 1,
         NEW c, EntryInv(c, x, n),
         KindFree(script[x][n].keywords) => ~AllKeywords(script[x][n].keywords, TermsOf(c.job))
  PROVE  EntryInv(c, x, n + 1)
<1>1. MergedInv(c, x, n) /\ c.merged \in SUBSET (Objs \X Nat)
  BY DEF EntryInv, MergedInv
<1>2. Len(script[x]) \in Nat /\ n \in Nat /\ n > 1 BY ScriptFacts
<1>3. Seen(c, x, n + 1)
  <2> SUFFICES ASSUME NEW a \in c.merged, a[1] = x PROVE a[2] < n + 1
    BY <1>1 DEF MergedInv, Seen
  <2>1. a[2] < n /\ a[2] \in Nat BY <1>1 DEF MergedInv, Seen
  <2> QED BY <1>2, <2>1
<1>4. <<x, n>> \notin c.merged
  <2>1. <<x, n>>[1] = x /\ <<x, n>>[2] = n OBVIOUS
  <2> DEFINE id == <<x, n>>
  <2> HIDE DEF id
  <2>2. ASSUME id \in c.merged PROVE FALSE
    <3>1. id[1] = x /\ id[2] = n BY <2>1 DEF id
    <3>2. id[2] < n BY <1>1, <2>2, <3>1 DEF MergedInv, Seen
    <3> QED BY <1>2, <3>1, <3>2
  <2> QED BY <2>2 DEF id
<1>5. ExactlyMatching(c, x, n + 1)
  <2> SUFFICES ASSUME NEW m \in 1 .. Len(script[x]), m < n + 1,
                      KindFree(script[x][m].keywords)
               PROVE  <<x, m>> \in c.merged
                        <=> AllKeywords(script[x][m].keywords, TermsOf(c.job))
    BY DEF ExactlyMatching
  <2>1. CASE m = n BY <1>4, <2>1
  <2>2. CASE m # n
    <3>1. m < n BY <1>2, <2>2
    <3> QED BY <1>1, <3>1 DEF MergedInv, ExactlyMatching
  <2> QED BY <2>1, <2>2
<1>6. \E m \in 1 .. Len(script[x]) : m < n + 1 /\ c.terms = <<x, m>>
  <2>1. PICK m \in 1 .. Len(script[x]) : m < n /\ c.terms = <<x, m>>
    BY <1>1, <1>2 DEF MergedInv
  <2>2. m < n + 1 BY <1>2, <2>1
  <2> QED BY <2>1, <2>2
<1>7. MergedInv(c, x, n + 1) BY <1>1, <1>3, <1>5, <1>6 DEF MergedInv
<1> QED BY <1>7 DEF EntryInv

-----------------------------------------------------------------------------
(* Where a configuration starts *)

\* A path list made relative.
LEMMA AdjustPaths ==
  ASSUME NEW l, NEW paths, PathsInv(l, 0, paths), NEW x, x # 0
  PROVE  PathsInv(adjustpathlist(l), x, paths)
<1> DEFINE s == l.seq
           t == [n \in DOMAIN s |-> Relative(s[n])]
           m == adjustpathlist(l)
<1>1. l \in [seq : Seq(Path), keys : SUBSET Path] BY DEF PathsInv
<1>2. m.seq = t /\ m.keys = l.keys /\ m = [seq |-> t, keys |-> l.keys]
  BY <1>1 DEF adjustpathlist
<1>3. s \in Seq(Path) BY <1>1
<1> HIDE DEF s, m
<1>4. \A n \in 1 .. Len(s) :
        /\ Relative(s[n]) \in Path
        /\ Relative(s[n]).abs = FALSE /\ Relative(s[n]).item = s[n].item
  <2> TAKE n \in 1 .. Len(s)
  <2>1. s[n] \in Path BY <1>3
  <2> QED BY <2>1 DEF Relative, Path
<1>5. /\ t \in Seq(Path) /\ Len(t) = Len(s)
      /\ \A n \in 1 .. Len(t) : t[n] = Relative(s[n])
  BY <1>3, <1>4
<1> HIDE DEF t
<1>6. \A p \in RangeOf(t) : ~p.abs BY <1>4, <1>5 DEF RangeOf
<1>7. Names(RangeOf(t)) = Names(RangeOf(s)) BY <1>4, <1>5 DEF RangeOf, Names
<1>8. Names(RangeOf(s)) = Names(paths) /\ Names(l.keys) = Names(paths)
  BY DEF PathsInv, s
<1>9. m \in [seq : Seq(Path), keys : SUBSET Path] BY <1>1, <1>2, <1>5
<1> QED BY <1>2, <1>6, <1>7, <1>8, <1>9 DEF PathsInv, m

\* A configuration for which the solution has nothing.
LEMMA EmptyEntry ==
  ASSUME script \in Scripts, NEW x \in Objs, NEW job
  PROVE  EntryInv([EmptyCfg EXCEPT !.job = job], x, 1)
<1> DEFINE c == [EmptyCfg EXCEPT !.job = job]
<1>1. /\ DOMAIN c = CfgFields /\ c.merged = {} /\ c.posted = FALSE /\ c.kind = Nil
      /\ c.links = EmptyList /\ c.files = EmptyList /\ c.excludes = EmptyList
  BY DEF EmptyCfg, CfgFields
<1> HIDE DEF c
<1>2. /\ \A S : EmptyList \in [seq : Seq(S), keys : SUBSET S]
      /\ RangeOf(EmptyList.seq) = {} /\ EmptyList.keys = {}
      /\ Len(EmptyList.seq) = 0
  BY DEF EmptyList, RangeOf
<1>3. Seen(c, x, 1) BY <1>1 DEF Seen
<1>4. ExactlyMatching(c, x, 1)
  <2>1. \A m \in 1 .. Len(script[x]) : ~(m < 1) BY ScriptFacts
  <2> QED BY <2>1 DEF ExactlyMatching
<1>5. LinksInv(c)
  <2>1. \A y : Sources(c, y) = {} BY <1>1 DEF Sources
  <2>2. \A m \in 1 .. Len(c.links.seq) : FALSE BY <1>1, <1>2
  <2> QED BY <1>1, <1>2, <2>1, <2>2 DEF LinksInv
<1>6. MergedInv(c, x, 1)
  <2>1. c.merged \in SUBSET (Objs \X Nat) /\ c.posted \in BOOLEAN BY <1>1
  <2>2. ~(1 > 1) OBVIOUS
  <2> QED BY <1>1, <1>3, <1>4, <1>5, <2>1, <2>2, Zenon DEF MergedInv
<1>7. Names({}) = {} BY DEF Names
<1>8. FilePaths(c) = {} /\ ExcludePaths(c) = {} BY <1>1 DEF FilePaths, ExcludePaths
<1>9. PathsInv(EmptyList, x, {})
  <2>1. \A p \in RangeOf(EmptyList.seq) : p.abs <=> x = 0 BY <1>2
  <2>2. Names(RangeOf(EmptyList.seq)) = Names({}) /\ Names(EmptyList.keys) = Names({}) BY <1>2
  <2> QED BY <1>2, <2>1, <2>2 DEF PathsInv
<1> QED BY <1>1, <1>6, <1>8, <1>9 DEF EntryInv, ScriptKind, c

\* A configuration that starts from the solution's.
LEMMA BasisEntry ==
  ASSUME script \in Scripts, NEW x \in Objs, x # 0, NEW job,
         NEW n, NEW c, EntryInv(c, 0, n)
  PROVE  EntryInv([FromBasis(c) EXCEPT !.job = job], x, 1)
<1> DEFINE d == [FromBasis(c) EXCEPT !.job = job]
<1>1. MergedInv(c, 0, n) /\ DOMAIN c = CfgFields /\ c.merged \in SUBSET (Objs \X Nat)
  BY DEF EntryInv, MergedInv
<1>2. /\ DOMAIN d = CfgFields
      /\ d.merged = c.merged /\ d.posted = FALSE /\ d.kind = c.kind /\ d.links = c.links
      /\ d.files = adjustpathlist(c.files) /\ d.excludes = adjustpathlist(c.excludes)
  BY <1>1 DEF FromBasis, CfgFields
<1> HIDE DEF d
<1>3. Seen(d, x, 1)
  <2> SUFFICES ASSUME NEW a \in c.merged
               PROVE  /\ a[1] \in {0, x} /\ a[2] \in 1 .. Len(script[a[1]])
                      /\ a[1] = x => a[2] < 1
    BY <1>2 DEF Seen
  <2>1. a[1] = 0 /\ a[2] \in 1 .. Len(script[a[1]]) BY <1>1 DEF MergedInv, Seen
  <2> QED BY <2>1
<1>4. ExactlyMatching(d, x, 1)
  <2>1. \A m \in 1 .. Len(script[x]) : ~(m < 1) BY ScriptFacts
  <2> QED BY <2>1 DEF ExactlyMatching
<1>5. LinksInv(d)
  <2>1. LinksInv(c) BY <1>1 DEF MergedInv
  <2>2. \A y : Sources(d, y) = Sources(c, y) BY <1>2 DEF Sources
  <2> QED BY <1>2, <2>1, <2>2 DEF LinksInv
<1>6. MergedInv(d, x, 1)
  <2>1. d.merged \in SUBSET (Objs \X Nat) /\ d.posted \in BOOLEAN BY <1>1, <1>2
  <2>2. ~(1 > 1) OBVIOUS
  <2> QED BY <1>2, <1>3, <1>4, <1>5, <2>1, <2>2, Zenon DEF MergedInv
<1>7. FilePaths(d) = FilePaths(c) /\ ExcludePaths(d) = ExcludePaths(c)
  BY <1>2 DEF FilePaths, ExcludePaths
<1>8. PathsInv(d.files, x, FilePaths(d)) /\ PathsInv(d.excludes, x, ExcludePaths(d))
  BY <1>2, <1>7, AdjustPaths DEF EntryInv
<1>9. ScriptKind(d.kind) BY <1>2 DEF EntryInv
<1> QED BY <1>2, <1>6, <1>8, <1>9 DEF EntryInv, d

-----------------------------------------------------------------------------
(* Frames *)

\* What is said of one configuration depends on the script only.
LEMMA ScriptFrame ==
  ASSUME script' = script
  PROVE  /\ \A k : ScriptKind(k)' <=> ScriptKind(k)
         /\ \A t : TermsInv(t)' <=> TermsInv(t)
         /\ \A c, x, n : MergedInv(c, x, n)' <=> MergedInv(c, x, n)
         /\ \A c, x, n : EntryInv(c, x, n)' <=> EntryInv(c, x, n)
         /\ \A c, x : NamesFile(c, x)' <=> NamesFile(c, x)
         /\ \A c, x, t : FileConfigInv(c, x, t)' <=> FileConfigInv(c, x, t)
         /\ \A c : FilePaths(c)' = FilePaths(c) /\ ExcludePaths(c)' = ExcludePaths(c)
         /\ \A kws : KindFree(kws)' <=> KindFree(kws)
<1>1. \A kws : KindFree(kws)' <=> KindFree(kws) BY DEF KindFree
<1>2. \A k : ScriptKind(k)' <=> ScriptKind(k) BY DEF ScriptKind
<1>3. \A t : TermsInv(t)' <=> TermsInv(t) BY <1>2 DEF TermsInv
<1>4. \A c : FilePaths(c)' = FilePaths(c) /\ ExcludePaths(c)' = ExcludePaths(c)
  BY DEF FilePaths, ExcludePaths
<1>5. \A c, x : NamesFile(c, x)' <=> NamesFile(c, x) BY DEF NamesFile
<1>6. \A c, x, t : FileConfigInv(c, x, t)' <=> FileConfigInv(c, x, t)
  BY <1>1 DEF FileConfigInv
<1>7. \A c, y : Sources(c, y)' = Sources(c, y) BY DEF Sources
<1>8. \A c : LinksInv(c)' <=> LinksInv(c) BY <1>7 DEF LinksInv
<1>9. \A c, x, n : Seen(c, x, n)' <=> Seen(c, x, n) BY DEF Seen
<1>10. \A c, x, n : ExactlyMatching(c, x, n)' <=> ExactlyMatching(c, x, n)
  BY <1>1 DEF ExactlyMatching
<1>11. \A c, x, n : MergedInv(c, x, n)' <=> MergedInv(c, x, n)
  BY <1>8, <1>9, <1>10 DEF MergedInv
<1>12. \A c, x, n : EntryInv(c, x, n)' <=> EntryInv(c, x, n)
  BY <1>2, <1>4, <1>11 DEF EntryInv
<1> QED BY <1>1, <1>2, <1>3, <1>4, <1>5, <1>6, <1>11, <1>12

LEMMA DoneFacts ==
  ASSUME PhaseInv, NEW x \in Objs
  PROVE  Done(x) \in 0 .. NumJobs
BY JobFacts DEF PhaseInv, Done

\* The terms of a finished configuration are those of one of its blocks.
LEMMA EntryTerms ==
  ASSUME PhaseInv, ResultInv, NEW x \in Objs, NEW m \in 1 .. NumJobs, m <= Done(x)
  PROVE  /\ Key(JobAt(m)) \in DOMAIN result[x]
         /\ \E q \in 1 .. Len(script[x]) : Entry(x, m).terms = <<x, q>>
<1>1. Key(JobAt(m)) \in DOMAIN result[x] BY DEF ResultInv
<1>2. MergedInv(Entry(x, m), x, Len(script[x]) + 1)
  BY <1>1 DEF ResultInv, Entry, PostedInv, EntryInv
<1>3. Len(script[x]) + 1 > 1 BY ScriptFacts DEF PhaseInv
<1> QED BY <1>1, <1>2, <1>3 DEF MergedInv

\* A step that makes no merge and posts nothing.
LEMMA ResultFrame ==
  ASSUME ResultInv, script' = script, result' = result,
         \A x \in Objs : Done(x)' = Done(x) /\ (Collapsed(x)' <=> Collapsed(x))
  PROVE  /\ ResultInv'
         /\ \A x \in Objs, m \in 1 .. NumJobs :
              Entry(x, m)' = Entry(x, m) /\ (LastWith(x, m)' <=> LastWith(x, m))
<1>1. \A x, m : Entry(x, m)' = Entry(x, m) BY DEF Entry
<1>2. \A x \in Objs, m \in 1 .. NumJobs : LastWith(x, m)' <=> LastWith(x, m)
  BY <1>1 DEF LastWith
<1>3. ASSUME NEW x \in Objs, NEW c PROVE PostedInv(x, c)' <=> PostedInv(x, c)
  <2>1. MergedInv(c, x, Len(script[x]) + 1)' <=> MergedInv(c, x, Len(script[x]) + 1)
    BY ScriptFrame
  <2>2. NamesFile(c, x)' <=> NamesFile(c, x) BY ScriptFrame
  <2>3. FilePaths(c)' = FilePaths(c) /\ ExcludePaths(c)' = ExcludePaths(c) BY ScriptFrame
  <2>4. \A t : FileConfigInv(c, x, t)' <=> FileConfigInv(c, x, t) BY ScriptFrame
  <2> QED BY <1>1, <1>2, <2>1, <2>2, <2>3, <2>4 DEF PostedInv
<1>4. \A c, x : EntryInv(c, x, Len(script[x]) + 1)' <=> EntryInv(c, x, Len(script[x]) + 1)
  BY ScriptFrame
<1>5. ResultInv' BY <1>3, <1>4 DEF ResultInv
<1> QED BY <1>1, <1>2, <1>5

\* A step that changes at most the kind and the required term of tables.
LEMMA TablesFrame ==
  ASSUME PhaseInv, ResultInv, TablesInv, script' = script,
         \A x \in Objs : Done(x)' = Done(x),
         \A x \in Objs, m \in 1 .. NumJobs : m <= Done(x) =>
           Entry(x, m)'.terms = Entry(x, m).terms,
         DOMAIN tab' = Objs,
         \A x \in Objs : /\ DOMAIN tab'[x] = 1 .. Len(script[x])
                         /\ \A n \in 1 .. Len(script[x]) :
                              /\ DOMAIN tab'[x][n] = TermKeys
                              /\ ScriptKind(tab'[x][n]["kind"])
                              /\ \A k \in {"word", "env", "config", "platform"} :
                                   tab'[x][n][k] = tab[x][n][k]
  PROVE  TablesInv'
<1>1. ASSUME NEW x \in Objs, NEW m \in 1 .. NumJobs, KeysDistinct, LastWith(x, m)',
             NEW k \in {"env", "config", "platform"}
      PROVE  tab'[Entry(x, m)'.terms[1]][Entry(x, m)'.terms[2]][k] = TermsOf(JobAt(m))[k]
  <2>1. m <= Done(x) /\ LastWith(x, m)
    <3>1. m <= Done(x) BY <1>1 DEF LastWith
    <3>2. ASSUME NEW n \in 1 .. NumJobs, m < n, n <= Done(x)
          PROVE  Entry(x, n).terms # Entry(x, m).terms
      BY <1>1, <3>1, <3>2 DEF LastWith
    <3> QED BY <3>1, <3>2 DEF LastWith
  <2>2. PICK q \in 1 .. Len(script[x]) : Entry(x, m).terms = <<x, q>>
    BY <2>1, EntryTerms
  <2>3. Entry(x, m)'.terms = <<x, q>> BY <2>1, <2>2
  <2>4. tab[x][q][k] = TermsOf(JobAt(m))[k]
    <3>1. tab[Entry(x, m).terms[1]][Entry(x, m).terms[2]][k] = TermsOf(JobAt(m))[k]
      BY <1>1, <2>1 DEF TablesInv, HoldsTerms
    <3> QED BY <2>2, <3>1
  <2>5. tab'[x][q][k] = TermsOf(JobAt(m))[k] BY <2>4
  <2> QED BY <2>3, <2>5
<1>2. \A x \in Objs : \A n \in 1 .. Len(script[x]) :
        /\ tab'[x][n]["word"] = script[x][n].word
        /\ ScriptKind(tab[x][n]["kind"])'
  BY DEF TablesInv, ScriptKind
<1>3. \A x \in Objs, m \in 1 .. NumJobs : KeysDistinct /\ LastWith(x, m)' => HoldsTerms(x, m)'
  BY <1>1 DEF HoldsTerms
<1> QED BY <1>2, <1>3 DEF TablesInv

\* A step that neither makes a merge nor writes to a table.
LEMMA TablesSame ==
  ASSUME TablesInv, script' = script, tab' = tab, result' = result,
         \A x \in Objs : Done(x)' = Done(x)
  PROVE  TablesInv'
<1>1. \A x, m : Entry(x, m)' = Entry(x, m) BY DEF Entry
<1>2. \A x \in Objs, m \in 1 .. NumJobs : LastWith(x, m)' <=> LastWith(x, m)
  BY <1>1 DEF LastWith
<1>3. \A k : ScriptKind(k)' <=> ScriptKind(k) BY ScriptFrame
<1>4. \A x \in Objs, m \in 1 .. NumJobs : KeysDistinct /\ LastWith(x, m)' => HoldsTerms(x, m)'
  <2>1. \A x, m : HoldsTerms(x, m)' <=> HoldsTerms(x, m) BY <1>1 DEF HoldsTerms
  <2> QED BY <1>2, <2>1 DEF TablesInv
<1>5. /\ DOMAIN tab' = Objs
      /\ \A x \in Objs :
           /\ DOMAIN tab'[x] = 1 .. Len(script'[x])
           /\ \A n \in 1 .. Len(script'[x]) :
                /\ DOMAIN tab'[x][n] = TermKeys
                /\ ScriptKind(tab[x][n]["kind"])'
                /\ tab'[x][n]["word"] = script'[x][n].word
  BY <1>3 DEF TablesInv
<1> QED BY <1>4, <1>5 DEF TablesInv

-----------------------------------------------------------------------------
(* The steps *)

LEMMA InitKeeps == Init => CollapseInv
<1> SUFFICES ASSUME Init PROVE CollapseInv OBVIOUS
<1>1. /\ script \in Scripts /\ pc = "merge" /\ o = 0 /\ j = 1
      /\ base = getactiveterms /\ terms = getactiveterms
      /\ result = [x \in Objs |-> << >>]
      /\ tab = [x \in Objs |-> [n \in 1 .. Len(script[x]) |->
                  [NoTerms EXCEPT !["word"] = script[x][n].word]]]
  BY DEF Init
<1>2. TermsInv(getactiveterms)
  BY DEF TermsInv, getactiveterms, NoTerms, TermKeys, ScriptKind
<1>3. PhaseInv
  <2>1. 0 \in Objs BY ScriptAssumption DEF Objs
  <2>2. 1 \in 1 .. NumJobs BY JobFacts
  <2> QED BY <1>1, <1>2, <2>1, <2>2 DEF PhaseInv
<1>4. CurrentInv BY <1>1 DEF CurrentInv
<1>5. ASSUME NEW x \in Objs PROVE Done(x) = 0
  <2>1. ~(x < 0) BY DEF Objs
  <2> QED BY <1>1, <2>1 DEF Done, Collapsed
<1>6. ResultInv
  <2>1. ASSUME NEW x \in Objs PROVE DOMAIN result[x] = {} BY <1>1
  <2>2. \A m \in 1 .. NumJobs : ~(m <= 0) OBVIOUS
  <2>3. DOMAIN result = Objs BY <1>1
  <2> QED BY <1>5, <2>1, <2>2, <2>3 DEF ResultInv
<1>7. TablesInv
  <2>1. ASSUME NEW x \in Objs, NEW m \in 1 .. NumJobs PROVE ~LastWith(x, m)
    BY <1>5 DEF LastWith
  <2>2. ASSUME NEW x \in Objs
        PROVE  /\ DOMAIN tab[x] = 1 .. Len(script[x])
               /\ \A n \in 1 .. Len(script[x]) :
                    /\ DOMAIN tab[x][n] = TermKeys
                    /\ ScriptKind(tab[x][n]["kind"])
                    /\ tab[x][n]["word"] = script[x][n].word
    BY <1>1 DEF NoTerms, TermKeys, ScriptKind
  <2>3. DOMAIN tab = Objs BY <1>1
  <2> QED BY <2>1, <2>2, <2>3 DEF TablesInv
<1> QED BY <1>3, <1>4, <1>6, <1>7 DEF CollapseInv

\* No merge is finished while the phase is the same or a merge begins.
LEMMA DoneFrame ==
  ASSUME o' = o, j' = j, pc' = pc \/ (pc = "merge" /\ pc' = "blocks")
  PROVE  \A x \in Objs : Done(x)' = Done(x) /\ (Collapsed(x)' <=> Collapsed(x))
<1>1. pc' \in {"post", "done"} <=> pc \in {"post", "done"} OBVIOUS
<1> QED BY <1>1 DEF Done, Collapsed

LEMMA StartMergeKeeps == ASSUME CollapseInv, StartMerge PROVE CollapseInv'
<1> DEFINE job == JobAt(j)
           t0 == IF j > 1 /\ job.platform = Native THEN base ELSE terms
           c0 == IF o > 0 /\ Key(job) \in DOMAIN result[0]
                   THEN FromBasis(result[0][Key(job)]) ELSE EmptyCfg
           t1 == [t0 EXCEPT !["config"] = job.config, !["platform"] = job.platform]
<1>1. /\ pc = "merge" /\ pc' = "blocks" /\ i' = 1
      /\ cfg' = [c0 EXCEPT !.job = job]
      /\ terms' = IF c0.kind # Nil THEN [t1 EXCEPT !["kind"] = c0.kind] ELSE t1
      /\ script' = script /\ tab' = tab /\ o' = o /\ j' = j /\ base' = base
      /\ result' = result
  BY DEF StartMerge
<1>2. PhaseInv /\ ResultInv /\ TablesInv /\ script \in Scripts /\ o \in Objs
  BY DEF CollapseInv, PhaseInv
<1>3. DOMAIN c0 = CfgFields /\ EntryInv(cfg', o, 1)
  <2>1. CASE o > 0 /\ Key(job) \in DOMAIN result[0]
    <3> DEFINE c == result[0][Key(job)]
    <3>1. 0 \in Objs BY ScriptAssumption DEF Objs
    <3>2. ~c.posted BY <1>2, <2>1, <3>1 DEF ResultInv, PostedInv
    <3>3. EntryInv(c, 0, Len(script[0]) + 1) BY <1>2, <2>1, <3>1, <3>2 DEF ResultInv
    <3>4. cfg' = [FromBasis(c) EXCEPT !.job = job] /\ c0 = FromBasis(c) BY <1>1, <2>1
    <3>5. DOMAIN c = CfgFields BY <3>3 DEF EntryInv, MergedInv
    <3>6. o # 0 BY <2>1
    <3> HIDE DEF c, c0
    <3>7. EntryInv(cfg', o, 1) BY <1>2, <3>3, <3>4, <3>6, BasisEntry
    <3>8. DOMAIN c0 = CfgFields BY <3>4, <3>5 DEF FromBasis
    <3> QED BY <3>7, <3>8
  <2>2. CASE ~(o > 0 /\ Key(job) \in DOMAIN result[0])
    <3>1. c0 = EmptyCfg /\ cfg' = [EmptyCfg EXCEPT !.job = job] BY <1>1, <2>2
    <3> HIDE DEF c0, job
    <3>2. EntryInv(cfg', o, 1) BY <1>2, <3>1, EmptyEntry
    <3> QED BY <3>1, <3>2 DEF EmptyCfg, CfgFields
  <2> QED BY <2>1, <2>2
<1> HIDE DEF c0
<1>4. ScriptKind(c0.kind)
  <2>1. cfg'.kind = c0.kind BY <1>1, <1>3 DEF CfgFields
  <2> QED BY <1>3, <2>1 DEF EntryInv
<1>5. TermsInv(t0) BY <1>2 DEF PhaseInv
<1> HIDE DEF t0, job
<1>6. /\ TermsInv(t1)
      /\ t1["config"] = job.config /\ t1["platform"] = job.platform
  BY <1>5 DEF TermsInv, TermKeys
<1> HIDE DEF t1
<1>7. /\ TermsInv(terms')
      /\ terms'["config"] = job.config /\ terms'["platform"] = job.platform
  BY <1>1, <1>4, <1>6 DEF TermsInv, TermKeys
<1>8. cfg'.job = job BY <1>1, <1>3 DEF CfgFields
<1>9. \A x \in Objs : Done(x)' = Done(x) /\ (Collapsed(x)' <=> Collapsed(x))
  BY <1>1, DoneFrame
<1>10. ResultInv' BY <1>1, <1>2, <1>9, ResultFrame
<1>11. TablesInv' BY <1>1, <1>2, <1>9, TablesSame
<1>12. PhaseInv'
  <2>1. TermsInv(base)' /\ TermsInv(terms)'
    <3>1. TermsInv(base) BY <1>2 DEF PhaseInv
    <3> QED BY <1>1, <1>7, <3>1 DEF TermsInv, ScriptKind
  <2> QED BY <1>1, <1>2, <2>1 DEF PhaseInv
<1>13. CurrentInv'
  <2>1. 1 \in 1 .. Len(script[o]) + 1 BY <1>2, ScriptFacts
  <2>2. EntryInv(cfg, o, i)' BY <1>1, <1>3, ScriptFrame
  <2> QED BY <1>1, <1>7, <1>8, <2>1, <2>2 DEF CurrentInv, job
<1> QED BY <1>10, <1>11, <1>12, <1>13 DEF CollapseInv

\* What a block is matched against are the terms of the merge, but for the kind.
LEMMA CurrentTerms ==
  ASSUME PhaseInv, CurrentInv, pc = "blocks", NEW n \in 1 .. Len(script[o]),
         KindFree(script[o][n].keywords)
  PROVE  AllKeywords(script[o][n].keywords, terms)
           <=> AllKeywords(script[o][n].keywords, TermsOf(cfg.job))
<1> DEFINE t == TermsOf(cfg.job)
<1>1. script[o][n].keywords \in Seq(Keyword)
  BY ScriptFacts DEF PhaseInv, Block
<1>2. /\ TermsInv(terms) /\ cfg.job = JobAt(j)
      /\ terms["config"] = JobAt(j).config /\ terms["platform"] = JobAt(j).platform
  BY DEF PhaseInv, CurrentInv
<1>3. /\ t["env"] = Env /\ t["word"] = Nil /\ t["required"] = Nil /\ t["kind"] = Nil
      /\ t["config"] = cfg.job.config /\ t["platform"] = cfg.job.platform
  BY DEF TermsOf, getactiveterms, NoTerms, TermKeys
<1> HIDE DEF t
<1>4. \A k \in TermKeys \ {"kind"} : terms[k] = t[k]
  BY <1>2, <1>3 DEF TermsInv, TermKeys
<1>5. ScriptKind(terms["kind"]) /\ ScriptKind(t["kind"])
  BY <1>2, <1>3 DEF TermsInv, ScriptKind
<1>6. AllKeywords(script[o][n].keywords, terms) <=> AllKeywords(script[o][n].keywords, t)
  BY <1>1, <1>4, <1>5, KindInsensitive
<1> QED BY <1>6 DEF t

LEMMA MergeBlockKeeps == ASSUME CollapseInv, MergeBlock PROVE CollapseInv'
<1> DEFINE b == script[o][i]
           c == mergeobject(cfg, b, <<o, i>>)
<1>1. /\ pc = "blocks" /\ i <= Len(script[o])
      /\ AllKeywords(b.keywords, terms)
      /\ cfg' = c /\ i' = i + 1
      /\ script' = script /\ pc' = pc /\ o' = o /\ j' = j /\ base' = base /\ result' = result
  BY DEF MergeBlock
<1>2. \/ /\ tab' = [tab EXCEPT ![o][i]["kind"] = c.kind]
         /\ terms' = [terms EXCEPT !["kind"] = c.kind]
      \/ tab' = tab /\ terms' = terms
  BY DEF MergeBlock
<1>3. /\ PhaseInv /\ CurrentInv /\ ResultInv /\ TablesInv
      /\ script \in Scripts /\ o \in Objs
  BY DEF CollapseInv, PhaseInv
<1>4. i \in 1 .. Len(script[o]) /\ EntryInv(cfg, o, i) /\ cfg.job = JobAt(j)
  BY <1>1, <1>3, ScriptFacts DEF CurrentInv
<1>5. KindFree(b.keywords) => AllKeywords(b.keywords, TermsOf(cfg.job))
  BY <1>1, <1>3, <1>4, CurrentTerms
<1>6. EntryInv(c, o, i + 1) BY <1>3, <1>4, <1>5, MergeKeepsEntry
<1>7. c.job = cfg.job
  <2>1. DOMAIN cfg = CfgFields BY <1>4 DEF EntryInv, MergedInv
  <2> HIDE DEF b
  <2> QED BY <2>1, MergeObjectFields
<1> HIDE DEF c, b
<1>8. ScriptKind(c.kind) BY <1>6 DEF EntryInv
<1>9. TermsInv(terms) /\ TermsInv(base) BY <1>3 DEF PhaseInv
<1>10. /\ TermsInv(terms')
       /\ terms'["config"] = terms["config"] /\ terms'["platform"] = terms["platform"]
  <2>1. CASE terms' = terms BY <1>9, <2>1
  <2>2. CASE terms' = [terms EXCEPT !["kind"] = c.kind]
    BY <1>8, <1>9, <2>2 DEF TermsInv, TermKeys
  <2> QED BY <1>2, <2>1, <2>2
<1>11. \A x \in Objs : Done(x)' = Done(x) /\ (Collapsed(x)' <=> Collapsed(x))
  BY <1>1, DoneFrame
<1>12. ResultInv' BY <1>1, <1>3, <1>11, ResultFrame
<1>13. TablesInv'
  <2>1. /\ DOMAIN tab' = Objs
        /\ \A x \in Objs :
             /\ DOMAIN tab'[x] = 1 .. Len(script[x])
             /\ \A n \in 1 .. Len(script[x]) :
                  /\ DOMAIN tab'[x][n] = TermKeys
                  /\ ScriptKind(tab'[x][n]["kind"])
                  /\ \A k \in {"word", "env", "config", "platform"} :
                       tab'[x][n][k] = tab[x][n][k]
    <3>1. /\ DOMAIN tab = Objs
          /\ \A x \in Objs :
               /\ DOMAIN tab[x] = 1 .. Len(script[x])
               /\ \A n \in 1 .. Len(script[x]) :
                    /\ DOMAIN tab[x][n] = TermKeys
                    /\ ScriptKind(tab[x][n]["kind"])
      BY <1>3 DEF TablesInv
    <3>2. CASE tab' = tab BY <3>1, <3>2
    <3>3. CASE tab' = [tab EXCEPT ![o][i]["kind"] = c.kind]
      <4>1. DOMAIN tab' = Objs BY <3>1, <3>3
      <4>2. ASSUME NEW x \in Objs PROVE DOMAIN tab'[x] = 1 .. Len(script[x])
        BY <1>3, <3>1, <3>3
      <4>3. ASSUME NEW x \in Objs, NEW n \in 1 .. Len(script[x])
            PROVE  /\ DOMAIN tab'[x][n] = TermKeys
                   /\ ScriptKind(tab'[x][n]["kind"])
                   /\ \A k \in {"word", "env", "config", "platform"} :
                        tab'[x][n][k] = tab[x][n][k]
        <5>1. CASE x = o /\ n = i
          <6>1. tab'[x][n] = [tab[x][n] EXCEPT !["kind"] = c.kind]
            BY <1>3, <1>4, <3>1, <3>3, <5>1
          <6> QED BY <1>8, <3>1, <6>1 DEF TermKeys
        <5>2. CASE ~(x = o /\ n = i)
          <6>1. tab'[x][n] = tab[x][n] BY <1>3, <1>4, <3>1, <3>3, <5>2
          <6> QED BY <3>1, <6>1
        <5> QED BY <5>1, <5>2
      <4> QED BY <4>1, <4>2, <4>3
    <3> QED BY <1>2, <3>2, <3>3
  <2>2. \A x \in Objs, m \in 1 .. NumJobs : Entry(x, m)'.terms = Entry(x, m).terms
    BY <1>1 DEF Entry
  <2> QED BY <1>1, <1>3, <1>11, <2>1, <2>2, TablesFrame
<1>14. PhaseInv'
  <2>1. TermsInv(base)' /\ TermsInv(terms)' BY <1>1, <1>9, <1>10 DEF TermsInv, ScriptKind
  <2> QED BY <1>1, <1>3, <2>1 DEF PhaseInv
<1>15. CurrentInv'
  <2>1. i + 1 \in 1 .. Len(script[o]) + 1 BY <1>3, <1>4, ScriptFacts
  <2>2. EntryInv(cfg, o, i)' BY <1>1, <1>6, ScriptFrame
  <2> QED BY <1>1, <1>3, <1>4, <1>7, <1>10, <2>1, <2>2 DEF CurrentInv
<1> QED BY <1>12, <1>13, <1>14, <1>15 DEF CollapseInv

LEMMA SkipBlockKeeps == ASSUME CollapseInv, SkipBlock PROVE CollapseInv'
<1>1. /\ pc = "blocks" /\ i <= Len(script[o])
      /\ ~AllKeywords(script[o][i].keywords, terms)
      /\ i' = i + 1 /\ script' = script /\ tab' = tab /\ pc' = pc /\ o' = o /\ j' = j
      /\ base' = base /\ terms' = terms /\ cfg' = cfg /\ result' = result
  BY DEF SkipBlock
<1>2. /\ PhaseInv /\ CurrentInv /\ ResultInv /\ TablesInv
      /\ script \in Scripts /\ o \in Objs
  BY DEF CollapseInv, PhaseInv
<1>3. i \in 1 .. Len(script[o]) /\ EntryInv(cfg, o, i)
  BY <1>1, <1>2, ScriptFacts DEF CurrentInv
<1>4. i # 1
  <2> SUFFICES ASSUME i = 1 PROVE FALSE OBVIOUS
  <2>1. script[o][i].keywords = << >> BY <1>2, ScriptFacts
  <2> QED BY <1>1, <2>1 DEF AllKeywords
<1>5. KindFree(script[o][i].keywords)
        => ~AllKeywords(script[o][i].keywords, TermsOf(cfg.job))
  BY <1>1, <1>2, <1>3, CurrentTerms
<1>6. EntryInv(cfg, o, i + 1) BY <1>2, <1>3, <1>4, <1>5, SkipKeepsEntry
<1>7. \A x \in Objs : Done(x)' = Done(x) /\ (Collapsed(x)' <=> Collapsed(x))
  BY <1>1, DoneFrame
<1>8. ResultInv' BY <1>1, <1>2, <1>7, ResultFrame
<1>9. TablesInv' BY <1>1, <1>2, <1>7, TablesSame
<1>10. PhaseInv' BY <1>1, <1>2 DEF PhaseInv, TermsInv, ScriptKind
<1>11. CurrentInv'
  <2>1. i + 1 \in 1 .. Len(script[o]) + 1 BY <1>2, <1>3, ScriptFacts
  <2>2. EntryInv(cfg, o, i)' BY <1>1, <1>6, ScriptFrame
  <2> QED BY <1>1, <1>2, <2>1, <2>2 DEF CurrentInv
<1> QED BY <1>8, <1>9, <1>10, <1>11 DEF CollapseInv

\* Where NextJob goes: one merge more is finished, and nothing else.
LEMMA NextJobMeaning ==
  ASSUME PhaseInv, pc = "blocks", NextJob
  PROVE  /\ o' \in Objs /\ j' \in 1 .. NumJobs /\ pc' \in {"merge", "post", "done"}
         /\ pc' = "post" => o' # 0
         /\ pc' = "done" => o' = NumProjects
         /\ Done(o) = j - 1 /\ ~Collapsed(o)
         /\ \A x \in Objs : x = o => Done(x)' = j
         /\ \A x \in Objs : x # o => /\ Done(x)' = Done(x)
                                     /\ Collapsed(x)' <=> Collapsed(x)
<1>1. /\ o \in Objs /\ j \in 1 .. NumJobs /\ NumJobs \in Nat \ {0} /\ NumProjects \in Nat
      /\ \A x \in Objs : x \in Nat /\ x <= NumProjects
  BY JobFacts, ScriptAssumption DEF PhaseInv, Objs
<1>2. Done(o) = j - 1 /\ ~Collapsed(o) BY <1>1 DEF Done, Collapsed
<1>3. CASE j < NumJobs
  <2>1. pc' = "merge" /\ j' = j + 1 /\ o' = o BY <1>3 DEF NextJob
  <2>2. \A x \in Objs : (Collapsed(x)' <=> x < o) /\ (Collapsed(x) <=> x < o)
    BY <2>1 DEF Collapsed
  <2>3. \A x \in Objs : Done(x)' = IF x < o THEN NumJobs ELSE IF x = o THEN j ELSE 0
    BY <1>1, <2>1, <2>2 DEF Done
  <2>4. \A x \in Objs : Done(x) = IF x < o THEN NumJobs ELSE IF x = o THEN j - 1 ELSE 0
    BY <2>2 DEF Done
  <2> HIDE DEF Done
  <2>5. \A x \in Objs : x = o => Done(x)' = j BY <1>1, <2>3
  <2>6. \A x \in Objs : x # o => Done(x)' = Done(x) BY <2>3, <2>4
  <2> QED BY <1>1, <1>2, <1>3, <2>1, <2>2, <2>5, <2>6
<1>4. CASE j = NumJobs
  <2>1. ~(j < NumJobs) BY <1>1, <1>4
  <2>2. CASE o = 0 /\ NumProjects = 0
    <3>1. pc' = "done" /\ j' = 1 /\ o' = 0 BY <2>1, <2>2 DEF NextJob
    <3>2. \A x \in Objs : x = o BY <1>1, <2>2
    <3>3. \A x \in Objs : Done(x)' = j
      <4>1. \A x \in Objs : Collapsed(x)' BY <2>2, <3>1, <3>2 DEF Collapsed
      <4> QED BY <1>4, <4>1 DEF Done
    <3>4. 1 \in 1 .. NumJobs BY <1>1
    <3> QED BY <1>1, <1>2, <2>2, <3>1, <3>2, <3>3, <3>4
  <2>3. CASE o = 0 /\ NumProjects # 0
    <3>1. pc' = "merge" /\ j' = 1 /\ o' = 1 BY <2>1, <2>3 DEF NextJob
    <3>2. ASSUME NEW x \in Objs, x = o PROVE Done(x)' = j
      <4>1. Collapsed(x)' BY <2>3, <3>1, <3>2 DEF Collapsed
      <4> QED BY <1>4, <4>1 DEF Done
    <3>3. ASSUME NEW x \in Objs, x # o
          PROVE  Done(x)' = Done(x) /\ (Collapsed(x)' <=> Collapsed(x))
      <4>1. ~(x < 1) /\ ~(x < 0) /\ x # 0 BY <1>1, <2>3, <3>3
      <4>2. ~Collapsed(x)' /\ ~Collapsed(x) BY <2>3, <3>1, <4>1 DEF Collapsed
      <4>3. Done(x) = 0 BY <2>3, <4>1, <4>2 DEF Done
      <4>4. Done(x)' = 0 BY <3>1, <4>2 DEF Done
      <4> QED BY <4>2, <4>3, <4>4
    <3>4. 1 \in 1 .. NumJobs /\ 1 \in Objs BY <1>1, <2>3 DEF Objs
    <3> QED BY <1>1, <1>2, <3>1, <3>2, <3>3, <3>4
  <2>4. CASE o # 0
    <3>1. pc' = "post" /\ j' = j /\ o' = o BY <2>1, <2>4 DEF NextJob
    <3>2. ASSUME NEW x \in Objs, x = o PROVE Done(x)' = j
      <4>1. Collapsed(x)' BY <3>1, <3>2 DEF Collapsed
      <4> QED BY <1>4, <4>1 DEF Done
    <3>3. ASSUME NEW x \in Objs, x # o
          PROVE  Done(x)' = Done(x) /\ (Collapsed(x)' <=> Collapsed(x))
      <4>1. Collapsed(x)' <=> Collapsed(x) BY <3>1, <3>3 DEF Collapsed
      <4> QED BY <3>1, <3>3, <4>1 DEF Done
    <3> QED BY <1>1, <1>2, <2>4, <3>1, <3>2, <3>3
  <2> QED BY <2>2, <2>3, <2>4
<1> QED BY <1>1, <1>3, <1>4

\* A posted configuration stays as it is while the merges of its object do.
LEMMA PostedFrame ==
  ASSUME script' = script, NEW x \in Objs,
         Collapsed(x)' <=> Collapsed(x),
         \A m \in 1 .. NumJobs :
           LastWith(x, m)' => LastWith(x, m) /\ Entry(x, m)'.terms = Entry(x, m).terms,
         NEW c, PostedInv(x, c)
  PROVE  PostedInv(x, c)'
<1>1. MergedInv(c, x, Len(script[x]) + 1)' <=> MergedInv(c, x, Len(script[x]) + 1)
  BY ScriptFrame
<1>2. NamesFile(c, x)' <=> NamesFile(c, x) BY ScriptFrame
<1>3. FilePaths(c)' = FilePaths(c) /\ ExcludePaths(c)' = ExcludePaths(c) BY ScriptFrame
<1>4. \A t : FileConfigInv(c, x, t)' <=> FileConfigInv(c, x, t) BY ScriptFrame
<1> QED BY <1>1, <1>2, <1>3, <1>4 DEF PostedInv

LEMMA FinishMergeKeeps == ASSUME CollapseInv, FinishMerge PROVE CollapseInv'
<1> DEFINE key == Key(cfg.job)
           r == TermsTable(cfg)
<1>1. /\ pc = "blocks" /\ i > Len(script[o])
      /\ tab' = [tab EXCEPT ![r[1]][r[2]] = CopyTerms(tab[r[1]][r[2]], terms)]
      /\ result' = [result EXCEPT ![o] =
                      [k \in DOMAIN result[o] \cup {key} |->
                         IF k = key THEN cfg ELSE result[o][k]]]
      /\ NextJob
      /\ base' = (IF j = NumJobs THEN getactiveterms ELSE IF j = 1 THEN terms ELSE base)
      /\ terms' = (IF j = NumJobs THEN getactiveterms ELSE terms)
      /\ script' = script /\ i' = i /\ cfg' = cfg
  BY DEF FinishMerge
<1>2. /\ PhaseInv /\ CurrentInv /\ ResultInv /\ TablesInv
      /\ script \in Scripts /\ o \in Objs /\ j \in 1 .. NumJobs
      /\ TermsInv(terms) /\ TermsInv(base) /\ NumJobs \in Nat
  BY JobFacts DEF CollapseInv, PhaseInv
<1>3. EntryInv(cfg, o, Len(script[o]) + 1) /\ cfg.job = JobAt(j)
  <2>1. i = Len(script[o]) + 1
    <3>1. i \in 1 .. Len(script[o]) + 1 BY <1>1, <1>2 DEF CurrentInv
    <3> QED BY <1>1, <1>2, <3>1, ScriptFacts
  <2> QED BY <1>1, <1>2, <2>1 DEF CurrentInv
<1>4. PICK q \in 1 .. Len(script[o]) : cfg.terms = <<o, q>>
  <2>1. Len(script[o]) + 1 > 1 BY <1>2, ScriptFacts
  <2> QED BY <1>3, <2>1 DEF EntryInv, MergedInv
<1>5. r[1] = o /\ r[2] = q BY <1>4 DEF TermsTable
<1>6. ~cfg.posted BY <1>3 DEF EntryInv
<1> HIDE DEF r
<1>7. /\ o' \in Objs /\ j' \in 1 .. NumJobs /\ pc' \in {"merge", "post", "done"}
      /\ pc' = "post" => o' # 0
      /\ pc' = "done" => o' = NumProjects
      /\ Done(o) = j - 1 /\ ~Collapsed(o)
      /\ \A x \in Objs : x = o => Done(x)' = j
      /\ \A x \in Objs : x # o => Done(x)' = Done(x) /\ (Collapsed(x)' <=> Collapsed(x))
  BY <1>1, <1>2, NextJobMeaning
<1>8. /\ DOMAIN result' = Objs
      /\ \A x \in Objs : x # o => result'[x] = result[x]
      /\ DOMAIN result'[o] = DOMAIN result[o] \cup {key}
      /\ result'[o][key] = cfg
      /\ \A k \in DOMAIN result[o] : k # key => result'[o][k] = result[o][k]
  <2>1. DOMAIN result = Objs BY <1>2 DEF ResultInv
  <2> HIDE DEF key
  <2>2. result'[o] = [k \in DOMAIN result[o] \cup {key} |->
                        IF k = key THEN cfg ELSE result[o][k]]
    BY <1>1, <1>2, <2>1
  <2> QED BY <1>1, <1>2, <2>1, <2>2
<1> HIDE DEF key
<1>9. PhaseInv'
  <2>1. TermsInv(getactiveterms)
    BY DEF TermsInv, getactiveterms, NoTerms, TermKeys, ScriptKind
  <2>2. TermsInv(base') /\ TermsInv(terms') BY <1>1, <1>2, <2>1
  <2>3. TermsInv(base)' /\ TermsInv(terms)' BY <1>1, <2>2 DEF TermsInv, ScriptKind
  <2> QED BY <1>1, <1>2, <1>7, <2>3 DEF PhaseInv
<1>10. CurrentInv' BY <1>7 DEF CurrentInv
<1>11. ASSUME NEW x \in Objs, x # o
       PROVE  \A m \in 1 .. NumJobs : /\ Entry(x, m)' = Entry(x, m)
                                      /\ LastWith(x, m)' <=> LastWith(x, m)
  <2>1. \A m : Entry(x, m)' = Entry(x, m) BY <1>8, <1>11 DEF Entry
  <2>2. Done(x)' = Done(x) BY <1>7, <1>11
  <2> QED BY <2>1, <2>2 DEF LastWith
<1>12. \A x \in Objs : \A c : EntryInv(c, x, Len(script[x]) + 1)' <=> EntryInv(c, x, Len(script[x]) + 1)
  BY <1>1, ScriptFrame
<1>13. \A x \in Objs : x # o => \A c : PostedInv(x, c) => PostedInv(x, c)'
  BY <1>1, <1>7, <1>11, PostedFrame
<1>14. ResultInv'
  <2>1. ASSUME NEW x \in Objs
        PROVE  /\ \A m \in 1 .. NumJobs : m <= Done(x)' => Key(JobAt(m)) \in DOMAIN result'[x]
               /\ \A k \in DOMAIN result'[x] :
                    LET c == result'[x][k] IN
                    /\ \E m \in 1 .. NumJobs : m <= Done(x)' /\ c.job = JobAt(m)
                    /\ k = Key(c.job)
                    /\ IF c.posted THEN PostedInv(x, result[x][k])'
                                   ELSE EntryInv(result[x][k], x, Len(script[x]) + 1)'
    <3>1. /\ \A m \in 1 .. NumJobs : m <= Done(x) => Key(JobAt(m)) \in DOMAIN result[x]
          /\ \A k \in DOMAIN result[x] :
               LET c == result[x][k] IN
               /\ \E m \in 1 .. NumJobs : m <= Done(x) /\ c.job = JobAt(m)
               /\ k = Key(c.job)
               /\ IF c.posted THEN PostedInv(x, c) ELSE EntryInv(c, x, Len(script[x]) + 1)
      BY <1>2 DEF ResultInv
    <3>2. CASE x # o
      <4>1. result'[x] = result[x] /\ Done(x)' = Done(x) BY <1>7, <1>8, <3>2
      <4> QED BY <1>12, <1>13, <3>1, <3>2, <4>1
    <3>3. CASE x = o
      <4>1. Done(x)' = j /\ Done(x) = j - 1 BY <1>7, <3>3
      <4>2. \A m \in 1 .. NumJobs : m <= j <=> (m <= j - 1 \/ m = j) BY <1>2
      <4>3. key = Key(JobAt(j)) BY <1>3 DEF key
      <4>4. \A m \in 1 .. NumJobs : m <= Done(x)' => Key(JobAt(m)) \in DOMAIN result'[x]
        BY <1>8, <3>1, <3>3, <4>1, <4>2, <4>3
      <4>5. ASSUME NEW k \in DOMAIN result'[x]
            PROVE  LET c == result'[x][k] IN
                    /\ \E m \in 1 .. NumJobs : m <= Done(x)' /\ c.job = JobAt(m)
                    /\ k = Key(c.job)
                    /\ ~c.posted /\ EntryInv(c, x, Len(script[x]) + 1)
        <5>1. CASE k = key
          <6>1. result'[x][k] = cfg BY <1>8, <3>3, <5>1
          <6>2. j <= Done(x)' BY <1>2, <4>1
          <6> QED BY <1>2, <1>3, <1>6, <3>3, <5>1, <6>1, <6>2 DEF key
        <5>2. CASE k # key
          <6>1. result'[x][k] = result[x][k] /\ k \in DOMAIN result[x]
            BY <1>8, <3>3, <4>5, <5>2
          <6>2. ~PostedInv(x, result[x][k]) BY <1>7, <3>3 DEF PostedInv
          <6>3. ~result[x][k].posted /\ EntryInv(result[x][k], x, Len(script[x]) + 1)
            BY <3>1, <6>1, <6>2
          <6>4. PICK m \in 1 .. NumJobs : m <= Done(x) /\ result[x][k].job = JobAt(m)
            BY <3>1, <6>1
          <6>5. m <= Done(x)' BY <4>1, <4>2, <6>4
          <6>6. k = Key(result[x][k].job) BY <3>1, <6>1
          <6> QED BY <6>1, <6>3, <6>4, <6>5, <6>6
        <5> QED BY <5>1, <5>2
      <4> QED BY <1>12, <4>4, <4>5
    <3> QED BY <3>2, <3>3
  <2> QED BY <1>8, <2>1 DEF ResultInv
<1>15. /\ DOMAIN tab = Objs /\ \A x \in Objs : DOMAIN tab[x] = 1 .. Len(script[x])
       /\ tab' = [tab EXCEPT ![o][q] = CopyTerms(tab[o][q], terms)]
  BY <1>1, <1>2, <1>5 DEF TablesInv
<1>16. /\ DOMAIN tab' = Objs /\ \A x \in Objs : DOMAIN tab'[x] = 1 .. Len(script[x])
       /\ tab'[o][q] = CopyTerms(tab[o][q], terms)
       /\ \A x \in Objs, n \in Nat : x # o \/ n # q => tab'[x][n] = tab[x][n]
  BY <1>2, <1>4, <1>15
<1>17. tab'[o][q] = [k \in TermKeys |-> IF terms[k] # Nil THEN terms[k] ELSE tab[o][q][k]]
  BY <1>16 DEF CopyTerms
<1>18. ASSUME NEW x \in Objs, NEW n \in 1 .. Len(script[x])
       PROVE  /\ DOMAIN tab'[x][n] = TermKeys
              /\ ScriptKind(tab'[x][n]["kind"])
              /\ tab'[x][n]["word"] = script[x][n].word
  <2>1. /\ DOMAIN tab[x][n] = TermKeys
        /\ ScriptKind(tab[x][n]["kind"])
        /\ tab[x][n]["word"] = script[x][n].word
    BY <1>2 DEF TablesInv
  <2>2. CASE x = o /\ n = q BY <1>2, <1>17, <2>1, <2>2 DEF TermsInv, TermKeys
  <2>3. CASE ~(x = o /\ n = q)
    <3>1. tab'[x][n] = tab[x][n] BY <1>16, <2>3
    <3> QED BY <2>1, <3>1
  <2> QED BY <2>2, <2>3
<1>19. ASSUME NEW x \in Objs, NEW m \in 1 .. NumJobs, KeysDistinct, LastWith(x, m)',
              NEW k \in {"env", "config", "platform"}
       PROVE  tab'[Entry(x, m)'.terms[1]][Entry(x, m)'.terms[2]][k] = TermsOf(JobAt(m))[k]
  <2>1. CASE x # o
    <3>1. LastWith(x, m) /\ Entry(x, m)' = Entry(x, m) BY <1>11, <1>19, <2>1
    <3>2. PICK n \in 1 .. Len(script[x]) : Entry(x, m).terms = <<x, n>>
      BY <1>2, <3>1, EntryTerms DEF LastWith
    <3>3. tab[x][n][k] = TermsOf(JobAt(m))[k]
      <4>1. tab[Entry(x, m).terms[1]][Entry(x, m).terms[2]][k] = TermsOf(JobAt(m))[k]
        BY <1>2, <1>19, <3>1 DEF TablesInv, HoldsTerms
      <4> QED BY <3>2, <4>1
    <3>4. tab'[x][n] = tab[x][n] BY <1>16, <2>1
    <3> QED BY <3>1, <3>2, <3>3, <3>4
  <2>2. CASE x = o /\ m = j
    <3>1. Entry(x, m)' = cfg BY <1>3, <1>8, <2>2 DEF Entry, key
    <3>2. Entry(x, m)'.terms[1] = o /\ Entry(x, m)'.terms[2] = q BY <1>4, <3>1
    <3>3. /\ terms["env"] = Env
          /\ terms["config"] = JobAt(j).config /\ terms["platform"] = JobAt(j).platform
      BY <1>1, <1>2 DEF TermsInv, CurrentInv
    <3>4. JobAt(j).config # Nil /\ JobAt(j).platform # Nil /\ Env # Nil
      BY <1>2, JobFacts, NilNotValue, ScriptAssumption
    <3>5. TermsOf(JobAt(j))["env"] = Env /\ TermsOf(JobAt(j))["config"] = JobAt(j).config
          /\ TermsOf(JobAt(j))["platform"] = JobAt(j).platform
      BY DEF TermsOf, getactiveterms, NoTerms, TermKeys
    <3>6. k \in TermKeys /\ terms[k] = TermsOf(JobAt(j))[k] /\ terms[k] # Nil
      BY <1>19, <3>3, <3>4, <3>5 DEF TermKeys
    <3>7. tab'[o][q][k] = terms[k] BY <1>17, <3>6
    <3> QED BY <2>2, <3>2, <3>6, <3>7
  <2>3. CASE x = o /\ m # j
    <3>1. m <= Done(x)' /\ Done(x)' = j BY <1>7, <1>19, <2>3 DEF LastWith
    <3>2. m < j /\ m <= Done(x) BY <1>2, <1>7, <2>3, <3>1
    <3>3. Key(JobAt(m)) # key BY <1>2, <1>3, <1>19, <2>3 DEF KeysDistinct, key
    <3>4. ASSUME NEW n \in 1 .. NumJobs, n <= Done(x) PROVE Entry(x, n)' = Entry(x, n)
      <4>1. n <= j - 1 BY <1>7, <2>3, <3>4
      <4>2. n # j BY <1>2, <4>1
      <4>3. Key(JobAt(n)) # key BY <1>2, <1>3, <1>19, <4>2 DEF KeysDistinct, key
      <4>4. Key(JobAt(n)) \in DOMAIN result[x] BY <1>2, <3>4 DEF ResultInv
      <4> QED BY <1>8, <2>3, <4>3, <4>4 DEF Entry
    <3>5. Entry(x, m)' = Entry(x, m) BY <3>2, <3>4
    <3>6. Entry(x, m).terms # <<o, q>>
      <4>1. PICK last \in 1 .. NumJobs : last = j BY <1>2
      <4>2. Entry(x, last)' = cfg BY <1>3, <1>8, <2>3, <4>1 DEF Entry, key
      <4>3. Entry(x, last)'.terms # Entry(x, m)'.terms
        BY <1>2, <1>19, <3>1, <3>2, <4>1 DEF LastWith
      <4> QED BY <1>4, <3>5, <4>2, <4>3
    <3>7. LastWith(x, m)
      <4>1. ASSUME NEW n \in 1 .. NumJobs, m < n, n <= Done(x)
            PROVE  Entry(x, n).terms # Entry(x, m).terms
        <5>1. n <= Done(x)' BY <1>2, <1>7, <2>3, <3>1, <4>1
        <5>2. Entry(x, n)'.terms # Entry(x, m)'.terms BY <1>19, <4>1, <5>1 DEF LastWith
        <5> QED BY <3>4, <3>5, <4>1, <5>2
      <4> QED BY <3>2, <4>1 DEF LastWith
    <3>8. PICK n \in 1 .. Len(script[x]) : Entry(x, m).terms = <<x, n>>
      BY <1>2, <3>2, EntryTerms
    <3>9. tab[x][n][k] = TermsOf(JobAt(m))[k]
      <4>1. tab[Entry(x, m).terms[1]][Entry(x, m).terms[2]][k] = TermsOf(JobAt(m))[k]
        BY <1>2, <1>19, <3>7 DEF TablesInv, HoldsTerms
      <4> QED BY <3>8, <4>1
    <3>10. n # q BY <2>3, <3>6, <3>8
    <3>11. tab'[x][n] = tab[x][n] BY <1>16, <3>10
    <3> QED BY <3>5, <3>8, <3>9, <3>11
  <2> QED BY <2>1, <2>2, <2>3
<1>20. TablesInv'
  <2>1. \A x \in Objs : \A n \in 1 .. Len(script[x]) : ScriptKind(tab[x][n]["kind"])'
    BY <1>1, <1>18 DEF ScriptKind
  <2>2. \A x \in Objs, m \in 1 .. NumJobs : KeysDistinct /\ LastWith(x, m)' => HoldsTerms(x, m)'
    BY <1>19 DEF HoldsTerms
  <2> QED BY <1>1, <1>16, <1>18, <2>1, <2>2 DEF TablesInv
<1> QED BY <1>9, <1>10, <1>14, <1>20 DEF CollapseInv

-----------------------------------------------------------------------------
(* Post-processing *)

\* Without a second spelling, removing paths removes their names.
LEMMA NamesOfDifference ==
  ASSUME NEW A \in SUBSET Path, NEW B \in SUBSET Path, \A p \in A \cup B : ~p.abs
  PROVE  Names(A \ B) = Names(A) \ Names(B)
<1>1. ASSUME NEW p \in A, NEW r \in B, p.item = r.item PROVE p = r
  BY <1>1 DEF Path
<1> QED BY <1>1 DEF Names

\* A block that must match may match.
LEMMA MustIsMay ==
  ASSUME NEW kws, NEW t, MustMatch(kws, t)
  PROVE  MayMatch(kws, t)
BY DEF MustMatch, MayMatch

\* A block that may become part of a file's configuration names the file.
LEMMA MayNamesFile ==
  ASSUME NEW kws, NEW t, t["required"] # Nil, MayMatch(kws, t)
  PROVE  \E m \in 1 .. Len(kws) :
           ~kws[m].neg /\ \E a \in 1 .. Len(kws[m].alts) : t["required"] \in kws[m].alts[a]
<1>1. PICK m \in 1 .. Len(kws) : ~kws[m].neg /\ "required" \in MatchKeys(kws[m], t)
  BY DEF MayMatch
<1>2. PICK a \in 1 .. Len(kws[m].alts) : "required" \in Hits(kws[m].alts[a], t)
  BY <1>1 DEF MatchKeys
<1>3. t["required"] \in kws[m].alts[a] BY <1>2 DEF Hits
<1> QED BY <1>1, <1>3

\* The blocks of a file's configuration, given the table they are matched with.
LEMMA FileBlocksMeaning ==
  ASSUME NEW f, NEW table, NEW blocks \in FileBlocks(f, table)
  PROVE  LET t == [table EXCEPT !["required"] = <<f.item>>] IN
         \A n \in 1 .. Len(script[o]) :
           /\ MustMatch(script[o][n].keywords, t) => n \in blocks
           /\ n \in blocks => MayMatch(script[o][n].keywords, t)
<1> DEFINE t == [table EXCEPT !["required"] = <<f.item>>]
           may == {n \in 1 .. Len(script[o]) : MayMatch(script[o][n].keywords, t)}
           must == {n \in 1 .. Len(script[o]) : MustMatch(script[o][n].keywords, t)}
<1>1. PICK extra \in SUBSET (may \ must) : blocks = must \cup extra BY DEF FileBlocks
<1>2. must \subseteq may BY MustIsMay
<1> HIDE DEF t
<1>3. \A n \in 1 .. Len(script[o]) :
        /\ MustMatch(script[o][n].keywords, t) => n \in blocks
        /\ n \in blocks => MayMatch(script[o][n].keywords, t)
  BY <1>1, <1>2
<1> QED BY <1>3 DEF t

LEMMA BlocksInScript ==
  ASSUME NEW f, NEW table, NEW blocks \in FileBlocks(f, table)
  PROVE  blocks \subseteq 1 .. Len(script[o])
BY DEF FileBlocks

\* What is said of the links depends on the links and on what was merged.
LEMMA LinksFrame ==
  ASSUME NEW c, LinksInv(c), NEW d, d.links = c.links, d.merged = c.merged
  PROVE  LinksInv(d)
<1>1. \A y : Sources(d, y) = Sources(c, y) BY DEF Sources
<1> QED BY <1>1 DEF LinksInv

\* One configuration after it was post-processed.
LEMMA PostedEntry ==
  ASSUME CollapseInv, pc = "post", NEW c, EntryInv(c, o, Len(script[o]) + 1),
         NEW table, DOMAIN table = TermKeys, NEW fc,
         DOMAIN fc = RangeOf(KeptFiles(c)),
         \A f \in RangeOf(KeptFiles(c)) : fc[f] \in FileBlocks(f, table),
         NEW d, DOMAIN d = CfgFields, d.merged = c.merged, d.terms = c.terms, d.job = c.job,
         d.links = c.links, d.posted = TRUE, d.fileconfigs = fc, d.files.seq = KeptFiles(c)
  PROVE  /\ MergedInv(d, o, Len(script[o]) + 1)
         /\ NamesFile(d, o)
         /\ Names(RangeOf(d.files.seq)) = Names(FilePaths(d)) \ Names(ExcludePaths(d))
<1>1. script \in Scripts /\ o \in Objs /\ o # 0 BY DEF CollapseInv, PhaseInv
<1>2. MergedInv(d, o, Len(script[o]) + 1)
  <2> DEFINE n == Len(script[o]) + 1
  <2>1. MergedInv(c, o, n) BY DEF EntryInv
  <2> HIDE DEF n
  <2>2. Seen(d, o, n) BY <2>1 DEF MergedInv, Seen
  <2>3. ExactlyMatching(d, o, n) BY <2>1 DEF MergedInv, ExactlyMatching
  <2>4. LinksInv(d)
    <3>1. LinksInv(c) BY <2>1 DEF MergedInv
    <3> QED BY <3>1, LinksFrame
  <2> QED BY <2>1, <2>2, <2>3, <2>4 DEF MergedInv, n
<1>3. NamesFile(d, o)
  <2> SUFFICES ASSUME NEW f \in RangeOf(KeptFiles(c)), NEW n \in fc[f]
               PROVE  \E m \in 1 .. Len(script[o][n].keywords) :
                        LET kw == script[o][n].keywords[m] IN
                        ~kw.neg /\ \E a \in 1 .. Len(kw.alts) : <<f.item>> \in kw.alts[a]
    BY DEF NamesFile
  <2> DEFINE t == [table EXCEPT !["required"] = <<f.item>>]
  <2>1. n \in 1 .. Len(script[o]) BY BlocksInScript
  <2>2. MayMatch(script[o][n].keywords, t) BY <2>1, FileBlocksMeaning
  <2>3. f.item \in Items
    <3>1. c.files.seq \in Seq(Path) BY DEF EntryInv, PathsInv
    <3>2. RangeOf(KeptFiles(c)) \subseteq RangeOf(c.files.seq) BY <3>1, FilterRange DEF KeptFiles
    <3>3. RangeOf(c.files.seq) \subseteq Path BY <3>1 DEF RangeOf
    <3>4. f \in Path BY <3>2, <3>3
    <3> QED BY <3>4 DEF Path
  <2>4. t["required"] = <<f.item>> /\ t["required"] # Nil
    BY <2>3, ScriptAssumption DEF TermKeys
  <2> HIDE DEF t
  <2>5. \E m \in 1 .. Len(script[o][n].keywords) :
          /\ ~script[o][n].keywords[m].neg
          /\ \E a \in 1 .. Len(script[o][n].keywords[m].alts) :
               t["required"] \in script[o][n].keywords[m].alts[a]
    BY <2>2, <2>4, MayNamesFile
  <2> QED BY <2>4, <2>5
<1>4. Names(RangeOf(d.files.seq)) = Names(FilePaths(d)) \ Names(ExcludePaths(d))
  <2> DEFINE A == RangeOf(c.files.seq)
             B == RangeOf(c.excludes.seq)
  <2>1. PathsInv(c.files, o, FilePaths(c)) /\ PathsInv(c.excludes, o, ExcludePaths(c))
    BY DEF EntryInv
  <2>2. c.files.seq \in Seq(Path) /\ c.excludes.seq \in Seq(Path) BY <2>1 DEF PathsInv
  <2>3. A \in SUBSET Path /\ B \in SUBSET Path BY <2>2 DEF RangeOf
  <2>4. \A p \in A \cup B : ~p.abs BY <1>1, <2>1 DEF PathsInv
  <2>5. RangeOf(KeptFiles(c)) = A \cap (Path \ B) BY <2>2, FilterRange DEF KeptFiles
  <2>6. Names(A) = Names(FilePaths(c)) /\ Names(B) = Names(ExcludePaths(c))
    BY <2>1 DEF PathsInv
  <2> HIDE DEF A, B
  <2>7. Names(RangeOf(d.files.seq)) = Names(A \ B)
    <3>1. A \cap (Path \ B) = A \ B BY <2>3
    <3> QED BY <2>5, <3>1
  <2>8. Names(A \ B) = Names(A) \ Names(B) BY <2>3, <2>4, NamesOfDifference
  <2>9. FilePaths(d) = FilePaths(c) /\ ExcludePaths(d) = ExcludePaths(c)
    BY DEF FilePaths, ExcludePaths
  <2> QED BY <2>6, <2>7, <2>8, <2>9
<1> QED BY <1>2, <1>3, <1>4

\* What it says of its files, if merge m was the last to fill its terms table.
LEMMA PostedFiles ==
  ASSUME CollapseInv, pc = "post", NEW q \in 1 .. Len(script[o]), NEW fc,
         \A f \in DOMAIN fc : fc[f] \in FileBlocks(f, tab[o][q]),
         NEW m \in 1 .. NumJobs, KeysDistinct, LastWith(o, m), Entry(o, m).terms = <<o, q>>,
         NEW d, d.fileconfigs = fc
  PROVE  FileConfigInv(d, o, [TermsOf(JobAt(m)) EXCEPT !["word"] = script[o][q].word])
<1> DEFINE u == [TermsOf(JobAt(m)) EXCEPT !["word"] = script[o][q].word]
           table == tab[o][q]
<1>1. /\ DOMAIN table = TermKeys /\ ScriptKind(table["kind"])
      /\ table["word"] = script[o][q].word
      /\ \A k \in {"env", "config", "platform"} : table[k] = TermsOf(JobAt(m))[k]
  BY DEF CollapseInv, TablesInv, HoldsTerms, PhaseInv
<1>2. /\ DOMAIN u = TermKeys /\ u["kind"] = Nil /\ u["word"] = script[o][q].word
      /\ \A k \in {"env", "config", "platform"} : u[k] = TermsOf(JobAt(m))[k]
  BY DEF TermsOf, getactiveterms, NoTerms, TermKeys
<1> HIDE DEF u, table
<1>3. ASSUME NEW f \in DOMAIN fc, NEW n \in 1 .. Len(script[o]),
             KindFree(script[o][n].keywords)
      PROVE  LET kws == script[o][n].keywords
                 tf  == [u EXCEPT !["required"] = <<f.item>>]
             IN /\ MustMatch(kws, tf) => n \in fc[f]
                /\ n \in fc[f] => AllKeywords(kws, tf)
  <2> DEFINE kws == script[o][n].keywords
             t == [table EXCEPT !["required"] = <<f.item>>]
             v == [u EXCEPT !["required"] = <<f.item>>]
  <2>1. kws \in Seq(Keyword) BY ScriptFacts DEF CollapseInv, PhaseInv, Block
  <2>2. \A k \in TermKeys \ {"kind"} : t[k] = v[k] BY <1>1, <1>2 DEF TermKeys
  <2>3. ScriptKind(t["kind"]) /\ ScriptKind(v["kind"])
    BY <1>1, <1>2 DEF TermKeys, ScriptKind
  <2>4. /\ MustMatch(kws, t) => n \in fc[f]
        /\ n \in fc[f] => MayMatch(kws, t)
    BY FileBlocksMeaning DEF table
  <2> HIDE DEF t, v, kws
  <2>5. (AllKeywords(kws, t) <=> AllKeywords(kws, v)) /\ (MustMatch(kws, t) <=> MustMatch(kws, v))
    BY <1>3, <2>1, <2>2, <2>3, KindInsensitive DEF kws
  <2>6. MayMatch(kws, t) => AllKeywords(kws, t) BY DEF MayMatch
  <2> QED BY <2>4, <2>5, <2>6 DEF kws, v
<1> QED BY <1>3 DEF FileConfigInv, u

LEMMA PostprocessKeeps == ASSUME CollapseInv, Postprocess PROVE CollapseInv'
<1>1. PICK key \in DOMAIN result[o] :
        LET c     == result[o][key]
            files == KeptFiles(c)
            last  == Len(files)
            table == tab[c.terms[1]][c.terms[2]]
        IN /\ pc = "post" /\ ~c.posted
           /\ \E fc \in [RangeOf(files) -> UNION {FileBlocks(f, table) : f \in RangeOf(files)}] :
                /\ \A f \in RangeOf(files) : fc[f] \in FileBlocks(f, table)
                /\ result' = [result EXCEPT ![o][key] =
                     [c EXCEPT !.kind = IF @ = SharedLib /\ c.job.platform \in NoSharedLibs
                                          THEN StaticLib ELSE @,
                               !.files.seq = files, !.posted = TRUE, !.fileconfigs = fc]]
           /\ tab' = IF last = 0 THEN tab
                     ELSE [tab EXCEPT ![c.terms[1]][c.terms[2]]["required"] =
                             <<files[last].item>>]
           /\ UNCHANGED <<script, pc, o, j, i, base, terms, cfg>>
  BY DEF Postprocess
<1> DEFINE c     == result[o][key]
           files == KeptFiles(c)
           table == tab[c.terms[1]][c.terms[2]]
<1>2. /\ pc = "post" /\ ~c.posted
      /\ script' = script /\ pc' = pc /\ o' = o /\ j' = j /\ i' = i
      /\ base' = base /\ terms' = terms /\ cfg' = cfg
  BY <1>1
<1>3. tab' = tab \/ \E w : tab' = [tab EXCEPT ![c.terms[1]][c.terms[2]]["required"] = w]
  BY <1>1
<1>4. PICK fc \in [RangeOf(files) -> UNION {FileBlocks(f, table) : f \in RangeOf(files)}] :
        /\ \A f \in RangeOf(files) : fc[f] \in FileBlocks(f, table)
        /\ result' = [result EXCEPT ![o][key] =
             [c EXCEPT !.kind = IF @ = SharedLib /\ c.job.platform \in NoSharedLibs
                                  THEN StaticLib ELSE @,
                       !.files.seq = files, !.posted = TRUE, !.fileconfigs = fc]]
  BY <1>1
<1> DEFINE d == [c EXCEPT !.kind = IF @ = SharedLib /\ c.job.platform \in NoSharedLibs
                                     THEN StaticLib ELSE @,
                          !.files.seq = files, !.posted = TRUE, !.fileconfigs = fc]
<1>5. result' = [result EXCEPT ![o][key] = d] BY <1>4
<1>6. DOMAIN fc = RangeOf(files) /\ \A f \in RangeOf(files) : fc[f] \in FileBlocks(f, table)
  BY <1>4
<1>7. /\ PhaseInv /\ ResultInv /\ TablesInv /\ script \in Scripts /\ o \in Objs
      /\ TermsInv(base) /\ TermsInv(terms) /\ o # 0
  BY <1>2 DEF CollapseInv, PhaseInv
<1>8. EntryInv(c, o, Len(script[o]) + 1) BY <1>1, <1>2, <1>7 DEF ResultInv
<1>9. PICK q \in 1 .. Len(script[o]) : c.terms = <<o, q>>
  <2>1. Len(script[o]) + 1 > 1 BY <1>7, ScriptFacts
  <2> QED BY <1>8, <2>1 DEF EntryInv, MergedInv
<1>10. table = tab[o][q] /\ c.terms[1] = o /\ c.terms[2] = q BY <1>9
<1>11. DOMAIN c = CfgFields /\ "seq" \in DOMAIN c.files
  BY <1>8 DEF EntryInv, MergedInv, PathsInv
<1> HIDE DEF c, table, files
<1>12. /\ DOMAIN d = CfgFields /\ d.merged = c.merged /\ d.terms = c.terms /\ d.job = c.job
       /\ d.links = c.links /\ d.posted = TRUE /\ d.fileconfigs = fc
       /\ d.files.seq = files
  BY <1>11 DEF CfgFields
<1> HIDE DEF d
<1>13. /\ DOMAIN result' = Objs
       /\ \A x \in Objs : x # o => result'[x] = result[x]
       /\ DOMAIN result'[o] = DOMAIN result[o]
       /\ result'[o][key] = d
       /\ \A k \in DOMAIN result[o] : k # key => result'[o][k] = result[o][k]
  BY <1>1, <1>5, <1>7 DEF ResultInv
<1>14. /\ DOMAIN tab' = Objs
       /\ \A x \in Objs :
            /\ DOMAIN tab'[x] = 1 .. Len(script[x])
            /\ \A n \in 1 .. Len(script[x]) :
                 /\ DOMAIN tab'[x][n] = TermKeys
                 /\ \A k \in TermKeys \ {"required"} : tab'[x][n][k] = tab[x][n][k]
                 /\ ScriptKind(tab'[x][n]["kind"])
  <2>1. /\ DOMAIN tab = Objs
        /\ \A x \in Objs :
             /\ DOMAIN tab[x] = 1 .. Len(script[x])
             /\ \A n \in 1 .. Len(script[x]) :
                  DOMAIN tab[x][n] = TermKeys /\ ScriptKind(tab[x][n]["kind"])
    BY <1>7 DEF TablesInv
  <2>2. CASE tab' = tab BY <2>1, <2>2
  <2>3. ASSUME NEW w, tab' = [tab EXCEPT ![o][q]["required"] = w] 
        PROVE  /\ DOMAIN tab' = Objs
               /\ \A x \in Objs :
                    /\ DOMAIN tab'[x] = 1 .. Len(script[x])
                    /\ \A n \in 1 .. Len(script[x]) :
                         /\ DOMAIN tab'[x][n] = TermKeys
                         /\ \A k \in TermKeys \ {"required"} : tab'[x][n][k] = tab[x][n][k]
                         /\ ScriptKind(tab'[x][n]["kind"])
    <3>1. DOMAIN tab' = Objs /\ \A x \in Objs : DOMAIN tab'[x] = 1 .. Len(script[x])
      BY <1>7, <2>1, <2>3
    <3>2. ASSUME NEW x \in Objs, NEW n \in 1 .. Len(script[x])
          PROVE  /\ DOMAIN tab'[x][n] = TermKeys
                 /\ \A k \in TermKeys \ {"required"} : tab'[x][n][k] = tab[x][n][k]
      <4>1. CASE x = o /\ n = q
        <5>1. tab'[x][n] = [tab[x][n] EXCEPT !["required"] = w]
          BY <1>7, <1>9, <2>1, <2>3, <4>1
        <5> QED BY <2>1, <5>1
      <4>2. CASE ~(x = o /\ n = q)
        <5>1. tab'[x][n] = tab[x][n] BY <1>7, <1>9, <2>1, <2>3, <4>2
        <5> QED BY <2>1, <5>1
      <4> QED BY <4>1, <4>2
    <3>3. "kind" \in TermKeys \ {"required"} BY DEF TermKeys
    <3> QED BY <2>1, <3>1, <3>2, <3>3
  <2> QED BY <1>3, <1>10, <2>2, <2>3
<1>15. \A x \in Objs : Done(x)' = Done(x) /\ (Collapsed(x)' <=> Collapsed(x))
  BY <1>2, DoneFrame
<1>16. \A x \in Objs, m \in 1 .. NumJobs : m <= Done(x) =>
         Entry(x, m)'.terms = Entry(x, m).terms
  <2> TAKE x \in Objs, m \in 1 .. NumJobs
  <2> HAVE m <= Done(x)
  <2>1. Key(JobAt(m)) \in DOMAIN result[x] BY <1>7, EntryTerms
  <2>2. CASE x # o BY <1>13, <2>2 DEF Entry
  <2>3. CASE x = o /\ Key(JobAt(m)) # key BY <1>13, <2>1, <2>3 DEF Entry
  <2>4. CASE x = o /\ Key(JobAt(m)) = key BY <1>12, <1>13, <2>4 DEF Entry, c
  <2> QED BY <2>2, <2>3, <2>4
<1>17. \A x \in Objs, m \in 1 .. NumJobs :
         LastWith(x, m)' => LastWith(x, m) /\ Entry(x, m)'.terms = Entry(x, m).terms
  <2> TAKE x \in Objs, m \in 1 .. NumJobs
  <2> HAVE LastWith(x, m)'
  <2>1. Done(x)' = Done(x) BY <1>15
  <2>2. m <= Done(x) BY <2>1 DEF LastWith
  <2>3. \A n \in 1 .. NumJobs : m < n /\ n <= Done(x) => Entry(x, n).terms # Entry(x, m).terms
    BY <1>16, <2>1, <2>2 DEF LastWith
  <2> QED BY <1>16, <2>2, <2>3 DEF LastWith
<1>18. PostedInv(o, d)
  <2>1. /\ MergedInv(d, o, Len(script[o]) + 1)
        /\ NamesFile(d, o)
        /\ Names(RangeOf(d.files.seq)) = Names(FilePaths(d)) \ Names(ExcludePaths(d))
    <3>1. DOMAIN table = TermKeys BY <1>7, <1>10 DEF TablesInv
    <3> QED BY <1>2, <1>6, <1>8, <1>12, <3>1, PostedEntry DEF files
  <2>2. ASSUME NEW m \in 1 .. NumJobs, KeysDistinct, LastWith(o, m), Entry(o, m).terms = d.terms
        PROVE  FileConfigInv(d, o, [TermsOf(JobAt(m)) EXCEPT
                                      !["word"] = script[d.terms[1]][d.terms[2]].word])
    <3>1. d.terms = <<o, q>> /\ d.terms[1] = o /\ d.terms[2] = q BY <1>9, <1>12
    <3>2. \A f \in DOMAIN fc : fc[f] \in FileBlocks(f, tab[o][q]) BY <1>6, <1>10
    <3>3. FileConfigInv(d, o, [TermsOf(JobAt(m)) EXCEPT !["word"] = script[o][q].word])
      BY <1>2, <1>12, <2>2, <3>1, <3>2, PostedFiles
    <3> QED BY <3>1, <3>3
  <2>3. Collapsed(o) BY <1>2 DEF Collapsed
  <2> QED BY <1>7, <2>1, <2>2, <2>3 DEF PostedInv
<1>19. \A x \in Objs : \A e : PostedInv(x, e) => PostedInv(x, e)'
  BY <1>2, <1>15, <1>17, PostedFrame
<1>20. \A x \in Objs : \A e : EntryInv(e, x, Len(script[x]) + 1)
                            => EntryInv(e, x, Len(script[x]) + 1)'
  BY <1>2, ScriptFrame
<1>21. ResultInv'
  <2>1. ASSUME NEW x \in Objs
        PROVE  /\ \A m \in 1 .. NumJobs : m <= Done(x)' => Key(JobAt(m)) \in DOMAIN result'[x]
               /\ \A k \in DOMAIN result'[x] :
                    /\ \E m \in 1 .. NumJobs : m <= Done(x)' /\ result'[x][k].job = JobAt(m)
                    /\ k = Key(result'[x][k].job)
                    /\ IF result'[x][k].posted THEN PostedInv(x, result[x][k])'
                       ELSE EntryInv(result[x][k], x, Len(script[x]) + 1)'
    <3>1. /\ \A m \in 1 .. NumJobs : m <= Done(x) => Key(JobAt(m)) \in DOMAIN result[x]
          /\ \A k \in DOMAIN result[x] :
               /\ \E m \in 1 .. NumJobs : m <= Done(x) /\ result[x][k].job = JobAt(m)
               /\ k = Key(result[x][k].job)
               /\ IF result[x][k].posted THEN PostedInv(x, result[x][k])
                  ELSE EntryInv(result[x][k], x, Len(script[x]) + 1)
      BY <1>7 DEF ResultInv
    <3>2. DOMAIN result'[x] = DOMAIN result[x] /\ Done(x)' = Done(x) BY <1>13, <1>15
    <3>3. ASSUME NEW k \in DOMAIN result[x]
          PROVE  /\ \E m \in 1 .. NumJobs : m <= Done(x) /\ result'[x][k].job = JobAt(m)
                 /\ k = Key(result'[x][k].job)
                 /\ IF result'[x][k].posted THEN PostedInv(x, result[x][k])'
                    ELSE EntryInv(result[x][k], x, Len(script[x]) + 1)'
      <4>1. CASE x = o /\ k = key
        <5>1. result'[x][k] = d BY <1>13, <4>1
        <5>2. PostedInv(x, result'[x][k]) BY <1>18, <4>1, <5>1
        <5>3. PostedInv(x, result[x][k])' BY <1>19, <5>2
        <5>4. result[x][k] = c BY <4>1 DEF c
        <5>5. result'[x][k].posted /\ result'[x][k].job = result[x][k].job BY <1>12, <5>1, <5>4
        <5> QED BY <3>1, <5>3, <5>5
      <4>2. CASE ~(x = o /\ k = key)
        <5>1. result'[x][k] = result[x][k] BY <1>13, <3>3, <4>2
        <5> QED BY <1>19, <1>20, <3>1, <5>1
      <4> QED BY <4>1, <4>2
    <3> QED BY <3>1, <3>2, <3>3
  <2> QED BY <1>13, <2>1 DEF ResultInv
<1>22. TablesInv'
  <2>1. \A k \in {"word", "env", "config", "platform"} : k \in TermKeys \ {"required"}
    BY DEF TermKeys
  <2>2. \A x \in Objs :
          /\ DOMAIN tab'[x] = 1 .. Len(script[x])
          /\ \A n \in 1 .. Len(script[x]) :
               /\ DOMAIN tab'[x][n] = TermKeys
               /\ ScriptKind(tab'[x][n]["kind"])
               /\ \A k \in {"word", "env", "config", "platform"} :
                    tab'[x][n][k] = tab[x][n][k]
    BY <1>14, <2>1
  <2> QED BY <1>2, <1>7, <1>14, <1>15, <1>16, <2>2, TablesFrame
<1>23. PhaseInv'
  <2>1. TermsInv(base)' /\ TermsInv(terms)' BY <1>2, <1>7 DEF TermsInv, ScriptKind
  <2> QED BY <1>2, <1>7, <2>1 DEF PhaseInv
<1>24. CurrentInv' BY <1>2 DEF CurrentInv
<1> QED BY <1>21, <1>22, <1>23, <1>24 DEF CollapseInv

LEMMA NextProjectKeeps == ASSUME CollapseInv, NextProject PROVE CollapseInv'
<1>1. /\ pc = "post"
      /\ \/ o < NumProjects /\ pc' = "merge" /\ o' = o + 1 /\ j' = 1
         \/ ~(o < NumProjects) /\ pc' = "done" /\ o' = o /\ j' = j
      /\ script' = script /\ tab' = tab /\ i' = i
      /\ base' = base /\ terms' = terms /\ cfg' = cfg /\ result' = result
  BY DEF NextProject
<1>2. /\ PhaseInv /\ ResultInv /\ TablesInv /\ script \in Scripts /\ o \in Objs
      /\ TermsInv(base) /\ TermsInv(terms) /\ j \in 1 .. NumJobs
      /\ NumProjects \in Nat /\ o \in Nat /\ NumJobs \in Nat \ {0}
      /\ \A x \in Objs : x \in Nat /\ x <= NumProjects
  BY ScriptAssumption, JobFacts DEF CollapseInv, PhaseInv, Objs
<1>3. \A x \in Objs : Done(x)' = Done(x) /\ (Collapsed(x)' <=> Collapsed(x))
  <2>1. CASE o < NumProjects
    <3>1. pc' = "merge" /\ o' = o + 1 /\ j' = 1 BY <1>1, <2>1
    <3>2. \A x \in Objs : (Collapsed(x)' <=> x <= o) /\ (Collapsed(x) <=> x <= o)
      BY <1>1, <1>2, <3>1 DEF Collapsed
    <3>3. \A x \in Objs : ~(x <= o) => Done(x)' = 0 /\ Done(x) = 0
      BY <1>2, <3>1, <3>2 DEF Done
    <3>4. \A x \in Objs : x <= o => Done(x)' = NumJobs /\ Done(x) = NumJobs
      BY <3>2 DEF Done
    <3> QED BY <3>2, <3>3, <3>4
  <2>2. CASE ~(o < NumProjects)
    <3>1. pc' = "done" /\ o' = o /\ j' = j BY <1>1, <2>2
    <3>2. \A x \in Objs : Collapsed(x)' <=> Collapsed(x) BY <1>1, <3>1 DEF Collapsed
    <3> QED BY <3>1, <3>2 DEF Done
  <2> QED BY <2>1, <2>2
<1>4. ResultInv' BY <1>1, <1>2, <1>3, ResultFrame
<1>5. TablesInv' BY <1>1, <1>2, <1>3, TablesSame
<1>6. PhaseInv'
  <2>1. TermsInv(base)' /\ TermsInv(terms)' BY <1>1, <1>2 DEF TermsInv, ScriptKind
  <2>2. o' \in Objs /\ j' \in 1 .. NumJobs /\ (pc' = "done" => o' = NumProjects)
    BY <1>1, <1>2 DEF Objs
  <2> QED BY <1>1, <1>2, <2>1, <2>2 DEF PhaseInv
<1>7. CurrentInv' BY <1>1 DEF CurrentInv
<1> QED BY <1>4, <1>5, <1>6, <1>7 DEF CollapseInv

LEMMA StutterKeeps == ASSUME CollapseInv, UNCHANGED vars PROVE CollapseInv'
<1>1. /\ script' = script /\ tab' = tab /\ pc' = pc /\ o' = o /\ j' = j /\ i' = i
      /\ base' = base /\ terms' = terms /\ cfg' = cfg /\ result' = result
  BY DEF vars
<1>2. PhaseInv /\ CurrentInv /\ ResultInv /\ TablesInv /\ TermsInv(base) /\ TermsInv(terms)
  BY DEF CollapseInv, PhaseInv
<1>3. \A x \in Objs : Done(x)' = Done(x) /\ (Collapsed(x)' <=> Collapsed(x))
  BY <1>1, DoneFrame
<1>4. ResultInv' BY <1>1, <1>2, <1>3, ResultFrame
<1>5. TablesInv' BY <1>1, <1>2, <1>3, TablesSame
<1>6. PhaseInv' BY <1>1, <1>2 DEF PhaseInv, TermsInv, ScriptKind
<1>7. CurrentInv'
  <2>1. EntryInv(cfg, o, i)' <=> EntryInv(cfg, o, i) BY <1>1, ScriptFrame
  <2> QED BY <1>1, <1>2, <2>1 DEF CurrentInv
<1> QED BY <1>4, <1>5, <1>6, <1>7 DEF CollapseInv

-----------------------------------------------------------------------------
(* The theorems *)

LEMMA NextKeeps == CollapseInv /\ [Next]_vars => CollapseInv'
<1> SUFFICES ASSUME CollapseInv, [Next]_vars PROVE CollapseInv' OBVIOUS
<1>1. CASE StartMerge BY <1>1, StartMergeKeeps
<1>2. CASE MergeBlock BY <1>2, MergeBlockKeeps
<1>3. CASE SkipBlock BY <1>3, SkipBlockKeeps
<1>4. CASE FinishMerge BY <1>4, FinishMergeKeeps
<1>5. CASE Postprocess BY <1>5, PostprocessKeeps
<1>6. CASE NextProject BY <1>6, NextProjectKeeps
<1>7. CASE UNCHANGED vars BY <1>7, StutterKeeps
<1> QED BY <1>1, <1>2, <1>3, <1>4, <1>5, <1>6, <1>7 DEF Next

\* Every state of the collapsing of every script satisfies the inductive
\* invariant: the entries hold the blocks they were given, the terms tables the
\* terms of their last merge.
THEOREM CollapseIsInvariant == Spec => []CollapseInv
BY InitKeeps, NextKeeps, PTL DEF Spec

\* The entries of a collapsed object.
LEMMA CollapsedEntry ==
  ASSUME CollapseInv, NEW x \in Objs, NEW k \in DOMAIN result[x]
  PROVE  MergedInv(result[x][k], x, Len(script[x]) + 1)
BY DEF CollapseInv, ResultInv, PostedInv, EntryInv

\* merge(): once an object is collapsed and no two merges wrote to the same
\* key, the entry of every configuration and platform holds the blocks that
\* match that pair, and no others, but for blocks that mention a kind.
THEOREM BlocksMergedAsMatched == ASSUME KeysDistinct PROVE Spec => []MatchingBlocksMerged
<1>1. ASSUME CollapseInv PROVE MatchingBlocksMerged
  <2> SUFFICES ASSUME NEW x \in Objs, Collapsed(x), NEW job \in Jobs
               PROVE  /\ Key(job) \in DOMAIN result[x]
                      /\ LET c == result[x][Key(job)] IN
                         /\ c.job = job
                         /\ \A n \in 1 .. Len(script[x]) : KindFree(script[x][n].keywords) =>
                              (<<x, n>> \in c.merged
                                 <=> AllKeywords(script[x][n].keywords, TermsOf(job)))
    BY DEF MatchingBlocksMerged
  <2> DEFINE c == result[x][Key(job)]
  <2>1. PICK m \in 1 .. NumJobs : job = JobAt(m) BY DEF Jobs
  <2>2. m <= Done(x) BY JobFacts DEF Done
  <2>3. Key(job) \in DOMAIN result[x] BY <1>1, <2>1, <2>2 DEF CollapseInv, ResultInv
  <2>4. c.job = job
    <3>1. PICK n \in 1 .. NumJobs : c.job = JobAt(n) /\ Key(job) = Key(c.job)
      BY <1>1, <2>3 DEF CollapseInv, ResultInv
    <3>2. n = m BY <2>1, <3>1 DEF KeysDistinct
    <3> QED BY <2>1, <3>1, <3>2
  <2>5. MergedInv(c, x, Len(script[x]) + 1) BY <1>1, <2>3, CollapsedEntry
  <2>6. \A n \in 1 .. Len(script[x]) : n < Len(script[x]) + 1
    BY <1>1, ScriptFacts DEF CollapseInv, PhaseInv
  <2>7. \A n \in 1 .. Len(script[x]) : KindFree(script[x][n].keywords) =>
          (<<x, n>> \in c.merged <=> AllKeywords(script[x][n].keywords, TermsOf(job)))
    BY <2>4, <2>5, <2>6 DEF MergedInv, ExactlyMatching
  <2> QED BY <2>3, <2>4, <2>7
<1> QED BY <1>1, CollapseIsInvariant, PTL

\* mergefield: the links of a collapsed object are those of the merged blocks,
\* each once, in the order in which the script first names them.
THEOREM LinksMergedInOrder == Spec => []LinksInScriptOrder
<1>1. ASSUME CollapseInv PROVE LinksInScriptOrder
  <2> SUFFICES ASSUME NEW x \in Objs, NEW k \in DOMAIN result[x]
               PROVE  LET c == result[x][k] IN
                      /\ \A y \in Items : (y \in RangeOf(c.links.seq)) <=> (Sources(c, y) # {})
                      /\ \A m, n \in 1 .. Len(c.links.seq) : m < n =>
                           /\ c.links.seq[m] # c.links.seq[n]
                           /\ \E id \in Sources(c, c.links.seq[m]) :
                                \A other \in Sources(c, c.links.seq[n]) : ~Before(other, id)
    BY DEF LinksInScriptOrder
  <2>1. LinksInv(result[x][k]) BY <1>1, CollapsedEntry DEF MergedInv
  <2> QED BY <2>1 DEF LinksInv
<1> QED BY <1>1, CollapseIsInvariant, PTL

\* iskeywordsmatch: only blocks that name a file explicitly become part of its
\* configuration, whatever other terms the pattern matches.
THEOREM FileSettingsNameFile == Spec => []FileBlocksNameFile
<1>1. ASSUME CollapseInv PROVE FileBlocksNameFile
  <2> SUFFICES ASSUME NEW x \in Objs, NEW k \in DOMAIN result[x], result[x][k].posted,
                      NEW f \in DOMAIN result[x][k].fileconfigs,
                      NEW n \in result[x][k].fileconfigs[f]
               PROVE  \E m \in 1 .. Len(script[x][n].keywords) :
                        LET kw == script[x][n].keywords[m] IN
                        ~kw.neg /\ \E a \in 1 .. Len(kw.alts) : <<f.item>> \in kw.alts[a]
    BY DEF FileBlocksNameFile
  <2>1. NamesFile(result[x][k], x) BY <1>1 DEF CollapseInv, ResultInv, PostedInv
  <2> QED BY <2>1 DEF NamesFile
<1> QED BY <1>1, CollapseIsInvariant, PTL

\* postprocess(): a configuration lists exactly the files of the merged blocks
\* that none of them excludes, although the solution's paths were adjusted to
\* the project's location between the merges.
THEOREM ExcludesHonoured == Spec => []ExcludedFilesGone
<1>1. ASSUME CollapseInv PROVE ExcludedFilesGone
  <2> SUFFICES ASSUME NEW x \in Objs, NEW k \in DOMAIN result[x], result[x][k].posted
               PROVE  LET c == result[x][k] IN
                      Names(RangeOf(c.files.seq)) = Names(FilePaths(c)) \ Names(ExcludePaths(c))
    BY DEF ExcludedFilesGone, Names, FilePaths, ExcludePaths
  <2> QED BY <1>1 DEF CollapseInv, ResultInv, PostedInv
<1> QED BY <1>1, CollapseIsInvariant, PTL

\* There is a last merge among those that left their entry with a given table.
LEMMA LastSharerExists ==
  ASSUME CollapseInv, NEW x \in Objs, Collapsed(x), NEW k \in DOMAIN result[x]
  PROVE  LET c == result[x][k]
             m == LastSharer(x, c)
         IN LastWith(x, m) /\ Entry(x, m).terms = c.terms
<1> DEFINE c == result[x][k]
           T == {m \in 1 .. NumJobs : Entry(x, m).terms = c.terms}
           U == {NumJobs - m : m \in T}
<1>1. NumJobs \in Nat /\ Done(x) = NumJobs BY JobFacts DEF Done
<1>2. PICK m0 \in 1 .. NumJobs : k = Key(JobAt(m0))
  BY DEF CollapseInv, ResultInv
<1>3. m0 \in T BY <1>2 DEF Entry
<1>4. U \in SUBSET Nat /\ U # {} BY <1>1, <1>3
<1>5. PICK u \in U : \A w \in U : u <= w BY <1>4, LeastNatural
<1>6. PICK m \in T : u = NumJobs - m BY <1>5
<1>7. \A n \in T : n <= m
  <2> TAKE n \in T
  <2>1. NumJobs - m <= NumJobs - n BY <1>5, <1>6
  <2> QED BY <1>1, <2>1
<1>8. /\ result[x][Key(JobAt(m))].terms = c.terms
      /\ \A n \in m + 1 .. NumJobs : result[x][Key(JobAt(n))].terms # c.terms
  <2>1. result[x][Key(JobAt(m))].terms = c.terms BY <1>6 DEF Entry
  <2>2. ASSUME NEW n \in m + 1 .. NumJobs PROVE result[x][Key(JobAt(n))].terms # c.terms
    <3>1. n \in 1 .. NumJobs /\ ~(n <= m) BY <1>1
    <3>2. n \notin T BY <1>7, <3>1
    <3> QED BY <3>1, <3>2 DEF Entry
  <2> QED BY <2>1, <2>2
<1> DEFINE l == LastSharer(x, c)
<1>9. /\ l \in 1 .. NumJobs
      /\ result[x][Key(JobAt(l))].terms = c.terms
      /\ \A n \in l + 1 .. NumJobs : result[x][Key(JobAt(n))].terms # c.terms
  <2> HIDE DEF c
  <2> QED BY <1>6, <1>8 DEF LastSharer
<1> HIDE DEF l, c
<1>10. LastWith(x, l)
  <2>1. l <= Done(x) BY <1>1, <1>9
  <2>2. ASSUME NEW n \in 1 .. NumJobs, l < n PROVE Entry(x, n).terms # Entry(x, l).terms
    <3>1. n \in l + 1 .. NumJobs BY <1>1, <1>9, <2>2
    <3> QED BY <1>9, <3>1 DEF Entry
  <2> QED BY <1>9, <2>1, <2>2 DEF LastWith
<1> QED BY <1>9, <1>10 DEF Entry, l, c

\* postprocess(): the settings of a file are matched against the terms of the
\* configuration merged last into the table it shares, word for word.
THEOREM FileSettingsOfLastSharer ==
  ASSUME KeysDistinct PROVE Spec => []FileBlocksOfLastSharer
<1>1. ASSUME CollapseInv PROVE FileBlocksOfLastSharer
  <2> SUFFICES ASSUME NEW x \in Objs, NEW k \in DOMAIN result[x], result[x][k].posted
               PROVE  LET c == result[x][k]
                          t == [TermsOf(JobAt(LastSharer(x, c))) EXCEPT
                                  !["word"] = tab[c.terms[1]][c.terms[2]]["word"]]
                      IN \A f \in DOMAIN c.fileconfigs : \A n \in 1 .. Len(script[x]) :
                           LET kws == script[x][n].keywords
                               tf  == [t EXCEPT !["required"] = <<f.item>>]
                           IN KindFree(kws) => /\ MustMatch(kws, tf) => n \in c.fileconfigs[f]
                                               /\ n \in c.fileconfigs[f] => AllKeywords(kws, tf)
    BY DEF FileBlocksOfLastSharer
  <2> DEFINE c == result[x][k]
             m == LastSharer(x, c)
  <2>1. PostedInv(x, c) BY <1>1 DEF CollapseInv, ResultInv
  <2>2. Collapsed(x) BY <2>1 DEF PostedInv
  <2>3. LastWith(x, m) /\ Entry(x, m).terms = c.terms BY <1>1, <2>2, LastSharerExists
  <2>4. m \in 1 .. NumJobs BY <2>3 DEF LastWith
  <2>5. PICK q \in 1 .. Len(script[x]) : c.terms = <<x, q>>
    <3>1. Len(script[x]) + 1 > 1 BY <1>1, ScriptFacts DEF CollapseInv, PhaseInv
    <3> QED BY <2>1, <3>1 DEF PostedInv, MergedInv
  <2> HIDE DEF c, m
  <2>6. tab[c.terms[1]][c.terms[2]]["word"] = script[c.terms[1]][c.terms[2]].word
    BY <1>1, <2>5 DEF CollapseInv, TablesInv
  <2>7. FileConfigInv(c, x, [TermsOf(JobAt(m)) EXCEPT
                               !["word"] = script[c.terms[1]][c.terms[2]].word])
    BY <2>1, <2>3, <2>4 DEF PostedInv
  <2>8. FileConfigInv(c, x, [TermsOf(JobAt(m)) EXCEPT
                               !["word"] = tab[c.terms[1]][c.terms[2]]["word"]])
    BY <2>6, <2>7
  <2> QED BY <2>8 DEF FileConfigInv, c, m
<1> QED BY <1>1, CollapseIsInvariant, PTL

\* mergeobject shares terms tables, but no step of the collapsing of one object
\* writes to a table of another: a project never changes what the solution's
\* or another project's settings are matched against.
THEOREM TablesStayOwn == Spec => OwnTablesOnly
<1>1. ASSUME CollapseInv, [Next]_vars
      PROVE  [\A x \in Objs : tab'[x] # tab[x] => x = o]_vars
  <2> SUFFICES ASSUME NEW x \in Objs, x # o PROVE tab'[x] = tab[x]
    OBVIOUS
  <2>1. DOMAIN tab = Objs /\ script \in Scripts /\ o \in Objs
    BY <1>1 DEF CollapseInv, TablesInv, PhaseInv
  <2>2. Len(script[o]) \in Nat /\ Len(script[o]) + 1 > 1 BY <2>1, ScriptFacts
  <2>3. CASE StartMerge \/ SkipBlock \/ NextProject \/ UNCHANGED vars
    BY <2>3 DEF StartMerge, SkipBlock, NextProject, vars
  <2>4. CASE MergeBlock BY <2>1, <2>4 DEF MergeBlock
  <2>5. CASE FinishMerge
    <3>1. EntryInv(cfg, o, i) /\ i > 1
      <4>1. pc = "blocks" /\ i > Len(script[o]) BY <2>5 DEF FinishMerge
      <4>2. i \in 1 .. Len(script[o]) + 1 /\ EntryInv(cfg, o, i)
        BY <1>1, <4>1 DEF CollapseInv, CurrentInv
      <4> QED BY <2>2, <4>1, <4>2
    <3>2. cfg.terms[1] = o BY <3>1 DEF EntryInv, MergedInv
    <3>3. tab' = [tab EXCEPT ![cfg.terms[1]][cfg.terms[2]] =
                    CopyTerms(tab[cfg.terms[1]][cfg.terms[2]], terms)]
      BY <2>5 DEF FinishMerge, TermsTable
    <3> QED BY <2>1, <3>2, <3>3
  <2>6. CASE Postprocess
    <3>1. PICK key \in DOMAIN result[o] :
            \/ tab' = tab
            \/ \E w : tab' = [tab EXCEPT ![result[o][key].terms[1]]
                                          [result[o][key].terms[2]]["required"] = w]
      BY <2>6 DEF Postprocess
    <3>2. MergedInv(result[o][key], o, Len(script[o]) + 1) BY <1>1, <2>1, CollapsedEntry
    <3>3. result[o][key].terms[1] = o BY <2>2, <3>2 DEF MergedInv
    <3> QED BY <2>1, <3>1, <3>3
  <2> QED BY <1>1, <2>3, <2>4, <2>5, <2>6 DEF Next
<1>2. Spec => [][\A x \in Objs : tab'[x] # tab[x] => x = o]_vars
  BY <1>1, CollapseIsInvariant, PTL DEF Spec
<1> QED BY <1>2 DEF OwnTablesOnly
=============================================================================
