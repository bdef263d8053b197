------------------------------ MODULE Collapse ------------------------------
(***************************************************************************)
(* The flattening of the solution/project/block hierarchy into one object  *)
(* per configuration and platform: merge, collapse, the collapse loop of   *)
(* premake.bake.buildconfigs and premake.bake.postprocess in               *)
(* src/base/bake.lua.                                                      *)
(*                                                                         *)
(* Object 0 is the solution, objects 1 .. NumProjects its projects in list *)
(* order. Each block carries one field of each kind the merge treats       *)
(* differently: kind and targetname (strings), links (a list), files and     *)
(* excludes (path lists). A name is a sequence of tokens, so that the      *)
(* configuration key, a concatenation of two names, is modelled as one.    *)
(* What is easy to overlook in the code is kept: mergeobject copies the    *)
(* terms table of a block BY REFERENCE, so the configurations that end     *)
(* with the same block share, and overwrite, one table.                    *)
(***************************************************************************)
EXTENDS Keywords, Lists

CONSTANTS
  NumProjects,    \* projects in the solution
  Configs,        \* sln.configurations
  Platforms,      \* sln.platforms, possibly with Native
  Native,         \* the platform name "Native"
  NoSharedLibs,   \* platforms with the nosharedlibs flag
  StaticLib, SharedLib,
  Env,            \* the environment term
  Items,          \* what lists contain
  Scripts         \* the block lists of each object, as a script leaves them

Objs == 0 .. NumProjects

Strings == Values \cup {Nil}

\* A path is absolute until it is made relative to a project's location.
Path == [item : Items, abs : BOOLEAN]

Relative(p) == [p EXCEPT !.abs = FALSE]

\* The fields of one block of a script.
Block == [word : Strings, keywords : Seq(Keyword), kind : Strings, targetname : Strings,
          links : Seq(Items), files : Seq(Path), excludes : Seq(Path)]

ASSUME ScriptAssumption ==
  /\ NumProjects \in Nat
  /\ Configs \in Seq(Values) /\ Platforms \in Seq(Values)
  /\ {Native, StaticLib, SharedLib, Env, << >>} \subseteq Values
  /\ Scripts \subseteq [Objs -> Seq(Block)]
  /\ \A x \in Items : <<x>> # Nil
  \* solution() and project() open an unconditional block first
  /\ \A scr \in Scripts, x \in Objs : Len(scr[x]) > 0 /\ scr[x][1].keywords = << >>
  \* paths are absolute, but buildconfigs has adjusted those of the projects
  /\ \A scr \in Scripts, x \in Objs : \A n \in 1 .. Len(scr[x]) :
       \A p \in RangeOf(scr[x][n].files) \cup RangeOf(scr[x][n].excludes) :
         p.abs <=> x = 0

-----------------------------------------------------------------------------
(* The merges, in the order collapse() makes them *)

Job(c, p) == [config |-> c, platform |-> p]

Root == Job(<< >>, Native)

\* The platforms for which collapse() makes a merge after the Native one.
Extra == Filter(Platforms, Values \ {Native})

\* Native comes first for every configuration, then the other platforms.
PerConfig == Len(Extra) + 1

NumJobs == 1 + Len(Configs) * PerConfig

JobAt(j) ==
  IF j = 1 THEN Root
  ELSE LET c == Configs[(j - 2) \div PerConfig + 1]
           r == (j - 2) % PerConfig
       IN Job(c, IF r = 0 THEN Native ELSE Extra[r])

\* Mutant: the key leaves the platform out.
KeyNoPlatform(job) == job.config

\* merge(): "the configuration key is the merged configuration and platform names"
Key(job) == job.config \o (IF job.platform = Native THEN << >> ELSE job.platform)

Jobs == {JobAt(j) : j \in 1 .. NumJobs}

\* No two merges of an object write to the same key of its result. The code
\* concatenates the names of configuration and platform without a separator,
\* so a script can break this; what needs it says so.
KeysDistinct == \A m, n \in 1 .. NumJobs : Key(JobAt(m)) = Key(JobAt(n)) => m = n

-----------------------------------------------------------------------------
VARIABLES
  script,   \* the blocks of each object
  tab,      \* the terms table of each block, shared by reference
  pc,       \* "merge", "blocks", "post" or "done"
  o,        \* the object being collapsed
  j,        \* the merge being made for it
  i,        \* the block merge() looks at
  base,     \* collapse()'s terms
  terms,    \* the table passed to merge(): base or terms_local
  cfg,      \* merge()'s cfg
  result    \* the configurations of each object, by key

vars == <<script, tab, pc, o, j, i, base, terms, cfg, result>>

\* A list with the index that mergefield keeps in its keyed part.
EmptyList == [seq |-> << >>, keys |-> {}]

\* Mutant: the index is not looked at.
mergefieldNoIndex(dest, src) ==
  [seq |-> dest.seq \o src, keys |-> dest.keys \cup {src[n] : n \in 1 .. Len(src)}]

\* mergefield for a list: an item is added unless the index has it.
mergefield(dest, src) ==
  LET new(n) == /\ src[n] \notin dest.keys
                /\ \A m \in 1 .. n - 1 : src[m] # src[n]
      fresh == Filter([n \in 1 .. Len(src) |-> n], {n \in 1 .. Len(src) : new(n)})
  IN [seq  |-> dest.seq \o [n \in 1 .. Len(fresh) |-> src[fresh[n]]],
      keys |-> dest.keys \cup {src[n] : n \in 1 .. Len(src)}]

Overwrite(dest, src) == IF src = Nil THEN dest ELSE src

\* mergeobject(cfg, blk): strings overwrite, lists merge, and terms, which is
\* not a field of the API, is copied as it is: a reference.
mergeobject(c, b, id) ==
  [c EXCEPT !.kind = Overwrite(@, b.kind), !.targetname = Overwrite(@, b.targetname),
            !.links = mergefield(@, b.links), !.files = mergefield(@, b.files),
            !.excludes = mergefield(@, b.excludes),
            !.terms = id, !.merged = @ \cup {id}]

EmptyCfg == [kind |-> Nil, targetname |-> Nil, links |-> EmptyList, files |-> EmptyList,
             excludes |-> EmptyList, terms |-> << >>, merged |-> {},
             job |-> Root, posted |-> FALSE, fileconfigs |-> << >>]

\* adjustpaths: the paths become relative, the index keeps the old spelling.
adjustpathlist(l) == [l EXCEPT !.seq = [n \in DOMAIN @ |-> Relative(@[n])]]

\* The project's starting point: the solution's settings under the same key.
\* The lists are copied into new tables (so their index is rebuilt before the
\* paths are adjusted); terms is still a reference.
FromBasis(c) ==
  [c EXCEPT !.files = adjustpathlist(@), !.excludes = adjustpathlist(@),
            !.posted = FALSE]

NoTerms == [k \in TermKeys |-> Nil]

\* premake.getactiveterms
getactiveterms == [NoTerms EXCEPT !["env"] = Env]

Init ==
  /\ script \in Scripts
  /\ tab = [x \in Objs |-> [n \in 1 .. Len(script[x]) |->
              [NoTerms EXCEPT !["word"] = script[x][n].word]]]
  /\ pc = "merge"
  /\ o = 0 /\ j = 1 /\ i = 1
  /\ base = getactiveterms
  /\ terms = getactiveterms
  /\ cfg = EmptyCfg
  /\ result = [x \in Objs |-> << >>]

-----------------------------------------------------------------------------
(* merge() *)

\* Up to the block loop. The first merge of an object works on collapse()'s
\* own terms, the first merge of each configuration on a copy of it, and the
\* platform merges on whatever the merge before them left in that copy.
StartMerge ==
  LET job == JobAt(j)
      t0  == IF j > 1 /\ job.platform = Native THEN base ELSE terms
      c0  == IF o > 0 /\ Key(job) \in DOMAIN result[0]
               THEN FromBasis(result[0][Key(job)]) ELSE EmptyCfg
      t1  == [t0 EXCEPT !["config"] = job.config, !["platform"] = job.platform]
  IN /\ pc = "merge"
     /\ cfg' = [c0 EXCEPT !.job = job]
     /\ terms' = IF c0.kind # Nil THEN [t1 EXCEPT !["kind"] = c0.kind] ELSE t1
     /\ pc' = "blocks"
     /\ i' = 1
     /\ UNCHANGED <<script, tab, o, j, base, result>>

\* merge(): "if (cfg.kind and not cfg.terms.kind)". The table is the block's
\* own, which an earlier merge may have filled already.
KindTermMissing(c, table) == c.kind # Nil /\ table["kind"] = Nil

\* A block whose keywords match is merged, and may change the kind term that
\* the blocks after it are matched against.
MergeBlock ==
  LET b == script[o][i]
      c == mergeobject(cfg, b, <<o, i>>)
  IN /\ pc = "blocks" /\ i <= Len(script[o])
     /\ AllKeywords(b.keywords, terms)
     /\ cfg' = c
     /\ IF KindTermMissing(c, tab[o][i])
          THEN /\ tab' = [tab EXCEPT ![o][i]["kind"] = c.kind]
               /\ terms' = [terms EXCEPT !["kind"] = c.kind]
          ELSE UNCHANGED <<tab, terms>>
     /\ i' = i + 1
     /\ UNCHANGED <<script, pc, o, j, base, result>>

SkipBlock ==
  /\ pc = "blocks" /\ i <= Len(script[o])
  /\ ~AllKeywords(script[o][i].keywords, terms)
  /\ i' = i + 1
  /\ UNCHANGED <<script, tab, pc, o, j, base, terms, cfg, result>>

\* Collapsing moves on: to the next merge of the object, to its post-processing
\* or, for the solution, straight to the first project.
NextJob ==
  IF j < NumJobs THEN pc' = "merge" /\ j' = j + 1 /\ o' = o
  ELSE IF o = 0 THEN /\ pc' = IF NumProjects = 0 THEN "done" ELSE "merge"
                     /\ j' = 1
                     /\ o' = IF NumProjects = 0 THEN 0 ELSE 1
  ELSE pc' = "post" /\ j' = j /\ o' = o

\* The table cfg.terms refers to: that of the block merged last.
TermsTable(c) == c.terms

\* Mutant: a term that is already there stays.
CopyTermsOnce(dest, src) ==
  [k \in TermKeys |-> IF dest[k] # Nil THEN dest[k] ELSE src[k]]

\* "for k,v in pairs(terms) do cfg.terms[k] = v end"
CopyTerms(dest, src) ==
  [k \in TermKeys |-> IF src[k] # Nil THEN src[k] ELSE dest[k]]

\* The end of merge(): all terms are copied into the table cfg.terms refers to.
FinishMerge ==
  LET r == TermsTable(cfg) IN
  /\ pc = "blocks" /\ i > Len(script[o])
  /\ tab' = [tab EXCEPT ![r[1]][r[2]] = CopyTerms(@, terms)]
  /\ result' = [result EXCEPT ![o] =
                  [k \in DOMAIN @ \cup {Key(cfg.job)} |->
                     IF k = Key(cfg.job) THEN cfg ELSE @[k]]]
  /\ NextJob
  /\ base' = IF j = NumJobs THEN getactiveterms ELSE IF j = 1 THEN terms ELSE base
  /\ terms' = IF j = NumJobs THEN getactiveterms ELSE terms
  /\ UNCHANGED <<script, i, cfg>>

-----------------------------------------------------------------------------
(* postprocess() *)

\* Mutant: only the first exclude is looked at.
FirstExcludeOnly(c) ==
  SelectSeq(c.files.seq, LAMBDA f : c.excludes.seq = << >> \/ f # c.excludes.seq[1])

\* "remove excluded files from the file list"
KeptFiles(c) == Filter(c.files.seq, Path \ RangeOf(c.excludes.seq))

\* The blocks that become part of the configuration of file f, for some order
\* in which pairs() visits the terms. They are matched against the table that
\* cfg.terms refers to as it is now, not as it was when cfg was merged.
FileBlocks(f, table) ==
  LET t   == [table EXCEPT !["required"] = <<f.item>>]
      kw(n) == script[o][n].keywords
      may == {n \in 1 .. Len(script[o]) : MayMatch(kw(n), t)}
      must == {n \in 1 .. Len(script[o]) : MustMatch(kw(n), t)}
  IN {must \cup extra : extra \in SUBSET (may \ must)}

\* One configuration of the project, in any order (pairs).
Postprocess ==
  \E key \in DOMAIN result[o] :
    LET c     == result[o][key]
        files == KeptFiles(c)
        last  == Len(files)
        table == tab[c.terms[1]][c.terms[2]]
    IN /\ pc = "post" /\ ~c.posted
       /\ \E fc \in [RangeOf(files) -> UNION {FileBlocks(f, table) : f \in RangeOf(files)}] :
            /\ \A f \in RangeOf(files) : fc[f] \in FileBlocks(f, table)
            /\ result' = [result EXCEPT ![o][key] =
                 [c EXCEPT !.kind = IF @ = SharedLib /\ c.job.platform \in NoSharedLibs
                                      THEN StaticLib ELSE @,
                           !.files.seq = files, !.posted = TRUE, !.fileconfigs = fc]]
       /\ tab' = IF last = 0 THEN tab
                 ELSE [tab EXCEPT ![c.terms[1]][c.terms[2]]["required"] =
                         <<files[last].item>>]
       /\ UNCHANGED <<script, pc, o, j, i, base, terms, cfg>>

\* The next project, or the end of the loop.
NextProject ==
  /\ pc = "post" /\ \A key \in DOMAIN result[o] : result[o][key].posted
  /\ IF o < NumProjects THEN pc' = "merge" /\ o' = o + 1 /\ j' = 1
                        ELSE pc' = "done" /\ UNCHANGED <<o, j>>
  /\ UNCHANGED <<script, tab, i, base, terms, cfg, result>>

Next == StartMerge \/ MergeBlock \/ SkipBlock \/ FinishMerge \/ Postprocess \/ NextProject

Spec == Init /\ [][Next]_vars
-----------------------------------------------------------------------------
(* Properties *)

\* A block whose keywords match none of the kinds that the script sets is
\* insensitive to the kind term.
KindFree(kws) ==
  \A n \in 1 .. Len(kws) : \A a \in 1 .. Len(kws[n].alts) :
    \A x \in Objs : \A m \in 1 .. Len(script[x]) :
      script[x][m].kind \notin kws[n].alts[a]

TermsOf(job) ==
  [getactiveterms EXCEPT !["config"] = job.config, !["platform"] = job.platform]

Collapsed(x) == x < o \/ (x = o /\ pc \in {"post", "done"})

\* merge(): "for all blocks that match the provided set of environment terms".
\* Once an object is collapsed, the entry of every configuration and platform
\* holds exactly the blocks that match that pair, whatever was merged before
\* it, as far as the blocks' keywords do not mention a kind.
MatchingBlocksMerged ==
  \A x \in Objs : Collapsed(x) =>
    \A job \in Jobs :
      /\ Key(job) \in DOMAIN result[x]
      /\ LET c == result[x][Key(job)] IN
         /\ c.job = job
         /\ \A n \in 1 .. Len(script[x]) : KindFree(script[x][n].keywords) =>
              (<<x, n>> \in c.merged
                 <=> AllKeywords(script[x][n].keywords, TermsOf(job)))

Before(a, b) == a[1] < b[1] \/ (a[1] = b[1] /\ a[2] < b[2])

\* mergefield: a list field holds every item of the merged blocks once, in the
\* order in which the solution's and then the project's blocks first name it.
Sources(c, x) == {id \in c.merged : x \in RangeOf(script[id[1]][id[2]].links)}

LinksInScriptOrder ==
  \A x \in Objs : Collapsed(x) => \A k \in DOMAIN result[x] :
    LET c == result[x][k] IN
    /\ \A y \in Items : (y \in RangeOf(c.links.seq)) <=> (Sources(c, y) # {})
    /\ \A m, n \in 1 .. Len(c.links.seq) : m < n =>
         /\ c.links.seq[m] # c.links.seq[n]
         /\ \E id \in Sources(c, c.links.seq[m]) :
              \A other \in Sources(c, c.links.seq[n]) : ~Before(other, id)

\* The kind a block is matched against, given the blocks merged before it.
KindBefore(c, x, n) ==
  LET setters == {id \in c.merged : /\ script[id[1]][id[2]].kind # Nil
                                    /\ Before(id, <<x, n>>)}
  IN IF setters = {} THEN Nil
     ELSE LET id == CHOOSE a \in setters : \A b \in setters : ~Before(a, b)
          IN script[id[1]][id[2]].kind

KindExact(x, job) ==
  LET c == result[x][Key(job)] IN
  \A n \in 1 .. Len(script[x]) :
    <<x, n>> \in c.merged
      <=> AllKeywords(script[x][n].keywords,
                      [TermsOf(job) EXCEPT !["kind"] = KindBefore(c, x, n)])

\* test_config_bug.lua: a block that names a kind applies to the configurations
\* of that kind, as "add `kind` to the filter terms" in merge() has it.
KindBlocksMerged ==
  \A x \in Objs : Collapsed(x) =>
    \A job \in Jobs : KindExact(x, job)

\* mergeobject shares terms tables: collapsing an object rewrites the tables of
\* its own blocks only, never those of the solution or of another project.
OwnTablesOnly ==
  [][\A x \in Objs : tab'[x] # tab[x] => x = o]_vars

\* iskeywordsmatch: "only blocks with a term that explictly matches the filename
\* get applied" to the configuration of a file.
FileBlocksNameFile ==
  \A x \in Objs : \A k \in DOMAIN result[x] : result[x][k].posted =>
    \A f \in DOMAIN result[x][k].fileconfigs :
      \A n \in result[x][k].fileconfigs[f] :
        \E m \in 1 .. Len(script[x][n].keywords) :
          LET kw == script[x][n].keywords[m] IN
          ~kw.neg /\ \E a \in 1 .. Len(kw.alts) : <<f.item>> \in kw.alts[a]

\* postprocess(): an excluded file never stays in a configuration, whether the
\* file and the exclude come from the solution or from the project.
ExcludedFilesGone ==
  \A x \in Objs : \A k \in DOMAIN result[x] : result[x][k].posted =>
    LET c == result[x][k]
        excluded == {p.item : p \in UNION {RangeOf(script[id[1]][id[2]].excludes)
                                             : id \in c.merged}}
        named == {p.item : p \in UNION {RangeOf(script[id[1]][id[2]].files)
                                          : id \in c.merged}}
    IN {f.item : f \in RangeOf(c.files.seq)} = named \ excluded

\* The configuration merged last among those that share c's terms table.
LastSharer(x, c) ==
  CHOOSE m \in 1 .. NumJobs :
    /\ result[x][Key(JobAt(m))].terms = c.terms
    /\ \A n \in m + 1 .. NumJobs : result[x][Key(JobAt(n))].terms # c.terms

\* postprocess() runs after all merges of the project, on tables that several
\* configurations share: the settings of a file are those of the configuration
\* merged last into the same table, which need not be the file's own one.
FileBlocksOfLastSharer ==
  \A x \in Objs : \A k \in DOMAIN result[x] : result[x][k].posted =>
    LET c == result[x][k]
        t == [TermsOf(JobAt(LastSharer(x, c))) EXCEPT
                !["word"] = tab[c.terms[1]][c.terms[2]]["word"]]
    IN \A f \in DOMAIN c.fileconfigs : \A n \in 1 .. Len(script[x]) :
         LET kws == script[x][n].keywords
             tf  == [t EXCEPT !["required"] = <<f.item>>]
         IN KindFree(kws) => /\ MustMatch(kws, tf) => n \in c.fileconfigs[f]
                             /\ n \in c.fileconfigs[f] => AllKeywords(kws, tf)

=============================================================================
