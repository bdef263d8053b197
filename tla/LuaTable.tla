------------------------------ MODULE LuaTable ------------------------------
(***************************************************************************)
(* Tables of the bundled interpreter (lua-5.1.4/src/ltable.c): an array    *)
(* part and a hash part of chained nodes, the search for free positions,   *)
(* the rehash that moves keys between the parts, traversal with next, the  *)
(* length operator, and the cache of absent tag methods (ltm.c).           *)
(* Every table of premake is one of these: sln.projects with its list and  *)
(* its name slots in one table, cfg fields walked by pairs while           *)
(* postprocess assigns to them, lists whose length is taken after erasing. *)
(***************************************************************************)
EXTENDS Integers, FiniteSets, FiniteSetsExt

CONSTANTS
  IntKeys,      \* numbers with an integral value
  Pow2Keys,     \* strings and booleans, hashed modulo a power of two
  ModKeys,      \* other numbers and pointers, hashed modulo an odd number
  Collectable,  \* the keys among them that are garbage-collected objects
  Events,       \* the strings that name tag methods
  NewIndex,     \* the event "__newindex"
  Hash,         \* the hash value of a key
  Vals,         \* what is stored
  Nil,          \* the value nil; also the key of a free node
  MAXBITS,      \* an array part has at most 2^MAXBITS slots
  MAX_INT,      \* where unbound_search gives up doubling
  InitSizes,    \* the sizes <<narray, nhash>> that a table may be made with
  MaxOps,       \* bound: assignments of one behaviour
  ListSizes     \* the list lengths of constructors

Keys == IntKeys \cup Pow2Keys \cup ModKeys

ASSUME KeyAssumption ==
  /\ IntKeys \subseteq Int /\ IntKeys \cap Pow2Keys = {}
  /\ Events \subseteq Pow2Keys /\ NewIndex \in Events
  /\ Collectable \subseteq Pow2Keys \cup ModKeys
  /\ Hash \in [Keys -> Nat]
  /\ Nil \notin Keys \cup Vals
  /\ MAXBITS \in Nat /\ MAX_INT \in Nat /\ MaxOps \in Nat
  /\ InitSizes \subseteq Nat \X Nat /\ ListSizes \subseteq Nat

VARIABLES
  t,        \* the table
  m,        \* history: what was stored under every key
  cur,      \* the key last returned by next; Nil when no traversal is under way
  todo,     \* history: the keys the traversal has still to visit
  ops       \* the number of assignments, at most MaxOps

vars == <<t, m, cur, todo, ops>>

NoNode == -1
MAXASIZE == 2 ^ MAXBITS
sizenode(tb) == 2 ^ tb.lsizenode

FreeNode == [key |-> Nil, val |-> Nil, next |-> NoNode, dead |-> FALSE]

\* Least i with 2^i >= x, for x > 0.
ceillog2(x) == Min({i \in 0 .. x : 2 ^ i >= x})

--------------------------------------------------------------------------------
(* Searching.                                                                  *)

hashpow2(tb, n) == n % sizenode(tb)

\* (n % ((sizenode - 1) | 1)): the low bit is set unless there is one node.
hashmod(tb, n) == n % (IF sizenode(tb) = 1 THEN 1 ELSE sizenode(tb) - 1)

hashnum(tb, k) == IF k = 0 THEN 0 ELSE hashmod(tb, Hash[k])

mainposition(tb, k) ==
  IF k \in IntKeys THEN hashnum(tb, k)
  ELSE IF k \in Pow2Keys THEN hashpow2(tb, Hash[k])
  ELSE hashmod(tb, Hash[k])

\* The first node of the chain from p on that is in S, or NoNode.
InChain(tb, p, S) ==
  LET walk[q \in -1 .. sizenode(tb) - 1] ==
        IF q = NoNode \/ q \in S THEN q ELSE walk[tb.node[q].next]
  IN walk[p]

Holding(tb, k)     == {q \in DOMAIN tb.node : tb.node[q].key = k}
LiveHolding(tb, k) == {q \in Holding(tb, k) : ~tb.node[q].dead}

arrayindex(k) == IF k \in IntKeys THEN k ELSE -1

InArray(tb, k) == 0 < arrayindex(k) /\ arrayindex(k) <= tb.sizearray

\* luaH_get, luaH_getnum and luaH_getstr find the same cell: a slot of the
\* array part, a node, or nothing.
luaH_get(tb, k) ==
  IF InArray(tb, k) THEN [part |-> "array", at |-> k]
  ELSE LET p == InChain(tb, mainposition(tb, k), LiveHolding(tb, k))
       IN [part |-> IF p = NoNode THEN "none" ELSE "hash", at |-> p]

Value(tb, cell) ==
  CASE cell.part = "array" -> tb.array[cell.at]
    [] cell.part = "hash"  -> tb.node[cell.at].val
    [] OTHER               -> Nil

GetValue(tb, k) == Value(tb, luaH_get(tb, k))

Assign(tb, cell, v) ==
  IF cell.part = "array" THEN [tb EXCEPT !.array[cell.at] = v]
                         ELSE [tb EXCEPT !.node[cell.at].val = v]

--------------------------------------------------------------------------------
(* Inserting.                                                                  *)

\* Searches downwards for a node that never held a key.
getfreepos(tb) ==
  LET free == {p \in 0 .. tb.lastfree - 1 : ~tb.dummy /\ tb.node[p].key = Nil}
  IN IF free = {} THEN NoNode ELSE Max(free)

\* newkey, up to the point where it must rehash. It returns the table and the
\* node that now holds the key, or NoNode when there is no free position. The
\* main position of k is mp, the free position n, and othern is the main
\* position of the key in mp.
PutKey(tb, k, p) ==
  [tb |-> [tb EXCEPT !.node[p] = [@ EXCEPT !.key = k, !.dead = FALSE]], at |-> p]

\* Mutant: the chain still leads to the old place of the moved node.
MoveUnlinked(tb, mp, n, othern) ==
  [tb EXCEPT !.lastfree = n,
             !.node = [tb.node EXCEPT ![n] = tb.node[mp],
                                      ![mp] = [tb.node[mp] EXCEPT !.next = NoNode, !.val = Nil]]]

\* Moves the node in mp, which is out of its main position, to n.
LeadingTo(tb, p) == {q \in DOMAIN tb.node : tb.node[q].next = p}

MoveColliding(tb, mp, n, othern) ==
  [tb EXCEPT !.lastfree = n,
             !.node = [tb.node EXCEPT ![InChain(tb, othern, LeadingTo(tb, mp))].next = n,
                                      ![n] = tb.node[mp],
                                      ![mp] = [tb.node[mp] EXCEPT !.next = NoNode, !.val = Nil]]]

ChainBehind(tb, mp, n) ==
  [tb EXCEPT !.lastfree = n,
             !.node = [tb.node EXCEPT ![n].next = tb.node[mp].next, ![mp].next = n]]

PlaceAt(tb, k, mp, n, othern) ==
  IF tb.node[mp].val = Nil /\ ~tb.dummy THEN PutKey(tb, k, mp)
  ELSE IF n = NoNode THEN [tb |-> tb, at |-> NoNode]
  ELSE IF othern # mp THEN PutKey(MoveColliding(tb, mp, n, othern), k, mp)
  ELSE PutKey(ChainBehind(tb, mp, n), k, n)

OtherPosition(tb, mp) == IF tb.node[mp].key = Nil THEN mp
                         ELSE mainposition(tb, tb.node[mp].key)

PlaceIn(tb, k, mp) == PlaceAt(tb, k, mp, getfreepos(tb), OtherPosition(tb, mp))

PlaceKey(tb, k) == PlaceIn(tb, k, mainposition(tb, k))

NewArray(size) == [i \in 1 .. size |-> Nil]

\* setnodevector: `table overflow' needs more than 2^MAXBITS nodes.
NodeVector(tb, none, lsize) ==
  [tb EXCEPT !.dummy = none,
             !.lsizenode = lsize,
             !.node = [p \in 0 .. 2 ^ lsize - 1 |-> FreeNode],
             !.lastfree = IF none THEN 0 ELSE 2 ^ lsize]

setnodevector(tb, size) ==
  NodeVector(tb, size = 0, IF size = 0 THEN 0 ELSE ceillog2(size))

setarrayvector(tb, size) ==
  [tb EXCEPT !.array = [i \in 1 .. size |->
                          IF i <= tb.sizearray THEN tb.array[i] ELSE Nil],
             !.sizearray = size]

\* Re-inserts one entry; the flag `full' records that no position was free,
\* where the code would rehash inside the rehash.
Store(r, v) ==
  IF r.at = NoNode THEN [r.tb EXCEPT !.full = TRUE]
                   ELSE [r.tb EXCEPT !.node[r.at].val = v]

ReinsertAt(tb, k, v, cell) ==
  IF cell.part # "none" THEN Assign(tb, cell, v) ELSE Store(PlaceKey(tb, k), v)

Reinsert(tb, k, v) == ReinsertAt(tb, k, v, luaH_get(tb, k))

\* The entries of a table in the order of re-insertion: the array slots, then
\* the nodes from the last to the first.
EntryNode(tb, i) == tb.node[tb.sizearray + sizenode(tb) - i]
EntryKey(tb, i)  == IF i <= tb.sizearray THEN i ELSE EntryNode(tb, i).key
EntryVal(tb, i)  == IF i <= tb.sizearray THEN tb.array[i] ELSE EntryNode(tb, i).val

\* luaH_setnum for a slot of the array part, luaH_set for a node.
Forgetting(tb, yes) == IF yes THEN [tb EXCEPT !.flags = {}] ELSE tb

\* Re-inserts the entries of the old table behind `from'.
ReinsertAll(new, tb, from) ==
  LET entry[i \in from .. tb.sizearray + sizenode(tb)] ==
        IF i = from THEN new
        ELSE IF EntryVal(tb, i) = Nil THEN entry[i - 1]
        ELSE Reinsert(Forgetting(entry[i - 1], i > tb.sizearray),
                      EntryKey(tb, i), EntryVal(tb, i))
  IN entry[tb.sizearray + sizenode(tb)]

resize(tb, nasize, nhsize) ==
  ReinsertAll(setnodevector(setarrayvector(tb, nasize), nhsize), tb,
              IF nasize < tb.sizearray THEN nasize ELSE tb.sizearray)

\* The integer keys in use that could live in an array part: numusearray,
\* numusehash and countint.
ArrayCandidates(tb, ek) ==
  {k \in 1 .. tb.sizearray : tb.array[k] # Nil}
  \cup {k \in IntKeys : /\ 0 < k /\ k <= MAXASIZE
                        /\ k = ek \/ \E p \in DOMAIN tb.node :
                                        tb.node[p].key = k /\ tb.node[p].val # Nil}

\* Mutant: the key that causes the rehash is not counted.
TotalUseWithoutKey(tb) ==
  Cardinality({k \in 1 .. tb.sizearray : tb.array[k] # Nil})
  + Cardinality({p \in DOMAIN tb.node : tb.node[p].val # Nil})

TotalUse(tb) ==
  Cardinality({k \in 1 .. tb.sizearray : tb.array[k] # Nil})
  + Cardinality({p \in DOMAIN tb.node : tb.node[p].val # Nil}) + 1

\* The largest power of two such that more than half of the slots up to it
\* are in use; 0 when there is none.
computesizes(ks) ==
  LET Below(i) == Cardinality({k \in ks : k <= 2 ^ i})
      fit == {i \in 0 .. MAXBITS : /\ 2 ^ i \div 2 < Cardinality(ks)
                                   /\ \E k \in ks : ceillog2(k) = i
                                   /\ Below(i) > 2 ^ i \div 2}
  IN IF fit = {} THEN [n |-> 0, na |-> 0]
     ELSE [n |-> 2 ^ Max(fit), na |-> Below(Max(fit))]

rehash(tb, ek) ==
  LET Fit(sizes) == resize(tb, sizes.n, TotalUse(tb) - sizes.na)
  IN Fit(computesizes(ArrayCandidates(tb, ek)))

\* The table after the cell of k was made, and that cell.
Hashed(r) == [tb   |-> IF r.at = NoNode THEN [r.tb EXCEPT !.full = TRUE] ELSE r.tb,
              cell |-> [part |-> "hash", at |-> r.at]]

CellAfterRehash(tb, k) ==
  LET Found(cell) == IF cell.part # "none" THEN [tb |-> tb, cell |-> cell]
                     ELSE Hashed(PlaceKey(tb, k))
  IN Found(luaH_get(tb, k))

newkey(tb, k) ==
  LET Placed(r) == IF r.at # NoNode THEN Hashed(r)
                   ELSE CellAfterRehash([rehash(tb, k) EXCEPT !.flags = {}], k)
  IN Placed(PlaceKey(tb, k))

luaH_setnum(tb, k) ==
  LET Found(cell) == IF cell.part # "none" THEN [tb |-> tb, cell |-> cell]
                     ELSE newkey(tb, k)
  IN Found(luaH_get(tb, k))

\* Mutant: known absences survive assignments.
SetKeepsFlags(tb, k) == luaH_setnum(tb, k)

\* luaH_set also forgets which tag methods are known to be absent.
luaH_set(tb, k) == luaH_setnum([tb EXCEPT !.flags = {}], k)

luaH_new(narray, nhash) ==
  setnodevector([array |-> NewArray(narray), sizearray |-> narray, lsizenode |-> 0,
                 node |-> << >>, lastfree |-> 0, dummy |-> TRUE, flags |-> {},
                 self |-> FALSE, full |-> FALSE], nhash)

--------------------------------------------------------------------------------
(* Tag methods.                                                                *)

\* fasttm: the cached absence, or a lookup that caches it. Returns the table;
\* the event is absent iff it is in its flags.
fasttm(tb, e) ==
  IF e \in tb.flags \/ GetValue(tb, e) # Nil THEN tb
  ELSE [tb EXCEPT !.flags = @ \cup {e}]

\* Another table, whose metatable this one is, asks for the tag method e.
AskEvent(e) ==
  /\ t' = fasttm(t, e)
  /\ UNCHANGED <<m, cur, todo, ops>>

\* setmetatable(t, t): the table becomes its own metatable.
OwnMetatable ==
  /\ ~t.self
  /\ cur = Nil
  /\ t' = [t EXCEPT !.self = TRUE]
  /\ UNCHANGED <<m, cur, todo, ops>>

--------------------------------------------------------------------------------
(* Operations of scripts.                                                      *)

\* A key may be assigned at any time, a new one only outside of traversals.
MayAssign(k) == ops < MaxOps /\ (cur # Nil => GetValue(t, k) # Nil)

Stored(k, v) ==
  /\ m' = [m EXCEPT ![k] = v]
  /\ todo' = IF v = Nil THEN todo \ {k} ELSE todo

\* lua_rawset and luaV_settable without a metatable.
RawSet(k, v) ==
  /\ MayAssign(k)
  /\ \E r \in {luaH_set(t, k)} : t' = Assign(r.tb, r.cell, v)
  /\ Stored(k, v)
  /\ ops' = ops + 1
  /\ UNCHANGED cur

\* lua_rawseti: the same for an integer, which leaves the flags alone.
RawSetI(k, v) ==
  /\ k \in IntKeys
  /\ MayAssign(k)
  /\ \E r \in {luaH_setnum(t, k)} : t' = Assign(r.tb, r.cell, v)
  /\ Stored(k, v)
  /\ ops' = ops + 1
  /\ UNCHANGED cur

\* luaV_settable on a table that is its own metatable: the cell is made first,
\* then the tag method is looked up, and without one the value is stored. With
\* a tag method the call goes there and the new cell stays Nil.
SetTable(k, v) ==
  /\ t.self
  /\ MayAssign(k)
  /\ \E r \in {luaH_set(t, k)} :
       \E asked \in {IF Value(r.tb, r.cell) # Nil THEN r.tb ELSE fasttm(r.tb, NewIndex)} :
         IF Value(r.tb, r.cell) # Nil \/ NewIndex \in asked.flags
         THEN t' = Assign(asked, r.cell, v) /\ Stored(k, v)
         ELSE t' = asked /\ UNCHANGED <<m, todo>>
  /\ ops' = ops + 1
  /\ UNCHANGED cur

\* A constructor with a list (OP_SETLIST) makes room for n elements.
luaH_resizearray(n) ==
  /\ cur = Nil
  /\ n > t.sizearray
  /\ t' = resize(t, n, IF t.dummy THEN 0 ELSE sizenode(t))
  /\ UNCHANGED <<m, cur, todo, ops>>

\* The collector marks the key of an erased entry as dead.
RemoveEntry(p) ==
  /\ p \in DOMAIN t.node
  /\ t.node[p].val = Nil /\ ~t.node[p].dead
  /\ t.node[p].key \in Collectable
  /\ t' = [t EXCEPT !.node[p].dead = TRUE]
  /\ UNCHANGED <<m, cur, todo, ops>>

--------------------------------------------------------------------------------
(* Traversal.                                                                  *)

\* Mutant: a dead key is not found.
FindLiveIndex(tb, k) ==
  IF k = Nil THEN -1
  ELSE IF InArray(tb, k) THEN k - 1
  ELSE LET p == InChain(tb, mainposition(tb, k), LiveHolding(tb, k))
       IN IF p = NoNode THEN -2 ELSE p + tb.sizearray

\* The number of a key in traversals: -1 before the first, array slots from 0,
\* nodes after them. Dead keys may still be passed to next. -2 is an error.
findindex(tb, k) ==
  IF k = Nil THEN -1
  ELSE IF InArray(tb, k) THEN k - 1
  ELSE LET p == InChain(tb, mainposition(tb, k), Holding(tb, k))
       IN IF p = NoNode THEN -2 ELSE p + tb.sizearray

KeyAt(tb, i) == IF i < tb.sizearray THEN i + 1 ELSE tb.node[i - tb.sizearray].key
ValAt(tb, i) == IF i < tb.sizearray THEN tb.array[i + 1]
                                    ELSE tb.node[i - tb.sizearray].val

\* The key that next(t, k) returns; Nil at the end.
luaH_next(tb, k) ==
  LET rest == {i \in findindex(tb, k) + 1 .. tb.sizearray + sizenode(tb) - 1 :
                 ValAt(tb, i) # Nil}
  IN IF rest = {} THEN Nil ELSE KeyAt(tb, Min(rest))

Present == {k \in Keys : GetValue(t, k) # Nil}

\* One step of a traversal. `todo' starts as the keys that are present.
NextKey ==
  /\ findindex(t, cur) # -2
  /\ cur' = luaH_next(t, cur)
  /\ todo' = (IF cur = Nil THEN Present ELSE todo) \ {cur'}
  /\ UNCHANGED <<t, m, ops>>

--------------------------------------------------------------------------------
(* Length.                                                                     *)

\* A key that no script uses is absent.
luaH_getnum(tb, i) ==
  IF i \in 1 .. tb.sizearray THEN tb.array[i]
  ELSE IF i \in IntKeys THEN GetValue(tb, i) ELSE Nil

\* Halves the interval between a present index i (or 0) and an absent index j.
Bisect(tb, lo, hi) ==
  LET b[s \in (lo .. hi) \X (lo .. hi)] ==
        LET mid == (s[1] + s[2]) \div 2
        IN IF s[2] - s[1] <= 1 THEN s[1]
           ELSE IF luaH_getnum(tb, mid) = Nil THEN b[<<s[1], mid>>] ELSE b[<<mid, s[2]>>]
  IN b[<<lo, hi>>]

\* From an index i that is present, or n, doubles the next index while that is
\* present too; past MAX_INT it counts upwards from 1.
unbound_search(tb, n) ==
  LET linear[i \in Nat] ==
        IF luaH_getnum(tb, i) = Nil THEN i - 1 ELSE linear[i + 1]
      double[i \in Nat \ 0 .. n - 1] ==
        LET j == IF i = n THEN n + 1 ELSE 2 * i
        IN IF luaH_getnum(tb, j) = Nil THEN Bisect(tb, i, j)
           ELSE IF 2 * j > MAX_INT THEN linear[1] ELSE double[j]
  IN double[n]

\* Mutant: a full array part is taken for the whole list.
GetnArrayOnly(tb) ==
  IF tb.sizearray > 0 /\ tb.array[tb.sizearray] = Nil
  THEN Bisect(tb, 0, tb.sizearray) ELSE tb.sizearray

luaH_getn(tb) ==
  IF tb.sizearray > 0 /\ tb.array[tb.sizearray] = Nil
  THEN Bisect(tb, 0, tb.sizearray)
  ELSE IF tb.dummy THEN tb.sizearray
  ELSE unbound_search(tb, tb.sizearray)

--------------------------------------------------------------------------------
Init ==
  /\ t \in {luaH_new(s[1], s[2]) : s \in InitSizes}
  /\ m = [k \in Keys |-> Nil]
  /\ cur = Nil
  /\ todo = {}
  /\ ops = 0

Next ==
  \/ \E k \in Keys, v \in Vals \cup {Nil} :
       RawSet(k, v) \/ RawSetI(k, v) \/ SetTable(k, v)
  \/ \E e \in Events : AskEvent(e)
  \/ \E n \in ListSizes : luaH_resizearray(n)
  \/ \E p \in 0 .. MAXASIZE - 1 : RemoveEntry(p)
  \/ OwnMetatable
  \/ NextKey

Spec == Init /\ [][Next]_vars

--------------------------------------------------------------------------------
(* Properties.                                                                 *)

\* The main invariant stated at ltable.c:15: an element out of its main
\* position is there because the element in that position is in its own.
\* And a rehash makes room for everything it re-inserts and for the key that
\* caused it, so newkey never rehashes twice: its recursion ends.
KeysPlaced ==
  /\ \A p \in DOMAIN t.node :
       LET mp == mainposition(t, t.node[p].key)
       IN t.node[p].val # Nil /\ t.node[mp].val # Nil =>
            mainposition(t, t.node[mp].key) = mp
  /\ ~t.full

\* The length operator returns a border, whatever holes the list has and in
\* whichever part its elements live: t[n] is present, or n is 0, and t[n+1] is
\* absent.
LengthIsBorder ==
  LET n == luaH_getn(t)
  IN (n = 0 \/ luaH_getnum(t, n) # Nil) /\ luaH_getnum(t, n + 1) = Nil

\* A tag method that is cached as absent is absent (lobject.h: "1<<p means
\* tagmethod(p) is not present"), except __newindex in a table that is its own
\* metatable: luaV_settable clears the cache, asks, and then stores.
CacheHonest ==
  \A e \in t.flags : GetValue(t, e) = Nil \/ (t.self /\ e = NewIndex)

\* Every key has the value that was last stored under it, however often the
\* table was rehashed and the entries were moved between its parts since.
LookupsAgree == \A k \in Keys : GetValue(t, k) = m[k]

\* A traversal whose key can no longer be found would have ended.
Walking == cur # Nil /\ findindex(t, cur) # -2

\* The history m stands for the map: by LookupsAgree it is what lookups find.
M == INSTANCE LuaMap WITH map <- m, walking <- Walking

\* The table implements the abstract map: growing, moving and collecting keys
\* are invisible, and a traversal during which keys are erased and collected
\* visits each remaining key once and finds its way to the end.
TableIsMap == M!Spec
=============================================================================
