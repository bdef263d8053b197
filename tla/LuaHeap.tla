------------------------------- MODULE LuaHeap -------------------------------
(***************************************************************************)
(* The incremental collector of the bundled interpreter (lgc.c, lgc.h),    *)
(* with the operations of the program that run between its steps: creating *)
(* objects (lstring.c, lfunc.c, lstate.c), stack moves, assignments with   *)
(* their write barriers, open upvalues, finalizers and closing the state.  *)
(* One singlestep of the collector is one action, except that the atomic   *)
(* phase is several steps during which the program stands still. A script  *)
(* never sees any of this as long as no object it can reach is freed.      *)
(***************************************************************************)
EXTENDS Integers, FiniteSets

CONSTANTS
  Strings, Udata, Tables, Functions, UpVals, Threads,  \* the objects, by type
  Main,         \* the main thread
  Globals,      \* the global table
  Slots,        \* the stack slots of a thread, 1 .. n
  WeakK, WeakV, \* the tables with weak keys and with weak values
  HasGC,        \* the userdata whose metatable has a finalizer
  Nil,          \* nothing: an empty slot, or a key that is no object
  Pick(_),      \* the objects of a list the collector may take next
  Heaps,        \* the heaps at the start, see Init
  MaxOps        \* bound: operations of the program

Objs == Strings \cup Udata \cup Tables \cup Functions \cup UpVals \cup Threads

Vals == (Objs \ UpVals) \cup {Nil}

\* The heaps a program can start from: typed, and without dangling references.
\* Upvalues are no values, and what is not allocated yet is empty.
IsHeap(h) ==
  /\ {Main, Globals} \subseteq h.live /\ h.live \subseteq Objs
  /\ h.ref \in [Objs -> SUBSET Objs]
  /\ \A o \in Objs :
       /\ o \in Strings \cup Tables \cup Threads => h.ref[o] = {}
       /\ o \in Udata => h.ref[o] \subseteq Tables
       /\ o \in Functions => h.ref[o] \subseteq Tables \cup UpVals
       /\ o \in UpVals => h.ref[o] \cap UpVals = {}
       /\ o \in h.live => h.ref[o] \subseteq h.live
  /\ h.entry \in [Tables -> SUBSET (Vals \X Vals)]
  /\ \A t \in Tables : \A p \in h.entry[t] :
       t \in h.live /\ {p[1], p[2]} \subseteq h.live \cup {Nil}
  /\ h.slot \in [Threads -> [Slots -> Vals]]
  /\ \A th \in Threads, i \in Slots :
       h.slot[th][i] # Nil => {th, h.slot[th][i]} \subseteq h.live
  /\ h.open \in [UpVals -> (Threads \X Slots) \cup {Nil}]
  /\ \A u \in h.live \cap UpVals : h.open[u] # Nil => h.open[u][1] \in h.live

\* Every object has one type.
ASSUME HeapAssumption ==
  /\ IsFiniteSet(Objs)
  /\ Strings \cap (Udata \cup Tables \cup Functions \cup UpVals \cup Threads) = {}
  /\ Udata \cap (Tables \cup Functions \cup UpVals \cup Threads) = {}
  /\ Tables \cap (Functions \cup UpVals \cup Threads) = {}
  /\ Functions \cap (UpVals \cup Threads) = {}
  /\ UpVals \cap Threads = {}
  /\ Main \in Threads /\ Globals \in Tables \ (WeakK \cup WeakV)
  /\ WeakK \cup WeakV \subseteq Tables
  /\ HasGC \subseteq Udata
  /\ Slots \subseteq Nat \ {0}
  /\ Nil \notin Objs \cup (Threads \X Slots)
  /\ \A S \in SUBSET Objs : Pick(S) \subseteq S /\ (S # {} => Pick(S) # {})
  /\ MaxOps \in Nat
  /\ \A h \in Heaps : IsHeap(h)

VARIABLES
  live,       \* the allocated objects
  ref,        \* upvalues of a function, value of a closed upvalue, environment
              \* of a userdata
  entry,      \* the pairs <<key, value>> of a table
  slot,       \* the stacks
  open,       \* the stack slot <<thread, i>> of an open upvalue, or Nil
  color,      \* "white0", "white1", "gray" or "black"
  white,      \* currentwhite
  gcstate,    \* the phase of the collector
  gray, grayagain, weak,   \* the collector's lists
  sweep,      \* what the sweep has not passed yet
  finalized,  \* the userdata with FINALIZEDBIT
  tmudata,    \* the userdata whose finalizers are to be called
  called,     \* history: how often each finalizer was called
  full,       \* the part of luaC_fullgc under way: 0 none, 1 sweep, 2 cycle
  garbage,    \* history: what was unreachable when the cycle began and still is
  ops         \* the number of operations so far

heap   == <<live, ref, entry, slot, open>>
marks  == <<color, white, gray, grayagain, weak, sweep>>
finals == <<finalized, tmudata, called>>
vars   == <<heap, marks, gcstate, finals, full, garbage, ops>>

Atomic == {"atomic1", "atomic2", "atomic3", "atomic4"}

luaC_white == white
otherwhite == IF white = "white0" THEN "white1" ELSE "white0"
iswhite(o) == color[o] \in {"white0", "white1"}
isdead(o)  == color[o] = otherwhite /\ o # Main

--------------------------------------------------------------------------------
(* What objects refer to.                                                      *)

Held(th) == {slot[th][i] : i \in Slots} \ {Nil}

UpValue(u) == IF open[u] = Nil THEN ref[u] ELSE {slot[open[u][1]][open[u][2]]} \ {Nil}

Entries(t) == {p[1] : p \in IF t \in WeakK THEN {} ELSE entry[t]}
              \cup {p[2] : p \in IF t \in WeakV THEN {} ELSE entry[t]}

AllEntries(t) == ({p[1] : p \in entry[t]} \cup {p[2] : p \in entry[t]}) \ {Nil}

\* What the collector marks from an object. Every thread shares the globals.
Kids(o) ==
  IF o \in Tables THEN Entries(o) \ {Nil}
  ELSE IF o \in Threads THEN Held(o) \cup {Globals}
  ELSE IF o \in UpVals THEN UpValue(o)
  ELSE ref[o]

\* What an object keeps alive: strings are never weak.
Keeps(o) == Kids(o) \cup IF o \in Tables THEN AllEntries(o) \cap Strings ELSE {}

\* The objects that can be reached from S, following what is new in each round.
ReachFrom(S) ==
  LET round[n \in 0 .. Cardinality(Objs)] ==
        IF n = 0 THEN <<{}, S>>
        ELSE CHOOSE r \in {<<b[1] \cup b[2], (UNION {Keeps(o) : o \in b[2]}) \ (b[1] \cup b[2])>> :
                            b \in {round[n - 1]}} : TRUE
  IN round[Cardinality(Objs)][1]

Reachable == ReachFrom({Main})

--------------------------------------------------------------------------------
(* Marking.                                                                    *)

\* The white objects that reallymarkobject colours when it is called for the
\* white objects of S: upvalues and userdata pass the mark on at once.
Marked(S) ==
  LET Whites(T)  == {o \in T : iswhite(o)}
      Through(T, Kind) == T \cup Whites(UNION {Kids(o) : o \in T \cap Kind})
  IN Through(Through(Whites(S), UpVals), Udata)

\* Userdata and closed upvalues turn black, other objects gray; those that
\* have to be traversed go to the gray list.
reallymarkobject(S) ==
  \E new \in {Marked(S)} :
    /\ color' = [o \in Objs |->
         IF o \notin new THEN color[o]
         ELSE IF o \in Udata \/ (o \in UpVals /\ open[o] = Nil) THEN "black"
         ELSE "gray"]
    /\ gray' = gray \cup (new \cap (Tables \cup Functions \cup Threads))

\* Starts a cycle. What cannot be reached now is the garbage of this cycle.
markroot ==
  /\ \E new \in {{Main, Globals}} :
       /\ color' = [o \in Objs |-> IF o \in new /\ iswhite(o) THEN "gray" ELSE color[o]]
       /\ gray' = {o \in new : iswhite(o)}
  /\ grayagain' = {} /\ weak' = {}
  /\ gcstate' = "propagate"
  /\ garbage' = live \ ReachFrom({Main} \cup tmudata)

\* Traverses one gray object: a table with weak references stays gray and goes
\* to the weak list, a thread stays gray and will be traversed again.
propagatemark ==
  /\ gcstate \in {"propagate"} \cup Atomic
  /\ \E o \in Pick(gray) : \E new \in {Marked(Kids(o))} :
       /\ color' = [x \in Objs |->
            IF x = o THEN IF o \in Threads \cup WeakK \cup WeakV THEN "gray" ELSE "black"
            ELSE IF x \notin new THEN color[x]
            ELSE IF x \in Udata \/ (x \in UpVals /\ open[x] = Nil) THEN "black"
            ELSE "gray"]
       /\ gray' = (gray \ {o}) \cup (new \cap (Tables \cup Functions \cup Threads))
       /\ grayagain' = IF o \in Threads THEN grayagain \cup {o} ELSE grayagain
       /\ weak' = IF o \in WeakK \cup WeakV THEN weak \cup {o} ELSE weak
  /\ UNCHANGED <<heap, white, sweep, gcstate, finals, full, garbage, ops>>

--------------------------------------------------------------------------------
(* The atomic phase.                                                           *)

\* Marks the values of open upvalues whose thread may be dead.
remarkupvals ==
  /\ gcstate = "propagate" /\ gray = {}
  /\ reallymarkobject(UNION {UpValue(u) : u \in {v \in live \cap UpVals :
                                                   open[v] # Nil /\ color[v] = "gray"}})
  /\ gcstate' = "atomic1"
  /\ UNCHANGED <<heap, white, grayagain, weak, sweep, finals, full, garbage, ops>>

RemarkWeak ==
  /\ gcstate = "atomic1" /\ gray = {}
  /\ gray' = weak /\ weak' = {}
  /\ gcstate' = "atomic2"
  /\ UNCHANGED <<heap, color, white, grayagain, sweep, finals, full, garbage, ops>>

RemarkGrayAgain ==
  /\ gcstate = "atomic2" /\ gray = {}
  /\ gray' = grayagain /\ grayagain' = {}
  /\ gcstate' = "atomic3"
  /\ UNCHANGED <<heap, color, white, weak, sweep, finals, full, garbage, ops>>

\* luaC_separateudata and marktmu: dead userdata with a finalizer are moved to
\* the list of those to be finalized, and that list is marked again.
NeedFinalizing(S) == {u \in S \cap live : u \in HasGC /\ u \notin finalized}

\* Mutant: FINALIZEDBIT is only set for userdata that need no finalizing.
SeparateUnmarked ==
  /\ gcstate = "atomic3" /\ gray = {}
  /\ \E dead \in {{u \in Udata \cap live : iswhite(u)}} :
       /\ tmudata' = tmudata \cup NeedFinalizing(dead)
       /\ finalized' = finalized \cup (dead \ HasGC)
  /\ \E new \in {Marked(UNION {ref[u] : u \in tmudata'})} :
       /\ color' = [o \in Objs |->
            IF o \in tmudata' THEN "black" ELSE IF o \in new THEN "gray" ELSE color[o]]
       /\ gray' = new
  /\ garbage' = garbage \ ReachFrom(tmudata')
  /\ gcstate' = "atomic4"
  /\ UNCHANGED <<heap, white, grayagain, weak, sweep, called, full, ops>>

SeparateUdata ==
  /\ gcstate = "atomic3" /\ gray = {}
  /\ \E dead \in {{u \in Udata \cap live : iswhite(u)}} :
       /\ tmudata' = tmudata \cup NeedFinalizing(dead)
       /\ finalized' = finalized \cup dead
  /\ \E new \in {Marked(UNION {ref[u] : u \in tmudata'})} :
       /\ color' = [o \in Objs |->
            IF o \in tmudata' THEN "black" ELSE IF o \in new THEN "gray" ELSE color[o]]
       /\ gray' = new
  /\ garbage' = garbage \ ReachFrom(tmudata')
  /\ gcstate' = "atomic4"
  /\ UNCHANGED <<heap, white, grayagain, weak, sweep, called, full, ops>>

\* A white object is cleared from a weak table, and so is a finalized userdata
\* that is a value. Strings are kept and marked. Pairs without a key object are
\* in the array part, which is only looked at when the values are weak.
iscleared(o, iskey) ==
  /\ o \in Objs \ Strings
  /\ iswhite(o) \/ (o \in Udata /\ ~iskey /\ o \in finalized)

cleartable(t) ==
  {p \in entry[t] : \/ p[1] = Nil /\ t \notin WeakV
                    \/ ~iscleared(p[1], TRUE) /\ ~iscleared(p[2], FALSE)}

\* The strings that iscleared meets while cleartable evaluates its condition.
StringsMet(t) ==
  {p[1] : p \in entry[t]} \cup {p[2] : p \in {q \in entry[t] : ~iscleared(q[1], TRUE)}}

\* Mutant: the current white is not flipped.
FinishWithoutFlip ==
  /\ gcstate = "atomic4" /\ gray = {}
  /\ entry' = [t \in Tables |-> IF t \in weak THEN cleartable(t) ELSE entry[t]]
  /\ sweep' = {o \in live : o \notin UpVals \/ open[o] = Nil}
  /\ gcstate' = "sweepstring"
  /\ UNCHANGED <<live, ref, slot, open, color, white, gray, grayagain, weak, finals, full, garbage, ops>>

\* Clears the weak tables, flips the current white and starts the sweep.
FinishAtomic ==
  /\ gcstate = "atomic4" /\ gray = {}
  /\ entry' = [t \in Tables |-> IF t \in weak THEN cleartable(t) ELSE entry[t]]
  /\ color' = [o \in Objs |->
       IF o \in Strings /\ iswhite(o) /\ \E t \in weak : o \in StringsMet(t)
       THEN "gray" ELSE color[o]]
  /\ white' = otherwhite
  /\ sweep' = {o \in live : o \notin UpVals \/ open[o] = Nil}
  /\ gcstate' = "sweepstring"
  /\ UNCHANGED <<live, ref, slot, open, gray, grayagain, weak, finals, full, garbage, ops>>

--------------------------------------------------------------------------------
(* Sweeping and finalizing.                                                    *)

Opened(th) == {u \in live \cap UpVals : open[u] # Nil /\ open[u][1] = th}

\* What the sweep frees when it comes to o: o itself when it is dead, and of a
\* thread the dead open upvalues.
Swept(o) ==
  {x \in {o} \cup (IF o \in Threads THEN Opened(o) ELSE {}) : isdead(x)}

\* freeobj. The upvalues that survive a freed thread are closed.
Free(S) ==
  /\ live' = live \ S
  /\ ref' = [o \in DOMAIN ref |->
       IF o \in S THEN {}
       ELSE IF o \in UpVals /\ open[o] # Nil /\ open[o][1] \in S THEN UpValue(o)
       ELSE ref[o]]
  /\ entry' = [t \in Tables |-> IF t \in S THEN {} ELSE entry[t]]
  /\ open' = [u \in UpVals |->
       IF u \in S \/ (open[u] # Nil /\ open[u][1] \in S) THEN Nil ELSE open[u]]
  /\ slot' = [th \in Threads |-> IF th \in S THEN [i \in Slots |-> Nil] ELSE slot[th]]
  /\ finalized' = finalized \ S

\* One turn of sweeplist; strings are swept in a phase of their own.
sweeplist ==
  /\ gcstate \in {"sweepstring", "sweep"}
  /\ \E o \in Pick(IF gcstate = "sweep" THEN sweep ELSE sweep \cap Strings) :
       /\ Free(Swept(o))
       /\ color' = [x \in Objs |->
            IF x \in ({o} \cup (IF o \in Threads THEN Opened(o) ELSE {})) \ Swept(o)
            THEN luaC_white ELSE color[x]]
       /\ sweep' = sweep \ {o}
  /\ UNCHANGED <<white, gray, grayagain, weak, gcstate, tmudata, called, full, garbage, ops>>

EndSweepString ==
  /\ gcstate = "sweepstring" /\ sweep \cap Strings = {}
  /\ gcstate' = "sweep"
  /\ UNCHANGED <<heap, marks, finals, full, garbage, ops>>

\* Mutant: a full collection never gets past its first part.
EndSweepAgain ==
  /\ gcstate = "sweep" /\ sweep = {}
  /\ IF full = 1
     THEN markroot /\ UNCHANGED <<white, sweep, full>>
     ELSE gcstate' = "finalize" /\ UNCHANGED <<marks, full, garbage>>
  /\ UNCHANGED <<heap, finals, ops>>

\* In the first part of a full collection a new cycle starts here.
EndSweep ==
  /\ gcstate = "sweep" /\ sweep = {}
  /\ IF full = 1
     THEN markroot /\ full' = 2 /\ UNCHANGED <<white, sweep>>
     ELSE gcstate' = "finalize" /\ UNCHANGED <<marks, full, garbage>>
  /\ UNCHANGED <<heap, finals, ops>>

\* Calls one finalizer. It may keep its argument, here in the main stack.
GCTM ==
  /\ gcstate \in {"finalize", "closing"}
  /\ \E u \in tmudata :
       /\ tmudata' = tmudata \ {u}
       /\ called' = [called EXCEPT ![u] = @ + 1]
       /\ color' = [color EXCEPT ![u] = luaC_white]
       /\ \/ slot' = slot
          \/ \E i \in Slots : slot[Main][i] = Nil /\ slot' = [slot EXCEPT ![Main][i] = u]
  /\ UNCHANGED <<live, ref, entry, open, white, gray, grayagain, weak, sweep, gcstate,
                 finalized, full, garbage, ops>>

EndFinalize ==
  /\ gcstate = "finalize" /\ tmudata = {}
  /\ gcstate' = "pause"
  /\ full' = 0
  /\ UNCHANGED <<heap, marks, finals, garbage, ops>>

StartCycle ==
  /\ gcstate = "pause"
  /\ markroot
  /\ UNCHANGED <<heap, white, sweep, finals, full, ops>>

singlestep ==
  \/ StartCycle \/ propagatemark \/ remarkupvals \/ RemarkWeak \/ RemarkGrayAgain
  \/ SeparateUdata \/ FinishAtomic \/ sweeplist \/ EndSweepString \/ EndSweep
  \/ GCTM \/ EndFinalize


--------------------------------------------------------------------------------
(* The operations of the program, which stands still while the collector is in *)
(* its atomic phase or a full collection is under way.                         *)

Running == ops < MaxOps /\ full = 0 /\ gcstate \notin Atomic \cup {"closing", "closed"}

\* The threads the program can be in, and what it can lay its hands on there.
Current == Threads \cap Reachable

Reads(o) ==
  IF o \in Tables THEN AllEntries(o)
  ELSE IF o \in Functions THEN (UNION {UpValue(u) : u \in ref[o] \cap UpVals}) \cup (ref[o] \cap Tables)
  ELSE IF o \in Threads THEN Held(o)
  ELSE ref[o]

\* The end of every operation: what it made reachable is no garbage.
Done ==
  /\ ops' = ops + 1
  /\ garbage' = garbage \ Reachable'

\* luaC_link: a new object has the current white. A new function or userdata
\* gets the global environment.
luaC_link(new) ==
  /\ live' = live \cup new
  /\ color' = [o \in Objs |-> IF o \in new THEN luaC_white ELSE color[o]]

\* A new table, userdata or thread.
NewObject(th, i) ==
  \E o \in (Tables \cup Udata \cup Threads) \ live :
    /\ luaC_link({o})
    /\ ref' = IF o \in Udata THEN [ref EXCEPT ![o] = {Globals}] ELSE ref
    /\ called' = IF o \in Udata THEN [called EXCEPT ![o] = 0] ELSE called
    /\ slot' = [slot EXCEPT ![th][i] = o]
    /\ UNCHANGED <<entry, open, gray, grayagain, weak, sweep, white, finalized, tmudata>>

\* Mutant: a dead string is used without making it white again.
InternKeepsDead(th, i) ==
  \E str \in Strings :
    /\ live' = live \cup {str}
    /\ color' = [color EXCEPT ![str] = IF str \in live THEN @ ELSE luaC_white]
    /\ slot' = [slot EXCEPT ![th][i] = str]
    /\ UNCHANGED <<ref, entry, open, gray, grayagain, weak, sweep, white, finals>>

\* A string that is in the string table is used again, even a dead one that the
\* sweep has not come to: it is made white again.
luaS_newlstr(th, i) ==
  \E str \in Strings :
    /\ live' = live \cup {str}
    /\ color' = [color EXCEPT ![str] = IF str \in live /\ ~isdead(str) THEN @ ELSE luaC_white]
    /\ slot' = [slot EXCEPT ![th][i] = str]
    /\ UNCHANGED <<ref, entry, open, gray, grayagain, weak, sweep, white, finals>>

\* The upvalue of a stack slot: the open one, made white again if it is dead, or
\* a new one.
luaF_findupval(th, j) ==
  LET found == {u \in Opened(th) : open[u] = <<th, j>>}
  IN IF found # {} THEN found ELSE UpVals \ live

\* A closure over slot j, or over an upvalue of a function in the stack.
NewClosure(th, i) ==
  \E f \in Functions \ live :
    /\ \/ \E j \in Slots : \E u \in luaF_findupval(th, j) :
            /\ live' = live \cup {f, u}
            /\ color' = [color EXCEPT ![f] = luaC_white,
                                     ![u] = IF u \in live /\ ~isdead(u) THEN @ ELSE luaC_white]
            /\ ref' = [ref EXCEPT ![f] = {Globals, u}]
            /\ open' = [open EXCEPT ![u] = <<th, j>>]
       \/ \E g \in Held(th) \cap Functions : \E u \in ref[g] \cap UpVals :
            /\ luaC_link({f})
            /\ ref' = [ref EXCEPT ![f] = {Globals, u}]
            /\ open' = open
    /\ slot' = [slot EXCEPT ![th][i] = f]
    /\ UNCHANGED <<entry, gray, grayagain, weak, sweep, white, finals>>

\* Loads, moves and pops: no barrier is needed for a stack.
MoveTo(th, i) ==
  \E v \in {Nil} \cup UNION {Reads(o) : o \in Held(th) \cup {Globals, th}} :
    /\ v # slot[th][i]
    /\ slot' = [slot EXCEPT ![th][i] = v]
    /\ UNCHANGED <<live, ref, entry, open, marks, finals>>

\* Mutant: no barrier.
NoBarrier(t, S) == UNCHANGED marks

\* luaC_barriert: a black table that gets a white key or value turns gray and
\* will be traversed again in the atomic phase.
luaC_barriert(t, S) ==
  IF color[t] = "black" /\ \E o \in S : iswhite(o)
  THEN /\ color' = [color EXCEPT ![t] = "gray"]
       /\ grayagain' = grayagain \cup {t}
       /\ UNCHANGED <<gray, weak, sweep, white>>
  ELSE UNCHANGED marks

\* An assignment to a table. Only a new key needs the barrier (newkey).
SetTable(th) ==
  \E t \in (Held(th) \cup {Globals}) \cap Tables, k \in Held(th) \cup {Nil}, v \in Held(th) \cup {Nil} :
    LET rest == {p \in entry[t] : p[1] # k} IN
    /\ t = Globals => k = Nil
    /\ <<k, v>> \notin entry[t]
    /\ entry' = [entry EXCEPT ![t] = IF v = Nil THEN rest ELSE rest \cup {<<k, v>>}]
    /\ v # Nil \/ rest # entry[t]
    /\ luaC_barriert(t, ({v} \cup IF rest = entry[t] THEN {k} ELSE {}) \ {Nil})
    /\ UNCHANGED <<live, ref, slot, open, finals>>

\* luaC_barrier: while marking, a white value of a black object is marked; later
\* the object itself is made white.
luaC_barrier(o, v) ==
  IF v = Nil \/ color[o] # "black" \/ ~iswhite(v) THEN UNCHANGED marks
  ELSE IF gcstate = "propagate"
  THEN reallymarkobject({v}) /\ UNCHANGED <<grayagain, weak, sweep, white>>
  ELSE color' = [color EXCEPT ![o] = luaC_white] /\ UNCHANGED <<gray, grayagain, weak, sweep, white>>

\* OP_SETUPVAL writes the stack slot of an open upvalue.
SetUpval(th) ==
  \E f \in Held(th) \cap Functions : \E u \in ref[f] \cap UpVals, v \in Held(th) \cup {Nil} :
    /\ UpValue(u) # {v} \ {Nil}
    /\ IF open[u] = Nil
       THEN /\ ref' = [ref EXCEPT ![u] = {v} \ {Nil}]
            /\ slot' = slot
       ELSE /\ slot' = [slot EXCEPT ![open[u][1]][open[u][2]] = v]
            /\ ref' = ref
    /\ luaC_barrier(u, v)
    /\ UNCHANGED <<live, entry, open, finals>>

\* lua_setfenv for a function or a userdata.
SetEnv(th) ==
  \E o \in Held(th) \cap (Functions \cup Udata), t \in Held(th) \cap Tables :
    /\ t \notin ref[o]
    /\ ref' = [ref EXCEPT ![o] = (@ \ Tables) \cup {t}]
    /\ luaC_barrier(o, t)
    /\ UNCHANGED <<live, entry, slot, open, finals>>

\* luaF_close and luaC_linkupval, when the slots from i on are left: dead
\* upvalues are freed, the others closed. One that is gray has been marked: while
\* marking it turns black with its value marked, while sweeping it turns white.
luaF_close(th, i) ==
  \E closed \in {{u \in Opened(th) : open[u][2] >= i}} :
    LET lost  == {u \in closed : isdead(u)}
        grays == {u \in closed : color[u] = "gray"}
    IN
    /\ live' = live \ lost
    /\ ref' = [o \in DOMAIN ref |->
         IF o \in lost THEN {} ELSE IF o \in closed THEN UpValue(o) ELSE ref[o]]
    /\ open' = [u \in UpVals |-> IF u \in closed THEN Nil ELSE open[u]]
    /\ slot' = [slot EXCEPT ![th] = [j \in Slots |-> IF j >= i THEN Nil ELSE @[j]]]
    /\ IF gcstate = "propagate"
       THEN \E new \in {Marked(UNION {UpValue(u) : u \in grays})} :
              /\ color' = [o \in Objs |->
                   IF o \in grays \/ (o \in new /\ o \in Udata \cup UpVals) THEN "black"
                   ELSE IF o \in new THEN "gray" ELSE color[o]]
              /\ gray' = gray \cup (new \cap (Tables \cup Functions \cup Threads))
       ELSE /\ color' = [o \in Objs |-> IF o \in grays THEN luaC_white ELSE color[o]]
            /\ gray' = gray
    /\ UNCHANGED <<entry, grayagain, weak, sweep, white>>

Return(th, i) ==
  /\ \E u \in Opened(th) : open[u][2] >= i
  /\ luaF_close(th, i)
  /\ UNCHANGED finals

Mutate ==
  /\ Running
  /\ \E th \in Current :
       \/ \E i \in Slots : \/ NewObject(th, i) \/ luaS_newlstr(th, i) \/ NewClosure(th, i)
                          \/ MoveTo(th, i) \/ Return(th, i)
       \/ SetTable(th) \/ SetUpval(th) \/ SetEnv(th)
  /\ Done
  /\ UNCHANGED <<gcstate, full>>

\* collectgarbage(): the cycle under way is given up while it is still marking,
\* a sweep is finished, and then there is a whole cycle.
luaC_fullgc ==
  /\ Running
  /\ IF gcstate = "finalize"
     THEN markroot /\ full' = 2 /\ UNCHANGED <<white, sweep>>
     ELSE /\ full' = 1
          /\ garbage' = {}
          /\ IF gcstate \in {"pause", "propagate"}
             THEN /\ gcstate' = "sweepstring"
                  /\ sweep' = {o \in live : o \notin UpVals \/ open[o] = Nil}
                  /\ gray' = {} /\ grayagain' = {} /\ weak' = {}
                  /\ UNCHANGED <<color, white>>
             ELSE UNCHANGED <<marks, gcstate>>
  /\ ops' = ops + 1
  /\ UNCHANGED <<heap, finals>>

\* lua_close: every userdata with a finalizer that was not called yet is to be
\* finalized now, reachable or not; the stack is left.
lua_close ==
  /\ Running
  /\ luaF_close(Main, 1)
  /\ tmudata' = tmudata \cup NeedFinalizing(Udata)
  /\ finalized' = finalized \cup (live \cap Udata)
  /\ gcstate' = "closing"
  /\ ops' = ops + 1
  /\ UNCHANGED <<called, full, garbage>>

luaC_freeall ==
  /\ gcstate = "closing" /\ tmudata = {}
  /\ Free(live)
  /\ gcstate' = "closed"
  /\ UNCHANGED <<marks, tmudata, called, full, garbage, ops>>

--------------------------------------------------------------------------------
(* Specification.                                                              *)

Init ==
  /\ \E h \in Heaps :
       /\ live = h.live /\ ref = h.ref /\ entry = h.entry
       /\ slot = h.slot /\ open = h.open
  /\ color = [o \in Objs |-> "white0"] /\ white = "white0"
  /\ gcstate = "pause"
  /\ gray = {} /\ grayagain = {} /\ weak = {} /\ sweep = {}
  /\ finalized = {} /\ tmudata = {} /\ called = [u \in Udata |-> 0]
  /\ full = 0 /\ garbage = {} /\ ops = 0

Next == singlestep \/ Mutate \/ luaC_fullgc \/ lua_close \/ luaC_freeall

\* A full collection is one loop of steps inside one call, and so is the rest of
\* lua_close: neither stops half way.
Spec == Init /\ [][Next]_vars /\ WF_vars((full # 0 \/ gcstate \in Atomic) /\ singlestep)

--------------------------------------------------------------------------------
(* Properties.                                                                 *)

\* Nothing the program can reach is freed: not through the stacks, the globals,
\* open or closed upvalues or environments, not through a weak table, and not
\* what a finalizer that is still to be called will see. Whatever barrier,
\* resurrection or remark the code has exists for this.
ReachableLive ==
  gcstate # "closed" =>
    LET used == ReachFrom({Main} \cup tmudata)
    IN /\ used \subseteq live
       /\ \A t \in used \cap Tables : AllEntries(t) \subseteq live

\* While the collector marks, no black object refers to a white one, every gray
\* object that has to be traversed is in a list, and an open upvalue is never
\* black (the assertion of luaF_close).
TriColour ==
  gcstate \in {"propagate"} \cup Atomic =>
    /\ \A o \in live : color[o] = "black" => \A v \in Kids(o) : ~iswhite(v)
    /\ {o \in live : color[o] = "gray" /\ o \in Tables \cup Functions \cup Threads}
         \subseteq gray \cup grayagain \cup weak
    /\ \A u \in live \cap UpVals : open[u] # Nil => color[u] # "black"

\* A finalizer is called at most once, and no userdata that has one is freed
\* before it was called, neither by a sweep nor by lua_close.
FinalizedOnce ==
  [][ \A u \in HasGC : /\ called'[u] <= 1
                       /\ u \in live /\ u \notin live' => called[u] = 1 ]_vars

\* At the end of a cycle everything that could not be reached at its start is
\* gone, except for what the program found again or a finalizer was given.
GarbageCollected == gcstate = "pause" => garbage \cap live = {}

\* A full collection comes to its end, also when it starts in the middle of a
\* cycle and when finalizers keep their objects.
FullCollects == full # 0 ~> (full = 0 /\ gcstate = "pause")

================================================================================
