------------------------------ MODULE MCLuaHeap ------------------------------
(* Small heaps for LuaHeap: one or two objects of each type.                    *)
EXTENDS LuaHeap

CONSTANTS str, ud, tab, weaktab, fun, fun2, upv, main, co, globals, nil

\* The lists of the collector have one order: the gray list is last in first
\* out, so that the main thread, which is put there first, is traversed last.
First(S) ==
  IF S \subseteq {main} THEN S ELSE {CHOOSE o \in S \ {main} : TRUE}

NoRefs    == [o \in Objs |-> IF o \in {ud, fun, fun2} THEN {globals} ELSE {}]
NoEntries == [x \in Tables |-> {}]
NoSlots   == [th \in Threads |-> [i \in Slots |-> nil]]

\* Heaps in which two operations reach the hard cases: a global userdata and a
\* table in the stack; a function that shares a variable with a coroutine, which
\* the program holds or has lost; a function with a variable of its own; and a
\* weak table.
MCHeaps ==
  { [live |-> {main, globals, tab, ud}, ref |-> NoRefs,
     entry |-> [NoEntries EXCEPT ![globals] = {<<nil, ud>>}],
     slot |-> [NoSlots EXCEPT ![main][1] = tab],
     open |-> [x \in UpVals |-> nil]],
    [live |-> {main, globals, co, fun, upv, tab},
     ref |-> [NoRefs EXCEPT ![fun] = {globals, upv}],
     entry |-> NoEntries,
     slot |-> [NoSlots EXCEPT ![main] = <<co, fun>>, ![co][1] = tab],
     open |-> [x \in UpVals |-> <<co, 1>>]],
    [live |-> {main, globals, co, fun, upv, tab},
     ref |-> [NoRefs EXCEPT ![fun] = {globals, upv}],
     entry |-> [NoEntries EXCEPT ![globals] = {<<nil, fun>>}],
     slot |-> [NoSlots EXCEPT ![main] = <<tab, fun>>],
     open |-> [x \in UpVals |-> <<co, 2>>]],
    [live |-> {main, globals, fun, upv, tab, str},
     ref |-> [NoRefs EXCEPT ![fun] = {globals, upv}, ![upv] = {str}],
     entry |-> [NoEntries EXCEPT ![globals] = {<<nil, fun>>}],
     slot |-> [NoSlots EXCEPT ![main] = <<tab, fun>>],
     open |-> [x \in UpVals |-> nil]],
    [live |-> {main, globals, weaktab, ud, str}, ref |-> NoRefs,
     entry |-> [NoEntries EXCEPT ![weaktab] = {<<str, ud>>}, ![globals] = {<<nil, weaktab>>}],
     slot |-> NoSlots,
     open |-> [x \in UpVals |-> nil]] }

================================================================================
