---------------------------------- MODULE Mem ----------------------------------
(***************************************************************************)
(* The memory of the compiler: malloc, calloc, realloc and free as every   *)
(* phase uses them.  A block is the number of the call that allocated it;  *)
(* 0 is NULL.  At most one call fails, the one numbered "fails", so every  *)
(* cleanup path is entered with everything before it intact.               *)
(***************************************************************************)
EXTENDS Eval

\* Nothing is allocated and no call is going to fail
Fresh == [n |-> 0, ptr |-> 0, live |-> {}, fails |-> 0, wrong |-> FALSE]

\* The memory m after one allocation; its field ptr is the value returned
Alloc(m) ==
  LET id == IF m.n + 1 = m.fails THEN 0 ELSE m.n + 1
  IN  [m EXCEPT !.n = @ + 1, !.ptr = id, !.live = @ \cup ({id} \ {0})]

\* realloc(p, more): the old block goes away only if the new one is there
Realloc(m, p) ==
  Then(Alloc(m), LAMBDA g : IF g.ptr = 0 THEN g ELSE [g EXCEPT !.live = @ \ {p}])

\* free(p).  Freeing what is not allocated is undefined: the memory is wrong
\* from then on.
Free(m, p) ==
  IF p = 0 THEN m
  ELSE [m EXCEPT !.live = @ \ {p}, !.wrong = @ \/ p \notin m.live]

\* free of each block in B
FreeAll(m, B) ==
  [m EXCEPT !.live = @ \ B, !.wrong = @ \/ ~(B \subseteq m.live)]

\* assert(c)
Assert_(m, c) == [m EXCEPT !.wrong = @ \/ ~c]

\* The memories in which none, or the k-th, k \in 1..calls, of the next
\* allocations fails
Faults(m, calls) ==
  {m} \cup IF m.fails = 0 THEN {[m EXCEPT !.fails = m.n + k] : k \in 1 .. calls} ELSE {}

\* More allocations than one phase makes in one step
MaxCalls == 100

\* The fault of m, if it has one, is a call that the step to g made
Hit(m, g) == m.fails <= g.n

===============================================================================
