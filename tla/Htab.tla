--------------------------------- MODULE Htab ---------------------------------
(***************************************************************************)
(* The hash table of htab.c, which code generation keeps its layouts in:   *)
(* a fixed number of slots, open addressing with linear probing, no        *)
(* deletion.  A key is the address of a name or of a syntax tree node; zero*)
(* is no address and marks an empty slot.                                  *)
(***************************************************************************)
EXTENDS Integers

CONSTANT Null   \* the pointer to nothing

\* htab_create: count slots, all zero
HtabCreate(count) ==
  [count |-> count,
   items |-> [i \in 0..(count - 1) |-> [key |-> 0, data |-> Null]]]

\* HASH: a table without slots has the remainder by one
Hash(t, key) == key % (IF t.count = 0 THEN 1 ELSE t.count)

\* The n-th slot both loops look at: from the hash to the end, then from the
\* start
Probe(t, key, n) ==
  LET i == Hash(t, key) + n IN IF i < t.count THEN i ELSE i - t.count

KeyAt(t, key, n) == t.items[Probe(t, key, n)].key

\* The number of the first slot that holds wanted on the way of key
FirstAt(t, key, wanted) ==
  CHOOSE n \in 0..(t.count - 1) :
    /\ KeyAt(t, key, n) = wanted
    /\ \A m \in 0..(n - 1) : KeyAt(t, key, m) # wanted

Holds(t, key, wanted) == \E n \in 0..(t.count - 1) : KeyAt(t, key, n) = wanted

\* htab_insert: into the first empty slot.  A full table aborts the program;
\* here it is left as it is, and the key is missing.
HtabInsert(t, key, data) ==
  IF Holds(t, key, 0)
    THEN [t EXCEPT !.items[Probe(t, key, FirstAt(t, key, 0))] =
                     [key |-> key, data |-> data]]
    ELSE t

\* htab_get: the first slot with the key, past empty ones.  A missing key
\* aborts the program; here it has no data.
HtabGet(t, key) ==
  IF Holds(t, key, key)
    THEN t.items[Probe(t, key, FirstAt(t, key, key))].data
    ELSE Null

===============================================================================
