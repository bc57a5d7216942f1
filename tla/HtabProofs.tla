------------------------------ MODULE HtabProofs ------------------------------
(***************************************************************************)
(* Theorems about the hash table, for every number of slots: it is a       *)
(* dictionary, as long as no key is inserted twice and no more keys than   *)
(* there are slots.                                                        *)
(***************************************************************************)
EXTENDS Htab, FiniteSetTheorems, WellFoundedInduction, TLAPS

Slots(t) == 0..(t.count - 1)

Table(t, D) ==
  t \in [count : Nat, items : [Slots(t) -> [key : Nat, data : D]]]

\* The slots in use
Used(t) == {i \in Slots(t) : t.items[i].key # 0}

Keys(t) == {t.items[i].key : i \in Used(t)}

\* What every table is between two calls: no key is in two slots
Sound(t, D) ==
  /\ Table(t, D)
  /\ \A i, j \in Used(t) : t.items[i].key = t.items[j].key => i = j

\* The table as a dictionary
Contents(t) == [k \in Keys(t) |-> HtabGet(t, k)]

\* A dictionary with one more entry
With(dict, key, data) ==
  [k \in DOMAIN dict \cup {key} |-> IF k = key THEN data ELSE dict[k]]

-------------------------------------------------------------------------------
(***************************************************************************)
(* The way of a key through the table.                                     *)
(***************************************************************************)

LEMMA Least ==
  ASSUME NEW T, T \subseteq Nat, T # {}
  PROVE  \E x \in T : \A y \in T : x <= y
<1> DEFINE R == OpToRel(<, Nat)
<1>1. IsWellFoundedOn(R, Nat)
  BY NatLessThanWellFounded
<1> HIDE DEF R
<1>2. PICK x \in T : \A y \in T : <<y, x>> \notin R
  BY <1>1, WFMin
<1>3. \A y \in T : y < x => <<y, x>> \in R
  BY DEF R, OpToRel
<1> QED
  <2>1. \A y \in T : ~(y < x)
    BY <1>2, <1>3
  <2>2. \A y \in T : x <= y
    BY <2>1
  <2> QED
    BY <2>2

LEMMA HashSlot ==
  ASSUME NEW t, NEW D, Table(t, D), NEW key \in Nat, t.count # 0
  PROVE  Hash(t, key) \in Slots(t)
<1> DEFINE n == t.count
<1>1. n \in Nat \ {0}
  BY DEF Table
<1>2. Hash(t, key) = key % n
  BY DEF Hash
<1> HIDE DEF n
<1>3. key % n \in 0..(n - 1)
  BY <1>1
<1> QED
  BY <1>2, <1>3 DEF n, Slots

\* The two loops look at slots of the table only, at no slot twice, and at
\* every slot
LEMMA ProbeSlots ==
  ASSUME NEW t, NEW D, Table(t, D), NEW key \in Nat
  PROVE  /\ \A n \in Slots(t) : Probe(t, key, n) \in Slots(t)
         /\ \A n, m \in Slots(t) : Probe(t, key, n) = Probe(t, key, m) => n = m
         /\ \A i \in Slots(t) : \E n \in Slots(t) : Probe(t, key, n) = i
<1> DEFINE c == t.count
           h == Hash(t, key)
<1>1. c \in Nat
  BY DEF Table
<1>2. c # 0 => h \in 0..(c - 1)
  BY HashSlot DEF Slots
<1>3. Slots(t) = 0..(c - 1)
  BY DEF Slots
<1>4. ASSUME NEW n \in Int, c \in Int, h \in Int
      PROVE  Probe(t, key, n) = IF h + n < c THEN h + n ELSE h + n - c
  BY <1>4 DEF Probe
<1> HIDE DEF c, h
<1>5. CASE c = 0
  BY <1>3, <1>5
<1>6. CASE c # 0
  <2>1. h \in 0..(c - 1)
    BY <1>2, <1>6
  <2>2. ASSUME NEW i \in 0..(c - 1)
        PROVE  \E n \in 0..(c - 1) : Probe(t, key, n) = i
    <3>1. CASE h <= i
      <4>1. i - h \in 0..(c - 1) /\ h + (i - h) < c /\ h + (i - h) = i
        BY <1>1, <2>1, <3>1
      <4>2. Probe(t, key, i - h) = i
        BY <1>1, <1>4, <2>1, <4>1
      <4> QED
        BY <4>1, <4>2
    <3>2. CASE i < h
      <4>1. /\ i + c - h \in 0..(c - 1)
            /\ ~(h + (i + c - h) < c)
            /\ h + (i + c - h) - c = i
        BY <1>1, <2>1, <3>2
      <4>2. Probe(t, key, i + c - h) = i
        BY <1>1, <1>4, <2>1, <4>1
      <4> QED
        BY <4>1, <4>2
    <3> QED
      BY <1>1, <2>1, <3>1, <3>2
  <2>3. \A n \in 0..(c - 1) : Probe(t, key, n) \in 0..(c - 1)
    BY <1>1, <1>4, <2>1
  <2>4. ASSUME NEW n \in 0..(c - 1), NEW m \in 0..(c - 1),
               Probe(t, key, n) = Probe(t, key, m)
        PROVE  n = m
    BY <1>1, <1>4, <2>1, <2>4
  <2> QED
    BY <1>3, <2>2, <2>3, <2>4
<1> QED
  BY <1>5, <1>6

LEMMA HoldsSlot ==
  ASSUME NEW t, NEW D, Table(t, D), NEW key \in Nat, NEW wanted
  PROVE  Holds(t, key, wanted)
           <=> \E i \in Slots(t) : t.items[i].key = wanted
<1>1. \A n \in Slots(t) : Probe(t, key, n) \in Slots(t)
  BY ProbeSlots
<1>2. \A i \in Slots(t) : \E n \in Slots(t) : Probe(t, key, n) = i
  BY ProbeSlots
<1>3. Holds(t, key, wanted)
        <=> \E n \in Slots(t) : t.items[Probe(t, key, n)].key = wanted
  BY Zenon DEF Holds, KeyAt, Slots
<1> QED
  BY <1>1, <1>2, <1>3

\* What the loops stop at is a slot with the wanted key
LEMMA FirstAtSlot ==
  ASSUME NEW t, NEW D, Table(t, D), NEW key \in Nat, NEW wanted,
         Holds(t, key, wanted)
  PROVE  /\ Probe(t, key, FirstAt(t, key, wanted)) \in Slots(t)
         /\ t.items[Probe(t, key, FirstAt(t, key, wanted))].key = wanted
<1> DEFINE T == {n \in Slots(t) : KeyAt(t, key, n) = wanted}
           f == FirstAt(t, key, wanted)
<1>1. PICK x \in T : \A y \in T : x <= y
  <2>1. T \subseteq Nat /\ T # {}
    BY DEF Holds, Slots
  <2> QED
    BY <2>1, Least
<1>2. /\ x \in 0..(t.count - 1)
      /\ KeyAt(t, key, x) = wanted
      /\ \A m \in 0..(x - 1) : KeyAt(t, key, m) # wanted
  BY <1>1 DEF Slots, Table
<1>3. f \in 0..(t.count - 1) /\ KeyAt(t, key, f) = wanted
  BY <1>2 DEF FirstAt
<1> QED
  BY <1>3, ProbeSlots DEF KeyAt, Slots

-------------------------------------------------------------------------------
(***************************************************************************)
(* The table as a dictionary.                                              *)
(***************************************************************************)

\* htab_get finds the data of the slot that holds the key, wherever the key's
\* way starts
LEMMA GetSlot ==
  ASSUME NEW t, NEW D, Sound(t, D), NEW i \in Used(t)
  PROVE  HtabGet(t, t.items[i].key) = t.items[i].data
<1> DEFINE key == t.items[i].key
           j == Probe(t, key, FirstAt(t, key, key))
<1>1. Table(t, D) /\ i \in Slots(t) /\ key \in Nat /\ key # 0
  BY DEF Sound, Used, Table
<1>2. Holds(t, key, key)
  BY <1>1, HoldsSlot
<1>3. j \in Slots(t) /\ t.items[j].key = key
  BY <1>1, <1>2, FirstAtSlot
<1>4. i = j
  BY <1>1, <1>3 DEF Sound, Used
<1> QED
  BY <1>2, <1>4 DEF HtabGet

\* The keys are as many as the slots in use
LEMMA KeysCardinality ==
  ASSUME NEW t, NEW D, Sound(t, D)
  PROVE  /\ IsFiniteSet(Keys(t))
         /\ Cardinality(Keys(t)) = Cardinality(Used(t))
<1> DEFINE f == [i \in Used(t) |-> t.items[i].key]
<1>1. IsFiniteSet(Used(t))
  <2>1. IsFiniteSet(Slots(t))
    BY FS_Interval DEF Slots, Sound, Table
  <2> QED
    BY <2>1, FS_Subset DEF Used
<1>2. f \in Bijection(Used(t), Keys(t))
  <2>1. f \in [Used(t) -> Keys(t)]
    BY DEF Keys
  <2>2. \A i, j \in Used(t) : f[i] = f[j] => i = j
    BY DEF Sound
  <2>3. \A k \in Keys(t) : \E i \in Used(t) : f[i] = k
    BY DEF Keys
  <2> HIDE DEF f
  <2> QED
    BY <2>1, <2>2, <2>3 DEF Bijection, Injection, IsInjective, Surjection
<1> QED
  BY <1>1, <1>2, FS_Bijection DEF ExistsBijection

\* A table that has fewer keys than slots has an empty one
LEMMA Room ==
  ASSUME NEW t, NEW D, Sound(t, D), Cardinality(Keys(t)) < t.count
  PROVE  \E i \in Slots(t) : t.items[i].key = 0
<1>1. SUFFICES ASSUME \A i \in Slots(t) : t.items[i].key # 0
               PROVE  FALSE
  OBVIOUS
<1>2. Used(t) = Slots(t)
  BY <1>1 DEF Used
<1>3. t.count \in Nat
  BY DEF Sound, Table
<1>4. Cardinality(Slots(t)) = t.count
  BY <1>3, FS_Interval DEF Slots
<1> QED
  BY <1>2, <1>3, <1>4, KeysCardinality

\* An insertion writes one slot, an empty one
LEMMA InsertSlot ==
  ASSUME NEW t, NEW D, Table(t, D), NEW key \in Nat, NEW data \in D,
         Holds(t, key, 0)
  PROVE  \E j \in Slots(t) :
           /\ t.items[j].key = 0
           /\ Table(HtabInsert(t, key, data), D)
           /\ HtabInsert(t, key, data).count = t.count
           /\ HtabInsert(t, key, data).items[j].key = key
           /\ HtabInsert(t, key, data).items[j].data = data
           /\ \A i \in Slots(t) \ {j} :
                HtabInsert(t, key, data).items[i] = t.items[i]
<1> DEFINE j == Probe(t, key, FirstAt(t, key, 0))
           e == [key |-> key, data |-> data]
           u == HtabInsert(t, key, data)
<1>1. j \in Slots(t) /\ t.items[j].key = 0
  BY FirstAtSlot
<1>2. u = [t EXCEPT !.items[j] = e]
  BY DEF HtabInsert
<1>3. e \in [key : Nat, data : D] /\ e.key = key /\ e.data = data
  OBVIOUS
<1> HIDE DEF e, j, u
<1>4. t \in [count : Nat, items : [Slots(t) -> [key : Nat, data : D]]]
  BY DEF Table
<1>5. /\ u.count = t.count
      /\ u.items = [t.items EXCEPT ![j] = e]
      /\ u \in [count : Nat, items : [Slots(t) -> [key : Nat, data : D]]]
  BY <1>1, <1>2, <1>3, <1>4
<1>6. Table(u, D)
  BY <1>5 DEF Table, Slots
<1>7. u.items[j] = e /\ \A i \in Slots(t) \ {j} : u.items[i] = t.items[i]
  BY <1>1, <1>4, <1>5
<1> QED
  BY <1>1, <1>3, <1>5, <1>6, <1>7 DEF u

\* Inserting a key that the table does not have, into a table with room, adds
\* the key with its data and changes the data of no other key
THEOREM InsertCorrect ==
  ASSUME NEW t, NEW D, Sound(t, D), NEW key \in Nat \ {0}, NEW data \in D,
         key \notin Keys(t), Cardinality(Keys(t)) < t.count
  PROVE  /\ Sound(HtabInsert(t, key, data), D)
         /\ HtabInsert(t, key, data).count = t.count
         /\ Cardinality(Keys(HtabInsert(t, key, data)))
              = Cardinality(Keys(t)) + 1
         /\ Contents(HtabInsert(t, key, data)) = With(Contents(t), key, data)
<1> DEFINE u == HtabInsert(t, key, data)
<1>1. Table(t, D)
  BY DEF Sound
<1>2. Holds(t, key, 0)
  BY <1>1, Room, HoldsSlot
<1>3. PICK j \in Slots(t) :
        /\ t.items[j].key = 0
        /\ Table(u, D)
        /\ u.count = t.count
        /\ u.items[j].key = key
        /\ u.items[j].data = data
        /\ \A i \in Slots(t) \ {j} : u.items[i] = t.items[i]
  BY <1>1, <1>2, InsertSlot
<1> HIDE DEF u
<1>4. Slots(u) = Slots(t)
  BY <1>3 DEF Slots
<1>5. /\ j \notin Used(t)
      /\ Used(u) = Used(t) \cup {j}
      /\ \A i \in Used(t) : u.items[i] = t.items[i]
  BY <1>3, <1>4 DEF Used
<1>6. Keys(u) = Keys(t) \cup {key}
  BY <1>3, <1>5 DEF Keys
<1>7. \A i \in Used(t) : t.items[i].key # key
  BY DEF Keys
<1>8. Sound(u, D)
  BY <1>3, <1>5, <1>7 DEF Sound
<1>9. Cardinality(Keys(u)) = Cardinality(Keys(t)) + 1
  BY <1>6, KeysCardinality, FS_AddElement
<1>10. HtabGet(u, key) = data
  BY <1>3, <1>5, <1>8, GetSlot
<1>11. ASSUME NEW k \in Keys(t)
       PROVE  k # key /\ HtabGet(u, k) = HtabGet(t, k)
  <2>1. PICK i \in Used(t) : t.items[i].key = k
    BY DEF Keys
  <2>2. HtabGet(t, k) = t.items[i].data
    BY <2>1, GetSlot
  <2>3. u.items[i] = t.items[i] /\ i \in Used(u)
    BY <1>5
  <2>4. HtabGet(u, k) = u.items[i].data
    BY <1>8, <2>1, <2>3, GetSlot
  <2> QED
    BY <2>2, <2>3, <2>4
<1>12. Contents(u) = With(Contents(t), key, data)
  <2>1. DOMAIN Contents(t) = Keys(t)
    BY DEF Contents
  <2>2. \A k \in Keys(t) : Contents(t)[k] = HtabGet(t, k)
    BY DEF Contents
  <2> QED
    BY <1>6, <1>10, <1>11, <2>1, <2>2 DEF Contents, With
<1> QED
  BY <1>3, <1>8, <1>9, <1>12 DEF u

\* htab_create: an empty table, which takes as many keys as it has slots
THEOREM CreateCorrect ==
  ASSUME NEW count \in Nat, NEW D, Null \in D
  PROVE  /\ Sound(HtabCreate(count), D)
         /\ HtabCreate(count).count = count
         /\ Keys(HtabCreate(count)) = {}
<1> DEFINE t == HtabCreate(count)
<1>1. /\ t.count = count
      /\ t.items = [i \in Slots(t) |-> [key |-> 0, data |-> Null]]
      /\ Table(t, D)
  BY DEF HtabCreate, Table, Slots
<1>2. Used(t) = {}
  BY <1>1 DEF Used
<1> QED
  BY <1>1, <1>2 DEF Sound, Keys

\* A key that was never inserted has no data: htab_get finds nothing
THEOREM MissingCorrect ==
  ASSUME NEW t, NEW D, Table(t, D), NEW key \in Nat \ {0}, key \notin Keys(t)
  PROVE  HtabGet(t, key) = Null
<1>1. ~Holds(t, key, key)
  BY HoldsSlot DEF Keys, Used
<1> QED
  BY <1>1 DEF HtabGet

\* A full table is left as it is: the code stops the program there
THEOREM FullCorrect ==
  ASSUME NEW t, NEW D, Sound(t, D), NEW key \in Nat, NEW data,
         Cardinality(Keys(t)) = t.count
  PROVE  HtabInsert(t, key, data) = t
<1>1. t.count \in Nat
  BY DEF Sound, Table
<1>2. IsFiniteSet(Slots(t)) /\ Cardinality(Slots(t)) = t.count
  <2> DEFINE last == t.count - 1
  <2>1. last \in Int /\ 0 \in Int /\ last + 1 = t.count /\ (0 > last => t.count = 0)
    BY <1>1
  <2> HIDE DEF last
  <2>2. /\ IsFiniteSet(0..last)
        /\ Cardinality(0..last) = IF 0 > last THEN 0 ELSE last - 0 + 1
    BY <2>1, FS_Interval
  <2>3. Slots(t) = 0..last
    BY DEF Slots, last
  <2> QED
    BY <2>1, <2>2, <2>3
<1>3. Used(t) = Slots(t)
  <2>1. Used(t) \in SUBSET Slots(t)
    BY DEF Used
  <2>2. Cardinality(Used(t)) = Cardinality(Slots(t))
    BY <1>2, KeysCardinality
  <2> QED
    BY <1>2, <2>1, <2>2, FS_Subset
<1>4. ~Holds(t, key, 0)
  BY <1>3, HoldsSlot DEF Used, Sound
<1> QED
  BY <1>4 DEF HtabInsert

-------------------------------------------------------------------------------
(***************************************************************************)
(* How code generation uses a table: it creates one with as many slots as  *)
(* it has things to put in, inserts each once and then only looks them up. *)
(***************************************************************************)

\* The tables that arise when the keys 1..n go in one by one
Filling(tab, n, key, dat, D) ==
  /\ n \in Nat /\ Null \in D
  /\ key \in [1..n -> Nat \ {0}]
  /\ \A i, j \in 1..n : key[i] = key[j] => i = j
  /\ dat \in [1..n -> D]
  /\ tab[0] = HtabCreate(n)
  /\ \A m \in 1..n : tab[m] = HtabInsert(tab[m - 1], key[m], dat[m])

\* What has been reached after m insertions
Filled(tab, n, key, dat, D, m) ==
  /\ Sound(tab[m], D)
  /\ tab[m].count = n
  /\ Cardinality(Keys(tab[m])) = m
  /\ Keys(tab[m]) = {key[i] : i \in 1..m}
  /\ \A i \in 1..m : HtabGet(tab[m], key[i]) = dat[i]

LEMMA FillStep ==
  ASSUME NEW tab, NEW n, NEW key, NEW dat, NEW D,
         Filling(tab, n, key, dat, D),
         NEW m \in 1..n, Filled(tab, n, key, dat, D, m - 1)
  PROVE  Filled(tab, n, key, dat, D, m)
<1> DEFINE t == tab[m - 1]
           u == tab[m]
           k == key[m]
<1>1. /\ u = HtabInsert(t, k, dat[m])
      /\ k \in Nat \ {0} /\ dat[m] \in D /\ n \in Nat /\ m \in Nat /\ m <= n
  BY DEF Filling
<1>2. /\ Sound(t, D) /\ t.count = n /\ Cardinality(Keys(t)) = m - 1
      /\ Keys(t) = {key[i] : i \in 1..(m - 1)}
      /\ \A i \in 1..(m - 1) : HtabGet(t, key[i]) = dat[i]
  BY DEF Filled
<1>3. \A i \in 1..(m - 1) : key[i] # k
  BY DEF Filling
<1>4. k \notin Keys(t) /\ Cardinality(Keys(t)) < t.count
  BY <1>1, <1>2, <1>3
<1> HIDE DEF t, u, k
<1>5. /\ Sound(u, D) /\ u.count = n /\ Cardinality(Keys(u)) = (m - 1) + 1
      /\ Contents(u) = With(Contents(t), k, dat[m])
  <2> DEFINE d == dat[m]
  <2>1. d \in D /\ k \in Nat \ {0} /\ Sound(t, D)
    BY <1>1, <1>2
  <2>2. u = HtabInsert(t, k, d)
    BY <1>1
  <2> HIDE DEF d
  <2>3. /\ Sound(HtabInsert(t, k, d), D)
        /\ HtabInsert(t, k, d).count = t.count
        /\ Cardinality(Keys(HtabInsert(t, k, d))) = Cardinality(Keys(t)) + 1
        /\ Contents(HtabInsert(t, k, d)) = With(Contents(t), k, d)
    BY <1>4, <2>1, InsertCorrect
  <2> QED
    BY <1>2, <2>2, <2>3 DEF d
<1>6. /\ Keys(u) = Keys(t) \cup {k}
      /\ HtabGet(u, k) = dat[m]
      /\ \A x \in Keys(t) : HtabGet(u, x) = HtabGet(t, x)
  <2>1. DOMAIN Contents(u) = Keys(u) /\ DOMAIN Contents(t) = Keys(t)
    BY DEF Contents
  <2>2. Keys(u) = Keys(t) \cup {k}
    BY <1>5, <2>1 DEF With
  <2>3. \A x \in Keys(u) : HtabGet(u, x) = Contents(u)[x]
    BY DEF Contents
  <2>4. \A x \in Keys(t) : HtabGet(t, x) = Contents(t)[x]
    BY DEF Contents
  <2>5. /\ Contents(u)[k] = dat[m]
        /\ \A x \in Keys(t) : Contents(u)[x] = Contents(t)[x]
    BY <1>4, <1>5, <2>1 DEF With
  <2> QED
    BY <2>2, <2>3, <2>4, <2>5
<1>7. 1..m = (1..(m - 1)) \cup {m}
  BY <1>1
<1>8. Keys(u) = {key[i] : i \in 1..m}
  BY <1>2, <1>6, <1>7 DEF k
<1>9. \A i \in 1..m : HtabGet(u, key[i]) = dat[i]
  BY <1>2, <1>6, <1>7 DEF k
<1>10. Cardinality(Keys(u)) = m
  BY <1>1, <1>5
<1> QED
  BY <1>5, <1>8, <1>9, <1>10 DEF Filled, u

\* Every insertion finds an empty slot, so the program never aborts in
\* htab_insert, and at the end every key has the data it was inserted with:
\* htab_get never aborts either
THEOREM FillCorrect ==
  ASSUME NEW tab, NEW n, NEW key, NEW dat, NEW D,
         Filling(tab, n, key, dat, D)
  PROVE  /\ \A m \in 1..n : Holds(tab[m - 1], key[m], 0)
         /\ \A i \in 1..n : /\ Holds(tab[n], key[i], key[i])
                            /\ HtabGet(tab[n], key[i]) = dat[i]
<1> DEFINE Bad == {m \in 0..n : ~Filled(tab, n, key, dat, D, m)}
<1>1. n \in Nat /\ key \in [1..n -> Nat \ {0}]
  BY DEF Filling
<1>2. Filled(tab, n, key, dat, D, 0)
  <2>1. /\ Sound(tab[0], D) /\ tab[0].count = n /\ Keys(tab[0]) = {}
    BY CreateCorrect DEF Filling
  <2>2. 1..0 = {} /\ Cardinality({}) = 0
    BY FS_EmptySet
  <2> QED
    BY <2>1, <2>2 DEF Filled
<1>3. Bad = {}
  <2>1. SUFFICES ASSUME Bad # {} PROVE FALSE
    OBVIOUS
  <2>2. Bad \subseteq Nat
    OBVIOUS
  <2>3. PICK m \in Bad : \A y \in Bad : m <= y
    BY <2>1, <2>2, Least
  <2>4. m \in 1..n /\ m - 1 \in 0..n
    BY <1>1, <1>2
  <2>5. Filled(tab, n, key, dat, D, m - 1)
    BY <2>3, <2>4
  <2> QED
    BY <2>3, <2>4, <2>5, FillStep
<1>4. \A m \in 0..n : Filled(tab, n, key, dat, D, m)
  BY <1>3
<1>5. ASSUME NEW m \in 1..n
      PROVE  Holds(tab[m - 1], key[m], 0)
  <2>1. /\ Sound(tab[m - 1], D) /\ tab[m - 1].count = n
        /\ Cardinality(Keys(tab[m - 1])) = m - 1
    BY <1>1, <1>4 DEF Filled
  <2>2. Table(tab[m - 1], D) /\ key[m] \in Nat
    BY <1>1, <2>1 DEF Sound
  <2>3. m - 1 < n
    BY <1>1
  <2> QED
    BY <2>1, <2>2, <2>3, Room, HoldsSlot
<1>6. ASSUME NEW i \in 1..n
      PROVE  /\ Holds(tab[n], key[i], key[i])
             /\ HtabGet(tab[n], key[i]) = dat[i]
  <2>1. /\ Table(tab[n], D)
        /\ key[i] \in Keys(tab[n])
        /\ HtabGet(tab[n], key[i]) = dat[i]
    BY <1>1, <1>4 DEF Filled, Sound
  <2>2. \E j \in Slots(tab[n]) : tab[n].items[j].key = key[i]
    BY <2>1 DEF Keys, Used
  <2> QED
    BY <1>1, <2>1, <2>2, HoldsSlot
<1> QED
  BY <1>5, <1>6
=============================================================================
