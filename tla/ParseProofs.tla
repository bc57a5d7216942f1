------------------------------ MODULE ParseProofs ------------------------------
(***************************************************************************)
(* Theorems about the parser, for every text the lexer accepts: what it    *)
(* builds is a derivation of the tokens by the grammar; it looks at no     *)
(* token past the last; it owns what it allocates and gives it back.       *)
(***************************************************************************)
EXTENDS Derivation, LexProofs

-------------------------------------------------------------------------------
(***************************************************************************)
(* The definitions that are recursive define something                     *)
(***************************************************************************)

LEMMA NatSteps ==
  ASSUME NEW S, 0 \in S, \A k \in Nat : k \in S => k + 1 \in S
  PROVE  \A k \in Nat : k \in S
<1>1. SUFFICES ASSUME Nat \ S # {} PROVE FALSE
  OBVIOUS
<1>2. PICK x \in Nat \ S : \A y \in Nat \ S : x <= y
  BY <1>1, LeastElement
<1>3. x # 0 /\ x - 1 \in Nat
  BY <1>2
<1>4. x - 1 \in S
  BY <1>2, <1>3
<1>5. x - 1 + 1 = x
  BY <1>2
<1> QED
  BY <1>2, <1>3, <1>4, <1>5

\* One turn of match_rule at c when g says what the turns after it come to
Turn(rhs, nodes, g, c) ==
  LET k == c[1]
      i == c[2]
      more == c[3] /\ i > 0 /\ TermEq(rhs[k + 1], nodes[i])
  IN  IF k = 0 THEN IF more THEN g[<<0, i - 1, TRUE>>] ELSE i
      ELSE IF i = 0 THEN -1
      ELSE IF TermEq(rhs[k], nodes[i]) THEN g[<<k - 1, i - 1, Repeats(rhs[k])>>]
      ELSE IF more THEN g[<<k, i - 1, TRUE>>]
      ELSE IF Repeats(rhs[k]) THEN g[<<k - 1, i, FALSE>>]
      ELSE -1

Turns(rhs, nodes) == (0 .. Len(rhs)) \X (0 .. Len(nodes)) \X BOOLEAN

\* The function "from" of Below
From(rhs, nodes) ==
  CHOOSE f : f = [c \in Turns(rhs, nodes) |-> Turn(rhs, nodes, f, c)]

LEMMA BelowFrom ==
  ASSUME NEW rule, NEW nodes
  PROVE  Below(rule, nodes) = From(rule.rhs, nodes)[<<Len(rule.rhs), Len(nodes), FALSE>>]
BY Zenon DEF Below, From, Turn, Turns

\* The terms and nodes left at c
Left(c) == c[1] + c[2]

\* g and h say the same of the turns that have less than z left
Agree(rhs, nodes, g, h, z) == \A c \in Turns(rhs, nodes) : Left(c) < z => g[c] = h[c]

LEMMA TurnOf ==
  ASSUME NEW rhs, NEW nodes, Len(rhs) \in Nat, Len(nodes) \in Nat,
         NEW k \in 0 .. Len(rhs), NEW i \in 0 .. Len(nodes), NEW a, a \in BOOLEAN
  PROVE  <<k, i, a>> \in Turns(rhs, nodes) /\ Left(<<k, i, a>>) = k + i
BY DEF Turns, Left

\* A turn needs to know only of turns with less left
LEMMA TurnSame ==
  ASSUME NEW rhs, NEW nodes, NEW g, NEW h, Len(rhs) \in Nat, Len(nodes) \in Nat,
         NEW c \in Turns(rhs, nodes), Agree(rhs, nodes, g, h, Left(c))
  PROVE  Turn(rhs, nodes, g, c) = Turn(rhs, nodes, h, c)
<1> DEFINE k == c[1]
           i == c[2]
           more == c[3] /\ i > 0 /\ TermEq(rhs[k + 1], nodes[i])
           r == Repeats(rhs[k])
           p == TermEq(rhs[k], nodes[i])
<1>1. k \in 0 .. Len(rhs) /\ i \in 0 .. Len(nodes) /\ Left(c) = k + i
  BY DEF Turns, Left
<1>2. ASSUME NEW j \in 0 .. Len(rhs), NEW x \in 0 .. Len(nodes), NEW b, b \in BOOLEAN,
             j + x < k + i
      PROVE  g[<<j, x, b>>] = h[<<j, x, b>>]
  BY <1>1, <1>2, TurnOf DEF Agree
<1>3. r \in BOOLEAN
  BY DEF Repeats
<1> DEFINE V(f) == IF k = 0 THEN IF more THEN f[<<0, i - 1, TRUE>>] ELSE i
                   ELSE IF i = 0 THEN -1
                   ELSE IF p THEN f[<<k - 1, i - 1, r>>]
                   ELSE IF more THEN f[<<k, i - 1, TRUE>>]
                   ELSE IF r THEN f[<<k - 1, i, FALSE>>]
                   ELSE -1
<1>4. Turn(rhs, nodes, g, c) = V(g) /\ Turn(rhs, nodes, h, c) = V(h)
  BY DEF Turn
<1>5. more => i # 0
  BY <1>1
<1> HIDE DEF more, p, r, k, i
<1>6. ASSUME i # 0
      PROVE  g[<<k, i - 1, TRUE>>] = h[<<k, i - 1, TRUE>>]
  <2>1. i - 1 \in 0 .. Len(nodes) /\ k + (i - 1) < k + i
    BY <1>1, <1>6
  <2> QED
    BY <1>1, <1>2, <2>1
<1>7. ASSUME k # 0
      PROVE  g[<<k - 1, i, FALSE>>] = h[<<k - 1, i, FALSE>>]
  <2>1. k - 1 \in 0 .. Len(rhs) /\ (k - 1) + i < k + i
    BY <1>1, <1>7
  <2> QED
    BY <1>1, <1>2, <2>1
<1>8. ASSUME k # 0, i # 0
      PROVE  g[<<k - 1, i - 1, r>>] = h[<<k - 1, i - 1, r>>]
  <2>1. k - 1 \in 0 .. Len(rhs) /\ i - 1 \in 0 .. Len(nodes) /\ (k - 1) + (i - 1) < k + i
    BY <1>1, <1>8
  <2> QED
    BY <1>2, <1>3, <2>1
<1>9. V(g) = V(h)
  <2>1. CASE k = 0
    BY <1>5, <1>6, <2>1
  <2>2. CASE k # 0
    BY <1>5, <1>6, <1>7, <1>8, <2>2
  <2> QED
    BY <2>1, <2>2
<1> QED
  BY <1>4, <1>9

\* There is a result from every turn on
LEMMA FromRuns ==
  ASSUME NEW rhs, NEW nodes, Len(rhs) \in Nat, Len(nodes) \in Nat
  PROVE  \A c \in Turns(rhs, nodes) :
           From(rhs, nodes)[c] = Turn(rhs, nodes, From(rhs, nodes), c)
<1> DEFINE D == Turns(rhs, nodes)
           Upto(z, h) == \A c \in D : Left(c) < z => h[c] = Turn(rhs, nodes, h, c)
           S == {z \in Nat : \E h : Upto(z, h)}
<1>0. \A c \in D : Left(c) \in Nat /\ Left(c) < Len(rhs) + Len(nodes) + 1
  BY DEF Turns, Left
<1> HIDE DEF D
<1>1. 0 \in S
  <2>1. \A h : Upto(0, h)
    BY <1>0
  <2> QED
    BY <2>1
<1>2. ASSUME NEW z \in Nat, z \in S
      PROVE  z + 1 \in S
  <2>1. PICK h : Upto(z, h)
    BY <1>2
  <2> DEFINE g == [c \in D |-> Turn(rhs, nodes, h, c)]
  <2>2. \A c \in D : g[c] = Turn(rhs, nodes, h, c)
    OBVIOUS
  <2>3. \A c \in D : Left(c) < z => g[c] = h[c]
    BY <2>1, <2>2
  <2> HIDE DEF g
  <2>4. ASSUME NEW c \in D, Left(c) < z + 1
        PROVE  g[c] = Turn(rhs, nodes, g, c)
    <3>1. Agree(rhs, nodes, h, g, Left(c))
      BY <1>0, <2>3, <2>4 DEF Agree, D
    <3>2. Turn(rhs, nodes, h, c) = Turn(rhs, nodes, g, c)
      BY <3>1, TurnSame DEF D
    <3> QED
      BY <2>2, <3>2
  <2>5. Upto(z + 1, g)
    BY <2>4
  <2> HIDE DEF Upto
  <2> QED
    BY <2>5
<1>3. Len(rhs) + Len(nodes) + 1 \in S
  <2> HIDE DEF S
  <2>1. \A z \in Nat : z \in S
    BY <1>1, <1>2, NatSteps
  <2> QED
    BY <2>1
<1>4. PICK h : \A c \in D : h[c] = Turn(rhs, nodes, h, c)
  BY <1>0, <1>3
<1> DEFINE f == [c \in D |-> Turn(rhs, nodes, h, c)]
<1>5. \A c \in D : f[c] = h[c]
  BY <1>4
<1>6. \A c \in D : Turn(rhs, nodes, h, c) = Turn(rhs, nodes, f, c)
  <2> HIDE DEF f
  <2>1. \A z : Agree(rhs, nodes, h, f, z)
    BY <1>5 DEF Agree, D
  <2> QED
    BY <2>1, TurnSame DEF D
<1>7. f = [c \in D |-> Turn(rhs, nodes, f, c)]
  <2> DEFINE e == [c \in D |-> Turn(rhs, nodes, f, c)]
  <2> SUFFICES f = e
    OBVIOUS
  <2> QED
    BY <1>6, Zenon
<1>8. From(rhs, nodes) = [c \in D |-> Turn(rhs, nodes, From(rhs, nodes), c)]
  <2> HIDE DEF f
  <2> QED
    BY <1>7, Zenon DEF From, D
<1> QED
  BY <1>8, Zenon DEF D

-------------------------------------------------------------------------------
\* What the kids up to term k can account for, when g says it of the term before
Read(rhs, kids, g, k) ==
  IF k = 0 THEN {0}
  ELSE UNION {{j \in i .. Len(kids) : /\ rhs[k][1] # "m" => j = i + 1
                                      /\ \A x \in i + 1 .. j : TermEq(rhs[k], kids[x])} :
              i \in g[k - 1]}

LEMMA ReadAsRuns ==
  ASSUME NEW rhs, NEW kids, Len(rhs) \in Nat
  PROVE  \A k \in 0 .. Len(rhs) : ReadAs(rhs, kids)[k] = Read(rhs, kids, ReadAs(rhs, kids), k)
<1> DEFINE D == 0 .. Len(rhs)
           Upto(z, h) == \A k \in D : k < z => h[k] = Read(rhs, kids, h, k)
           S == {z \in Nat : \E h : Upto(z, h)}
<1>0. ASSUME NEW g, NEW h, NEW k \in D, k # 0 => g[k - 1] = h[k - 1]
      PROVE  Read(rhs, kids, g, k) = Read(rhs, kids, h, k)
  BY <1>0 DEF Read
<1>1. 0 \in S
  <2>1. \A h : Upto(0, h)
    OBVIOUS
  <2> QED
    BY <2>1
<1>2. ASSUME NEW z \in Nat, z \in S
      PROVE  z + 1 \in S
  <2>1. PICK h : Upto(z, h)
    BY <1>2
  <2> DEFINE g == [k \in D |-> Read(rhs, kids, h, k)]
  <2>2. \A k \in D : g[k] = Read(rhs, kids, h, k)
    OBVIOUS
  <2>3. \A k \in D : k < z => g[k] = h[k]
    BY <2>1, <2>2
  <2> HIDE DEF g
  <2>4. ASSUME NEW k \in D, k < z + 1
        PROVE  g[k] = Read(rhs, kids, g, k)
    <3>1. k # 0 => k - 1 \in D /\ k - 1 < z
      BY <2>4
    <3>2. k # 0 => g[k - 1] = h[k - 1]
      BY <2>3, <3>1
    <3> QED
      BY <1>0, <2>2, <3>2
  <2>5. Upto(z + 1, g)
    BY <2>4
  <2> HIDE DEF Upto
  <2> QED
    BY <2>5
<1>3. Len(rhs) + 1 \in S
  <2> HIDE DEF S
  <2>1. \A z \in Nat : z \in S
    BY <1>1, <1>2, NatSteps
  <2> QED
    BY <2>1
<1>4. PICK h : \A k \in D : h[k] = Read(rhs, kids, h, k)
  BY <1>3
<1> DEFINE f == [k \in D |-> Read(rhs, kids, h, k)]
<1>5. \A k \in D : f[k] = h[k]
  BY <1>4
<1>6. \A k \in D : Read(rhs, kids, h, k) = Read(rhs, kids, f, k)
  <2> HIDE DEF f
  <2>1. \A k \in D : k # 0 => k - 1 \in D
    OBVIOUS
  <2> QED
    BY <1>0, <1>5, <2>1
<1> HIDE DEF D
<1>7. f = [k \in D |-> Read(rhs, kids, f, k)]
  <2> DEFINE e == [k \in D |-> Read(rhs, kids, f, k)]
  <2> SUFFICES f = e
    OBVIOUS
  <2> QED
    BY <1>6, Zenon
<1>8. ReadAs(rhs, kids) = CHOOSE u : u = [k \in D |-> Read(rhs, kids, u, k)]
  BY Zenon DEF ReadAs, Read, D
<1>9. ReadAs(rhs, kids) = [k \in D |-> Read(rhs, kids, ReadAs(rhs, kids), k)]
  <2> HIDE DEF f
  <2> QED
    BY <1>7, <1>8, Zenon
<1> QED
  BY <1>9, Zenon DEF D

\* A derivation begins with the nodes and goes on with one opening after another
LEMMA DerivationRuns ==
  ASSUME NEW nodes
  PROVE  /\ Derivation(nodes)[0] = [nodes |-> nodes, sound |-> TRUE]
         /\ \A d \in Nat : Derivation(nodes)[d + 1] = Opened(Derivation(nodes)[d])
<1> DEFINE first == [nodes |-> nodes, sound |-> TRUE]
           Go(g, d) == IF d = 0 THEN first ELSE Opened(g[d - 1])
           Upto(z, h) == \A d \in Nat : d < z => h[d] = Go(h, d)
           S == {z \in Nat : \E h : Upto(z, h)}
<1> HIDE DEF first
<1>1. 0 \in S
  <2>1. \A h : Upto(0, h)
    OBVIOUS
  <2> QED
    BY <2>1
<1>2. ASSUME NEW z \in Nat, z \in S
      PROVE  z + 1 \in S
  <2>1. PICK h : Upto(z, h)
    BY <1>2
  <2> DEFINE g == [d \in Nat |-> Go(h, d)]
  <2>2. \A d \in Nat : g[d] = Go(h, d)
    OBVIOUS
  <2>3. \A d \in Nat : d < z => g[d] = h[d]
    BY <2>1, <2>2
  <2> HIDE DEF g
  <2>4. ASSUME NEW d \in Nat, d < z + 1
        PROVE  g[d] = Go(g, d)
    <3>1. d # 0 => d - 1 \in Nat /\ d - 1 < z
      BY <2>4
    <3>2. d # 0 => g[d - 1] = h[d - 1]
      BY <2>3, <3>1
    <3> QED
      BY <2>2, <3>2
  <2>5. Upto(z + 1, g)
    BY <2>4
  <2> HIDE DEF Upto
  <2> QED
    BY <2>5
<1>3. \A z \in Nat : \E h : Upto(z, h)
  <2>1. \A z \in Nat : z \in S
    <3> HIDE DEF S
    <3> QED
      BY <1>1, <1>2, NatSteps
  <2> QED
    BY <2>1
<1> DEFINE pick(z) == CHOOSE h : Upto(z, h)
<1>4. ASSUME NEW z \in Nat, NEW g, NEW h, Upto(z, g), Upto(z, h)
      PROVE  \A d \in Nat : d < z => g[d] = h[d]
  <2> DEFINE T == {d \in Nat : d < z => g[d] = h[d]}
  <2>1. 0 \in T
    BY <1>4
  <2>2. ASSUME NEW d \in Nat, d \in T
        PROVE  d + 1 \in T
    <3>1. CASE d + 1 < z
      <4>1. g[d] = h[d]
        BY <2>2, <3>1
      <4>2. d + 1 # 0 /\ (d + 1) - 1 = d /\ d + 1 \in Nat
        OBVIOUS
      <4>3. g[d + 1] = Opened(g[d]) /\ h[d + 1] = Opened(h[d])
        BY <1>4, <3>1, <4>2
      <4> QED
        BY <4>1, <4>3
    <3> QED
      BY <3>1
  <2> HIDE DEF T
  <2>3. \A d \in Nat : d \in T
    BY <2>1, <2>2, NatSteps
  <2> QED
    BY <2>3 DEF T
<1>5. \A z \in Nat : Upto(z, pick(z))
  <2> HIDE DEF Upto
  <2> QED
    BY <1>3
<1> DEFINE f == [d \in Nat |-> pick(d + 1)[d]]
<1>6. \A d \in Nat : f[d] = Go(f, d)
  <2> SUFFICES ASSUME NEW d \in Nat
               PROVE  f[d] = Go(f, d)
    OBVIOUS
  <2> HIDE DEF pick, Upto
  <2>0. \A e \in Nat : f[e] = pick(e + 1)[e]
    OBVIOUS
  <2>1. f[d] = pick(d + 1)[d]
    BY <2>0
  <2>2. Upto(d + 1, pick(d + 1))
    BY <1>5
  <2>3. pick(d + 1)[d] = Go(pick(d + 1), d)
    BY <2>2 DEF Upto
  <2>4. CASE d = 0
    BY <2>1, <2>3, <2>4
  <2>5. CASE d # 0
    <3>1. d - 1 \in Nat /\ (d - 1) + 1 = d /\ d - 1 < d
      BY <2>5
    <3>2. f[d - 1] = pick(d)[d - 1]
      BY <2>0, <3>1
    <3>3. Upto(d, pick(d + 1)) /\ Upto(d, pick(d))
      BY <1>5, <2>2 DEF Upto
    <3>4. pick(d)[d - 1] = pick(d + 1)[d - 1]
      BY <1>4, <3>1, <3>3
    <3> HIDE DEF f
    <3> QED
      BY <2>1, <2>3, <2>5, <3>2, <3>4
  <2> QED
    BY <2>4, <2>5
<1> DEFINE e == [d \in Nat |-> Go(f, d)]
<1>7. f = e
  <2> HIDE DEF Go, pick
  <2> QED
    BY <1>6, Zenon
<1>8. Derivation(nodes) = CHOOSE u : u = [d \in Nat |-> Go(u, d)]
  BY Zenon DEF Derivation, first
<1>9. Derivation(nodes) = [d \in Nat |-> Go(Derivation(nodes), d)]
  <2> HIDE DEF f
  <2> QED
    BY <1>7, <1>8, Zenon
<1>10. \A d \in Nat : Derivation(nodes)[d] = Go(Derivation(nodes), d)
  <2> HIDE DEF Go
  <2> QED
    BY <1>9, Zenon
<1>11. Derivation(nodes)[0] = first
  BY <1>10
<1>12. ASSUME NEW d \in Nat
       PROVE  Derivation(nodes)[d + 1] = Opened(Derivation(nodes)[d])
  <2>1. d + 1 \in Nat /\ d + 1 # 0 /\ (d + 1) - 1 = d
    OBVIOUS
  <2> QED
    BY <1>10, <2>1
<1> QED
  BY <1>11, <1>12 DEF first

-------------------------------------------------------------------------------
(***************************************************************************)
(* Sequences of nodes.  There is no set of all nodes, but one of those of  *)
(* each sequence.                                                          *)
(***************************************************************************)
IsList(s) == \E X : s \in Seq(X)

LEMMA ListFacts ==
  ASSUME NEW s, IsList(s)
  PROVE  /\ Len(s) \in Nat /\ DOMAIN s = 1 .. Len(s)
         /\ (s = <<>> <=> Len(s) = 0)
BY DEF IsList

LEMMA EmptyList == IsList(<<>>)
BY DEF IsList

LEMMA AppendList ==
  ASSUME NEW s, NEW e, IsList(s)
  PROVE  /\ IsList(Append(s, e)) /\ Len(Append(s, e)) = Len(s) + 1
         /\ \A i \in 1 .. Len(s) : Append(s, e)[i] = s[i]
         /\ Append(s, e)[Len(s) + 1] = e
<1>1. PICK X : s \in Seq(X)
  BY DEF IsList
<1> DEFINE Y == X \cup {e}
<1>2. s \in Seq(Y) /\ e \in Y
  BY <1>1
<1> HIDE DEF Y
<1>3. Append(s, e) \in Seq(Y)
  BY <1>2
<1> QED
  BY <1>2, <1>3 DEF IsList

LEMMA PartList ==
  ASSUME NEW s, IsList(s), NEW a \in 1 .. Len(s) + 1, NEW b \in 0 .. Len(s)
  PROVE  /\ IsList(SubSeq(s, a, b))
         /\ Len(SubSeq(s, a, b)) = IF a <= b THEN b - a + 1 ELSE 0
         /\ a <= b + 1 => Len(SubSeq(s, a, b)) = b - a + 1
         /\ \A i \in 1 .. b - a + 1 : SubSeq(s, a, b)[i] = s[a - 1 + i]
<1>1. PICK X : s \in Seq(X)
  BY DEF IsList
<1>2. SubSeq(s, a, b) \in Seq(X)
  BY <1>1
<1> QED
  BY <1>1, <1>2 DEF IsList

LEMMA JoinList ==
  ASSUME NEW s, NEW u, IsList(s), IsList(u)
  PROVE  /\ IsList(s \o u) /\ Len(s \o u) = Len(s) + Len(u)
         /\ \A i \in 1 .. Len(s) : (s \o u)[i] = s[i]
         /\ \A i \in 1 .. Len(u) : (s \o u)[Len(s) + i] = u[i]
<1>1. PICK X : s \in Seq(X)
  BY DEF IsList
<1>2. PICK Y : u \in Seq(Y)
  BY DEF IsList
<1> DEFINE Z == X \cup Y
<1>3. s \in Seq(Z) /\ u \in Seq(Z)
  BY <1>1, <1>2
<1> HIDE DEF Z
<1>4. s \o u \in Seq(Z) /\ Len(s) \in Nat /\ Len(u) \in Nat
  BY <1>3
<1>5. Len(s \o u) = Len(s) + Len(u) /\ \A i \in 1 .. Len(s) : (s \o u)[i] = s[i]
  BY <1>3, <1>4
<1>6. ASSUME NEW i \in 1 .. Len(u)
      PROVE  (s \o u)[Len(s) + i] = u[i]
  <2>1. Len(s) + i \in 1 .. Len(s) + Len(u) /\ Len(s) + i > Len(s)
    BY <1>4
  <2> QED
    BY <1>3, <1>4, <2>1
<1> QED
  BY <1>4, <1>5, <1>6 DEF IsList

LEMMA SameList ==
  ASSUME NEW s, NEW u, IsList(s), IsList(u), Len(s) = Len(u),
         \A i \in 1 .. Len(s) : s[i] = u[i]
  PROVE  s = u
<1>1. PICK X : s \in Seq(X)
  BY DEF IsList
<1>2. PICK Y : u \in Seq(Y)
  BY DEF IsList
<1>3. s = [i \in 1 .. Len(s) |-> s[i]] /\ u = [i \in 1 .. Len(u) |-> u[i]]
  BY <1>1, <1>2
<1> QED
  BY <1>3

-------------------------------------------------------------------------------
(***************************************************************************)
(* match_rule                                                              *)
(***************************************************************************)

\* From c on, with b nodes below the match: what is left of the nodes is first
\* read as the terms 1..k and then as more of a term that repeats
Reads(rhs, nodes, c, b) ==
  LET kids == SubSeq(nodes, b + 1, Len(nodes))
      k == c[1]
      i == c[2]
  IN  /\ b <= i
      /\ b = i => \A j \in 1 .. k : Repeats(rhs[j])
      /\ \E e \in b .. i :
           /\ e - b \in ReadAs(rhs, kids)[k]
           /\ c[3] => \A x \in e + 1 .. i : TermEq(rhs[k + 1], nodes[x])
           /\ ~c[3] => e = i

LEMMA TakeTerm ==
  ASSUME NEW rhs, NEW nodes, Len(rhs) \in Nat, IsList(nodes),
         NEW b \in 0 .. Len(nodes), NEW k \in 1 .. Len(rhs),
         NEW a \in b .. Len(nodes), NEW e \in a .. Len(nodes),
         a - b \in ReadAs(rhs, SubSeq(nodes, b + 1, Len(nodes)))[k - 1],
         \A x \in a + 1 .. e : TermEq(rhs[k], nodes[x]),
         ~Repeats(rhs[k]) => e = a + 1
  PROVE  e - b \in ReadAs(rhs, SubSeq(nodes, b + 1, Len(nodes)))[k]
<1> DEFINE kids == SubSeq(nodes, b + 1, Len(nodes))
<1>1. Len(nodes) \in Nat
  BY ListFacts
<1>2. Len(kids) = Len(nodes) - b /\ \A x \in 1 .. Len(nodes) - b : kids[x] = nodes[b + x]
  <2>1. b + 1 \in 1 .. Len(nodes) + 1 /\ Len(nodes) \in 0 .. Len(nodes)
    BY <1>1
  <2>2. b + 1 <= Len(nodes) + 1
    BY <1>1
  <2> HIDE DEF kids
  <2>3. Len(kids) = Len(nodes) - (b + 1) + 1
        /\ \A x \in 1 .. Len(nodes) - (b + 1) + 1 : kids[x] = nodes[b + 1 - 1 + x]
    BY <2>1, <2>2, PartList DEF kids
  <2>4. Len(nodes) - (b + 1) + 1 = Len(nodes) - b /\ \A x \in Int : b + 1 - 1 + x = b + x
    BY SMTT(30), <1>1
  <2> QED
    BY <2>3, <2>4
<1> HIDE DEF kids
<1>3. ReadAs(rhs, kids)[k] = Read(rhs, kids, ReadAs(rhs, kids), k)
  BY ReadAsRuns
<1>4. e - b \in (a - b) .. Len(kids)
  BY <1>1, <1>2
<1>5. ASSUME NEW x \in (a - b) + 1 .. e - b
      PROVE  TermEq(rhs[k], kids[x])
  <2>1. x \in 1 .. Len(nodes) - b /\ b + x \in a + 1 .. e
    BY <1>1
  <2> QED
    BY <1>2, <2>1
<1>6. rhs[k][1] # "m" => e - b = (a - b) + 1
  BY <1>1 DEF Repeats
<1> DEFINE R == {j \in (a - b) .. Len(kids) :
                   /\ rhs[k][1] # "m" => j = (a - b) + 1
                   /\ \A x \in (a - b) + 1 .. j : TermEq(rhs[k], kids[x])}
<1>7. e - b \in R
  BY <1>4, <1>5, <1>6
<1>8. a - b \in ReadAs(rhs, kids)[k - 1]
  BY DEF kids
<1>9. k # 0
  OBVIOUS
<1> HIDE DEF R
<1>10. Read(rhs, kids, ReadAs(rhs, kids), k) =
        UNION {{j \in i .. Len(kids) : /\ rhs[k][1] # "m" => j = i + 1
                                      /\ \A x \in i + 1 .. j : TermEq(rhs[k], kids[x])} :
                 i \in ReadAs(rhs, kids)[k - 1]}
  BY <1>9, Zenon DEF Read
<1>11. R \in {{j \in i .. Len(kids) : /\ rhs[k][1] # "m" => j = i + 1
                                      /\ \A x \in i + 1 .. j : TermEq(rhs[k], kids[x])} :
                 i \in ReadAs(rhs, kids)[k - 1]}
  BY <1>8, Zenon DEF R
<1>12. e - b \in Read(rhs, kids, ReadAs(rhs, kids), k)
  BY <1>7, <1>10, <1>11
<1> QED
  BY <1>3, <1>12 DEF kids

\* Whatever match_rule finds, from wherever it goes on, is read by the terms
LEMMA MatchFrom ==
  ASSUME NEW rhs, NEW nodes, Len(rhs) \in Nat, IsList(nodes)
  PROVE  \A c \in Turns(rhs, nodes) :
           From(rhs, nodes)[c] # -1 =>
             /\ From(rhs, nodes)[c] \in 0 .. c[2]
             /\ Reads(rhs, nodes, c, From(rhs, nodes)[c])
<1> DEFINE F == From(rhs, nodes)
           D == Turns(rhs, nodes)
           Good(c) == F[c] # -1 => F[c] \in 0 .. c[2] /\ Reads(rhs, nodes, c, F[c])
           S == {z \in Nat : \A c \in D : Left(c) < z => Good(c)}
<1>0. Len(nodes) \in Nat
  BY ListFacts
<1>1. \A c \in D : Left(c) \in Nat /\ Left(c) < Len(rhs) + Len(nodes) + 1
  BY <1>0 DEF Turns, Left
<1>2. \A c \in D : F[c] = Turn(rhs, nodes, F, c)
  BY <1>0, FromRuns
<1> HIDE DEF F
<1>3. 0 \in S
  <2>1. \A c \in D : ~(Left(c) < 0)
    BY <1>1
  <2> QED
    BY <2>1
<1>4. ASSUME NEW z \in Nat, z \in S
      PROVE  z + 1 \in S
  <2> SUFFICES ASSUME NEW c \in D, Left(c) < z + 1, F[c] # -1
               PROVE  F[c] \in 0 .. c[2] /\ Reads(rhs, nodes, c, F[c])
    BY DEF S
  <2> DEFINE k == c[1]
             i == c[2]
             a == c[3]
             more == a /\ i > 0 /\ TermEq(rhs[k + 1], nodes[i])
             b == F[c]
             kids == SubSeq(nodes, b + 1, Len(nodes))
             RA == ReadAs(rhs, kids)
  <2>1. /\ k \in 0 .. Len(rhs) /\ i \in 0 .. Len(nodes) /\ a \in BOOLEAN
        /\ Left(c) = k + i /\ c = <<k, i, a>>
    BY DEF Turns, Left
  <2>2. ASSUME NEW j \in 0 .. Len(rhs), NEW x \in 0 .. Len(nodes), NEW r, r \in BOOLEAN,
               j + x < k + i, F[c] = F[<<j, x, r>>]
        PROVE  /\ b \in 0 .. x
               /\ b = x => \A q \in 1 .. j : Repeats(rhs[q])
               /\ \E e \in b .. x :
                    /\ e - b \in RA[j]
                    /\ r => \A y \in e + 1 .. x : TermEq(rhs[j + 1], nodes[y])
                    /\ ~r => e = x
    <3> DEFINE u == <<j, x, r>>
    <3>1. u \in D /\ Left(u) = j + x /\ u[1] = j /\ u[2] = x /\ u[3] = r
      BY <1>0, <2>2, TurnOf
    <3>2. Left(u) < z
      BY <2>1, <2>2, <3>1
    <3>3. Good(u)
      BY <1>4, <3>1, <3>2
    <3> HIDE DEF u
    <3>4. b \in 0 .. x /\ Reads(rhs, nodes, u, b)
      BY <2>2, <3>1, <3>3 DEF u
    <3> QED
      BY <3>1, <3>4, Zenon DEF Reads
  <2>3. SUFFICES
          /\ b \in 0 .. i
          /\ b = i => \A q \in 1 .. k : Repeats(rhs[q])
          /\ \E e \in b .. i :
               /\ e - b \in RA[k]
               /\ a => \A y \in e + 1 .. i : TermEq(rhs[k + 1], nodes[y])
               /\ ~a => e = i
    <3>1. b \in 0 .. i => b <= i
      BY <2>1
    <3> QED
      BY <2>3, <3>1, Zenon DEF Reads
  <2>4. F[c] = IF k = 0 THEN IF more THEN F[<<0, i - 1, TRUE>>] ELSE i
               ELSE IF i = 0 THEN -1
               ELSE IF TermEq(rhs[k], nodes[i]) THEN F[<<k - 1, i - 1, Repeats(rhs[k])>>]
               ELSE IF more THEN F[<<k, i - 1, TRUE>>]
               ELSE IF Repeats(rhs[k]) THEN F[<<k - 1, i, FALSE>>]
               ELSE -1
    BY <1>2, Zenon DEF Turn
  <2> HIDE DEF k, i, a, S, D, b, RA
  <2>5. CASE more /\ F[c] = F[<<k, i - 1, TRUE>>]
    <3>1. i - 1 \in 0 .. Len(nodes) /\ k + (i - 1) < k + i /\ i \in Nat
      BY <2>1, <2>5
    <3>2. /\ b \in 0 .. i - 1
          /\ \E e \in b .. i - 1 :
               /\ e - b \in RA[k]
               /\ \A y \in e + 1 .. i - 1 : TermEq(rhs[k + 1], nodes[y])
      BY <2>1, <2>2, <2>5, <3>1
    <3>3. PICK e \in b .. i - 1 :
            /\ e - b \in RA[k]
            /\ \A y \in e + 1 .. i - 1 : TermEq(rhs[k + 1], nodes[y])
      BY <3>2
    <3>4. \A y \in e + 1 .. i : TermEq(rhs[k + 1], nodes[y])
      BY <2>5, <3>1, <3>2, <3>3
    <3>5. e \in b .. i /\ b \in 0 .. i /\ b # i
      BY <3>1, <3>2, <3>3
    <3> QED
      BY <2>5, <3>3, <3>4, <3>5
  <2>6. CASE k = 0 /\ ~more
    <3>1. b = i
      BY <2>4, <2>6 DEF b
    <3>2. RA[0] = {0}
      <4>1. 0 \in 0 .. Len(rhs)
        OBVIOUS
      <4>2. RA[0] = Read(rhs, kids, RA, 0)
        BY <4>1, ReadAsRuns DEF RA
      <4> QED
        BY <4>2, Zenon DEF Read
    <3>3. i - b = 0 /\ i \in b .. i
      BY <2>1, <3>1
    <3> QED
      BY <2>1, <2>6, <3>1, <3>2, <3>3
  <2>7. CASE k # 0 /\ i # 0 /\ TermEq(rhs[k], nodes[i])
    <3>1. /\ i - 1 \in 0 .. Len(nodes) /\ k - 1 \in 0 .. Len(rhs) /\ (k - 1) + (i - 1) < k + i
          /\ i \in Nat /\ k \in 1 .. Len(rhs) /\ (k - 1) + 1 = k
      BY <2>1, <2>7
    <3>2. Repeats(rhs[k]) \in BOOLEAN /\ F[c] = F[<<k - 1, i - 1, Repeats(rhs[k])>>]
      BY <2>4, <2>7 DEF Repeats
    <3>3. /\ b \in 0 .. i - 1
          /\ \E e \in b .. i - 1 :
               /\ e - b \in RA[k - 1]
               /\ Repeats(rhs[k]) => \A y \in e + 1 .. i - 1 : TermEq(rhs[k], nodes[y])
               /\ ~Repeats(rhs[k]) => e = i - 1
      BY <2>2, <3>1, <3>2
    <3>4. PICK e \in b .. i - 1 :
               /\ e - b \in RA[k - 1]
               /\ Repeats(rhs[k]) => \A y \in e + 1 .. i - 1 : TermEq(rhs[k], nodes[y])
               /\ ~Repeats(rhs[k]) => e = i - 1
      BY <3>3
    <3>5. \A y \in e + 1 .. i : TermEq(rhs[k], nodes[y])
      <4> SUFFICES ASSUME NEW y \in e + 1 .. i PROVE TermEq(rhs[k], nodes[y])
        OBVIOUS
      <4>1. Repeats(rhs[k]) => y \in e + 1 .. i - 1 \/ y = i
        BY <3>1, <3>3
      <4>2. ~Repeats(rhs[k]) => y = i
        BY <3>1, <3>3, <3>4
      <4> QED
        BY <2>7, <3>4, <4>1, <4>2
    <3>6. /\ b \in 0 .. Len(nodes) /\ e \in b .. Len(nodes) /\ i \in e .. Len(nodes)
          /\ ~Repeats(rhs[k]) => i = e + 1
      BY <1>0, <2>1, <3>1, <3>3, <3>4
    <3>7. i - b \in RA[k]
      BY <3>1, <3>4, <3>5, <3>6, TakeTerm DEF RA
    <3>8. b \in 0 .. i /\ b # i /\ i \in b .. i /\ \A y \in i + 1 .. i : FALSE
      BY <3>1, <3>3
    <3> QED
      BY <3>7, <3>8
  <2>8. CASE k # 0 /\ i # 0 /\ ~TermEq(rhs[k], nodes[i]) /\ ~more
    <3>1. /\ k - 1 \in 0 .. Len(rhs) /\ (k - 1) + i < k + i
          /\ i \in Nat /\ k \in 1 .. Len(rhs) /\ (k - 1) + 1 = k
      BY SMTT(30), <2>1, <2>8
    <3>2. Repeats(rhs[k]) /\ F[c] = F[<<k - 1, i, FALSE>>]
      BY <2>4, <2>8
    <3>3. /\ b \in 0 .. i
          /\ b = i => \A q \in 1 .. k - 1 : Repeats(rhs[q])
          /\ \E e \in b .. i : e - b \in RA[k - 1] /\ e = i
      <4>1. i \in 0 .. Len(nodes)
        BY <2>1
      <4>2. /\ b \in 0 .. i
            /\ b = i => \A q \in 1 .. k - 1 : Repeats(rhs[q])
            /\ \E e \in b .. i :
                 /\ e - b \in RA[k - 1]
                 /\ FALSE => \A y \in e + 1 .. i : TermEq(rhs[k - 1 + 1], nodes[y])
                 /\ ~FALSE => e = i
        BY <2>2, <3>1, <3>2, <4>1, Zenon
      <4> QED
        BY <4>2, Zenon
    <3>4. i - b \in RA[k - 1]
      BY <3>3
    <3>5. /\ b \in 0 .. Len(nodes) /\ i \in b .. Len(nodes) /\ i \in i .. Len(nodes)
          /\ \A y \in i + 1 .. i : FALSE
      BY SMTT(30), <1>0, <2>1, <3>1, <3>3
    <3>6. i - b \in RA[k]
      BY <3>1, <3>2, <3>4, <3>5, TakeTerm DEF RA
    <3>7. b = i => \A q \in 1 .. k : Repeats(rhs[q])
      BY <3>1, <3>2, <3>3
    <3>8. i \in b .. i
      BY <3>1, <3>3
    <3> QED
      BY <3>3, <3>5, <3>6, <3>7, <3>8
  <2> QED
    <3>1. k # 0 /\ i = 0 => F[c] = -1
      BY <2>4
    <3>2. k = 0 /\ more => F[c] = F[<<k, i - 1, TRUE>>]
      BY <2>4
    <3>3. k # 0 /\ i # 0 /\ ~TermEq(rhs[k], nodes[i]) /\ more => F[c] = F[<<k, i - 1, TRUE>>]
      BY <2>4
    <3> HIDE DEF more
    <3> QED
      BY <2>5, <2>6, <2>7, <2>8, <3>1, <3>2, <3>3
<1>5. Len(rhs) + Len(nodes) + 1 \in S
  <2> HIDE DEF S
  <2>1. \A z \in Nat : z \in S
    BY <1>3, <1>4, NatSteps
  <2> QED
    BY <1>0, <2>1
<1> QED
  BY <1>1, <1>5 DEF F

-------------------------------------------------------------------------------
(***************************************************************************)
(* The grammar                                                             *)
(***************************************************************************)

\* What is known of the terms of each rule.  One of them occurs exactly once; where
\* the last repeats, it follows a condition, and nothing else comes before it; the
\* end marker ends a unit only; and a unit ends nothing.
GoodRule(r) ==
  /\ IsList(r.rhs) /\ Len(r.rhs) # 0
  /\ \E k \in 1 .. Len(r.rhs) : ~Repeats(r.rhs[k])
  /\ Repeats(Last(r.rhs)) => Len(r.rhs) = 2 /\ r.rhs[1] = <<"n", "Cond">>
  /\ Last(r.rhs)[2] = "FEND" => r.lhs = "Unit"
  /\ Last(r.rhs)[2] # "Unit"

\* Any rule that ends with a term that occurs once
LEMMA RuleEnds ==
  ASSUME NEW nt, NEW s, IsList(s), Len(s) # 0, NEW z, z = Last(s),
         z[1] # "m", z[2] = "FEND" => nt = "Unit", z[2] # "Unit"
  PROVE  GoodRule(Rule(nt, s))
<1>1. Len(s) \in 1 .. Len(s) /\ s[Len(s)] = z
  BY ListFacts DEF Last
<1>2. \E k \in 1 .. Len(s) : ~Repeats(s[k])
  BY <1>1 DEF Repeats
<1> DEFINE r == Rule(nt, s)
<1>3. r.lhs = nt /\ r.rhs = s
  BY DEF Rule
<1> HIDE DEF r
<1>4. ~Repeats(Last(s)) /\ (Last(s)[2] = "FEND" => nt = "Unit") /\ Last(s)[2] # "Unit"
  BY DEF Repeats
<1>5. GoodRule(r)
  BY <1>2, <1>3, <1>4 DEF GoodRule
<1> QED
  BY <1>5 DEF r

LEMMA RuleOfOne ==
  ASSUME NEW nt, NEW x, x = "FEND" => nt = "Unit", x # "Unit"
  PROVE  GoodRule(Rule(nt, <<t(x)>>))
<1> DEFINE z == t(x)
           s == <<z>>
<1>1. z[1] # "m" /\ z[2] = x
  BY DEF t
<1> HIDE DEF z
<1>2. s \in Seq({z}) /\ Len(s) = 1 /\ s[1] = z
  OBVIOUS
<1> HIDE DEF s
<1>3. IsList(s) /\ z = Last(s)
  BY <1>2 DEF IsList, Last
<1> QED
  BY <1>1, <1>2, <1>3, RuleEnds DEF s, z

LEMMA RuleOfTwo ==
  ASSUME NEW nt, NEW a, NEW x, x = "FEND" => nt = "Unit", x # "Unit"
  PROVE  GoodRule(Rule(nt, <<a, t(x)>>))
<1> DEFINE z == t(x)
           s == <<a, z>>
<1>1. z[1] # "m" /\ z[2] = x
  BY DEF t
<1> HIDE DEF z
<1>2. s \in Seq({a, z}) /\ Len(s) = 2 /\ s[2] = z
  OBVIOUS
<1> HIDE DEF s
<1>3. IsList(s) /\ z = Last(s)
  BY <1>2 DEF IsList, Last
<1> QED
  BY <1>1, <1>2, <1>3, RuleEnds DEF s, z

LEMMA RuleOfThree ==
  ASSUME NEW nt, NEW a, NEW b, NEW x, x = "FEND" => nt = "Unit", x # "Unit"
  PROVE  GoodRule(Rule(nt, <<a, b, t(x)>>))
<1> DEFINE z == t(x)
           s == <<a, b, z>>
<1>1. z[1] # "m" /\ z[2] = x
  BY DEF t
<1> HIDE DEF z
<1>2. s \in Seq({a, b, z}) /\ Len(s) = 3 /\ s[3] = z
  OBVIOUS
<1> HIDE DEF s
<1>3. IsList(s) /\ z = Last(s)
  BY <1>2 DEF IsList, Last
<1> QED
  BY <1>1, <1>2, <1>3, RuleEnds DEF s, z

LEMMA RuleOfFour ==
  ASSUME NEW nt, NEW a, NEW b, NEW c, NEW x, x = "FEND" => nt = "Unit", x # "Unit"
  PROVE  GoodRule(Rule(nt, <<a, b, c, t(x)>>))
<1> DEFINE z == t(x)
           s == <<a, b, c, z>>
<1>1. z[1] # "m" /\ z[2] = x
  BY DEF t
<1> HIDE DEF z
<1>2. s \in Seq({a, b, c, z}) /\ Len(s) = 4 /\ s[4] = z
  OBVIOUS
<1> HIDE DEF s
<1>3. IsList(s) /\ z = Last(s)
  BY <1>2 DEF IsList, Last
<1> QED
  BY <1>1, <1>2, <1>3, RuleEnds DEF s, z

LEMMA RuleOfFive ==
  ASSUME NEW nt, NEW a, NEW b, NEW c, NEW d, NEW x, x = "FEND" => nt = "Unit", x # "Unit"
  PROVE  GoodRule(Rule(nt, <<a, b, c, d, t(x)>>))
<1> DEFINE z == t(x)
           s == <<a, b, c, d, z>>
<1>1. z[1] # "m" /\ z[2] = x
  BY DEF t
<1> HIDE DEF z
<1>2. s \in Seq({a, b, c, d, z}) /\ Len(s) = 5 /\ s[5] = z
  OBVIOUS
<1> HIDE DEF s
<1>3. IsList(s) /\ z = Last(s)
  BY <1>2 DEF IsList, Last
<1> QED
  BY <1>1, <1>2, <1>3, RuleEnds DEF s, z

LEMMA RuleOfSix ==
  ASSUME NEW nt, NEW a, NEW b, NEW c, NEW d, NEW e, NEW x, x = "FEND" => nt = "Unit", x # "Unit"
  PROVE  GoodRule(Rule(nt, <<a, b, c, d, e, t(x)>>))
<1> DEFINE z == t(x)
           s == <<a, b, c, d, e, z>>
<1>1. z[1] # "m" /\ z[2] = x
  BY DEF t
<1> HIDE DEF z
<1>2. s \in Seq({a, b, c, d, e, z}) /\ Len(s) = 6 /\ s[6] = z
  OBVIOUS
<1> HIDE DEF s
<1>3. IsList(s) /\ z = Last(s)
  BY <1>2 DEF IsList, Last
<1> QED
  BY <1>1, <1>2, <1>3, RuleEnds DEF s, z

LEMMA RuleOfSeven ==
  ASSUME NEW nt, NEW a, NEW b, NEW c, NEW d, NEW e, NEW f, NEW x, x = "FEND" => nt = "Unit", x # "Unit"
  PROVE  GoodRule(Rule(nt, <<a, b, c, d, e, f, t(x)>>))
<1> DEFINE z == t(x)
           s == <<a, b, c, d, e, f, z>>
<1>1. z[1] # "m" /\ z[2] = x
  BY DEF t
<1> HIDE DEF z
<1>2. s \in Seq({a, b, c, d, e, f, z}) /\ Len(s) = 7 /\ s[7] = z
  OBVIOUS
<1> HIDE DEF s
<1>3. IsList(s) /\ z = Last(s)
  BY <1>2 DEF IsList, Last
<1> QED
  BY <1>1, <1>2, <1>3, RuleEnds DEF s, z

LEMMA RuleOfNonterminal ==
  ASSUME NEW nt, NEW x, x # "FEND", x # "Unit"
  PROVE  GoodRule(Rule(nt, <<n(x)>>))
<1> DEFINE z == n(x)
           s == <<z>>
<1>1. z[1] # "m" /\ z[2] = x
  BY DEF n
<1> HIDE DEF z
<1>2. s \in Seq({z}) /\ Len(s) = 1 /\ s[1] = z
  OBVIOUS
<1> HIDE DEF s
<1>3. IsList(s) /\ z = Last(s)
  BY <1>2 DEF IsList, Last
<1> QED
  BY <1>1, <1>2, <1>3, RuleEnds DEF s, z

\* A table of such rules
GoodRules(s) == IsList(s) /\ \A i \in 1 .. Len(s) : GoodRule(s[i])


LEMMA StatementsKnown == GoodRules(StatementRules)
<1>1. GoodRule(Rule("Unit", <<t("FBEG"), m("Stmt"), t("FEND")>>))
  BY RuleOfThree
<1>2. GoodRule(Rule("Stmt", <<t("WAIT"), n("Expr"), t("WFOR"), n("Expr"), t("SCOL")>>))
  BY RuleOfFive
<1>3. GoodRule(Rule("Stmt", <<t("WAIT"), n("Expr"), t("WFOR"), n("Expr"), t("WNOB"), t("SCOL")>>))
  BY RuleOfSix
<1>4. GoodRule(Rule("Stmt", <<t("WAIT"), n("Expr"), t("WUNT"), n("Expr"), t("SCOL")>>))
  BY RuleOfFive
<1>5. GoodRule(Rule("Stmt", <<t("WAIT"), n("Expr"), t("WUNT"), n("Expr"), t("WNOB"), t("SCOL")>>))
  BY RuleOfSix
<1>6. GoodRule(Rule("Stmt", <<t("WAIT"), n("Expr"), t("SCOL")>>))
  BY RuleOfThree
<1>7. GoodRule(Rule("Stmt", <<t("WAIT"), n("Expr"), t("WNOB"), t("SCOL")>>))
  BY RuleOfFour
<1>8. GoodRule(Rule("Stmt", <<t("RETN"), n("Expr"), t("SCOL")>>))
  BY RuleOfThree
<1>9. GoodRule(Rule("Stmt", <<t("RETN"), t("SCOL")>>))
  BY RuleOfTwo
<1>10. GoodRule(Rule("Stmt", <<t("USEU"), n("Expr"), t("SCOL")>>))
  BY RuleOfThree
<1>11. GoodRule(Rule("Stmt", <<t("EXPO"), t("TYPE"), n("Expr"), t("SCOL")>>))
  BY RuleOfFour
<1>12. GoodRule(Rule("Stmt", <<t("TYPE"), n("Expr"), t("SCOL")>>))
  BY RuleOfThree
<1>13. GoodRule(Rule("Ctrl", <<n("Cond"), m("Elif")>>))
  <2> DEFINE u == <<n("Cond"), m("Elif")>>
             r == Rule("Ctrl", u)
  <2>1. u \in Seq({n("Cond"), m("Elif")}) /\ Len(u) = 2 /\ u[1] = n("Cond") /\ u[2] = m("Elif")
    OBVIOUS
  <2> HIDE DEF u
  <2>2. IsList(u) /\ Last(u) = m("Elif")
    BY <2>1 DEF IsList, Last
  <2>3. ~Repeats(u[1]) /\ 1 \in 1 .. Len(u)
    BY <2>1 DEF n, Repeats
  <2>4. r.lhs = "Ctrl" /\ r.rhs = u
    BY DEF Rule
  <2> HIDE DEF r
  <2>5. m("Elif")[2] = "Elif" /\ n("Cond") = <<"n", "Cond">>
    BY DEF m, n
  <2>6. GoodRule(r)
    BY <2>1, <2>2, <2>3, <2>4, <2>5 DEF GoodRule
  <2> QED
    BY <2>6 DEF r, u
<1>14. GoodRule(Rule("Ctrl", <<n("Cond"), m("Elif"), n("Else")>>))
  <2> DEFINE u == <<n("Cond"), m("Elif"), n("Else")>>
             z == n("Else")
  <2>1. /\ u \in Seq({n("Cond"), m("Elif"), n("Else")}) /\ Len(u) = 3 /\ u[3] = z
        /\ z[1] # "m" /\ z[2] = "Else"
    BY DEF n
  <2> HIDE DEF u, z
  <2>2. IsList(u) /\ z = Last(u)
    BY <2>1 DEF IsList, Last
  <2> QED
    BY <2>1, <2>2, RuleEnds DEF u
<1>15. GoodRule(Rule("Ctrl", <<n("Dowh")>>))
  BY RuleOfNonterminal
<1>16. GoodRule(Rule("Ctrl", <<n("Whil")>>))
  BY RuleOfNonterminal
<1>17. GoodRule(Rule("Cond", <<t("COND"), n("Expr"), t("LBRC"), m("Stmt"), t("RBRC")>>))
  BY RuleOfFive
<1>18. GoodRule(Rule("Elif", <<t("ELIF"), n("Expr"), t("LBRC"), m("Stmt"), t("RBRC")>>))
  BY RuleOfFive
<1>19. GoodRule(Rule("Else", <<t("ELSE"), t("LBRC"), m("Stmt"), t("RBRC")>>))
  BY RuleOfFour
<1>20. GoodRule(Rule("Dowh", <<t("DOWH"), t("LBRC"), m("Stmt"), t("RBRC"), t("WHIL"), n("Expr"), t("SCOL")>>))
  BY RuleOfSeven
<1>21. GoodRule(Rule("Whil", <<t("WHIL"), n("Expr"), t("LBRC"), m("Stmt"), t("RBRC")>>))
  BY RuleOfFive
<1>22. GoodRule(Rule("Stmt", <<m("Qual"), n("Expr"), t("SCOL")>>))
  BY RuleOfThree
<1>23. GoodRule(Rule("Stmt", <<n("Ctrl")>>))
  BY RuleOfNonterminal
<1>24. GoodRule(Rule("Stmt", <<n("Func")>>))
  BY RuleOfNonterminal
<1>25. GoodRule(Rule("Func", <<m("Qual"), n("Expr"), t("LBRC"), m("Stmt"), t("RBRC")>>))
  BY RuleOfFive
<1>26. GoodRule(Rule("Stmt", <<t("NOIN"), t("LBRC"), m("Stmt"), t("RBRC")>>))
  BY RuleOfFour
<1>27. GoodRule(Rule("Stmt", <<t("LBRC"), m("Stmt"), t("RBRC")>>))
  BY RuleOfThree
<1>28. GoodRule(Rule("Qual", <<t("CONS")>>))
  BY RuleOfOne
<1>29. GoodRule(Rule("Qual", <<t("EXPO")>>))
  BY RuleOfOne
<1>30. GoodRule(Rule("Qual", <<t("STAT")>>))
  BY RuleOfOne
<1>31. Len(StatementRules) = 30
  BY DEF StatementRules
<1>32. \A i \in 1 .. 30 : GoodRule(StatementRules[i])
  BY <1>1, <1>2, <1>3, <1>4, <1>5, <1>6, <1>7, <1>8, <1>9, <1>10, <1>11, <1>12, <1>13, <1>14, <1>15, <1>16, <1>17, <1>18, <1>19, <1>20, <1>21, <1>22, <1>23, <1>24, <1>25, <1>26, <1>27, <1>28, <1>29, <1>30 DEF StatementRules
<1>33. StatementRules \in Seq({StatementRules[i] : i \in 1 .. 30})
  <2>1. StatementRules = [i \in 1 .. 30 |-> StatementRules[i]]
    BY SMTT(30) DEF StatementRules
  <2> QED
    BY <2>1
<1> QED
  BY <1>31, <1>32, <1>33 DEF GoodRules, IsList

LEMMA JoinRules ==
  ASSUME NEW s, NEW u, GoodRules(s), GoodRules(u)
  PROVE  GoodRules(s \o u)
<1>1. IsList(s) /\ IsList(u) /\ Len(s) \in Nat /\ Len(u) \in Nat
  BY ListFacts DEF GoodRules
<1>2. /\ IsList(s \o u) /\ Len(s \o u) = Len(s) + Len(u)
      /\ \A i \in 1 .. Len(s) : (s \o u)[i] = s[i]
      /\ \A i \in 1 .. Len(u) : (s \o u)[Len(s) + i] = u[i]
  BY <1>1, JoinList
<1>3. ASSUME NEW i \in 1 .. Len(s) + Len(u)
      PROVE  GoodRule((s \o u)[i])
  <2>1. CASE i <= Len(s)
    <3>1. i \in 1 .. Len(s)
      BY <1>1, <2>1
    <3> QED
      BY <1>2, <3>1 DEF GoodRules
  <2>2. CASE i > Len(s)
    <3>1. i - Len(s) \in 1 .. Len(u) /\ Len(s) + (i - Len(s)) = i
      BY <1>1, <2>2
    <3>2. (s \o u)[i] = u[i - Len(s)]
      BY <1>2, <3>1
    <3> QED
      BY <3>1, <3>2 DEF GoodRules
  <2> QED
    BY <1>1, <2>1, <2>2
<1> QED
  BY <1>2, <1>3 DEF GoodRules

\* As many as there are operators
LEMMA TableRules ==
  ASSUME NEW ops, NEW X, ops \in Seq(X), NEW g,
         \A i \in 1 .. Len(ops) : GoodRule(g[i]), g = [i \in 1 .. Len(ops) |-> g[i]]
  PROVE  GoodRules(g)
<1> DEFINE k == Len(ops)
<1>1. k \in Nat
  OBVIOUS
<1> HIDE DEF k
<1>2. g \in Seq({g[i] : i \in 1 .. k}) /\ Len(g) = k
  BY <1>1 DEF k
<1> QED
  BY <1>2 DEF GoodRules, IsList, k

\* Any rule that ends with an expression
LEMMA ExpressionEnds ==
  ASSUME NEW nt, NEW s, IsList(s), Len(s) # 0, Last(s) = n("Expr")
  PROVE  GoodRule(Rule(nt, s))
<1>1. n("Expr")[1] # "m" /\ n("Expr")[2] # "FEND" /\ n("Expr")[2] # "Unit"
  BY DEF n
<1> QED
  BY <1>1, RuleEnds

LEMMA BinaryRule ==
  ASSUME NEW op
  PROVE  GoodRule(Rule("Bexp", <<n("Expr"), t(op), n("Expr")>>))
<1> DEFINE x == n("Expr")
           y == t(op)
           s == <<x, y, x>>
<1>1. s \in Seq({x, y}) /\ Len(s) = 3 /\ s[3] = x
  OBVIOUS
<1> HIDE DEF s
<1>2. IsList(s) /\ Last(s) = x
  BY <1>1 DEF IsList, Last
<1> QED
  BY <1>1, <1>2, ExpressionEnds DEF s

LEMMA UnaryRule ==
  ASSUME NEW op
  PROVE  GoodRule(Rule("Uexp", <<t(op), n("Expr")>>))
<1> DEFINE x == n("Expr")
           y == t(op)
           s == <<y, x>>
<1>1. s \in Seq({x, y}) /\ Len(s) = 2 /\ s[2] = x
  OBVIOUS
<1> HIDE DEF s
<1>2. IsList(s) /\ Last(s) = x
  BY <1>1 DEF IsList, Last
<1> QED
  BY <1>1, <1>2, ExpressionEnds DEF s

LEMMA TernaryRule ==
  GoodRule(Rule("Texp", <<n("Expr"), t("QUES"), n("Expr"), t("COLN"), n("Expr")>>))
<1> DEFINE x == n("Expr")
           s == <<x, t("QUES"), x, t("COLN"), x>>
<1>1. s \in Seq({x, t("QUES"), t("COLN")}) /\ Len(s) = 5 /\ s[5] = x
  OBVIOUS
<1> HIDE DEF s
<1>2. IsList(s) /\ Last(s) = x
  BY <1>1 DEF IsList, Last
<1> QED
  BY <1>1, <1>2, ExpressionEnds DEF s

LEMMA OperatorsKnown == IsList(BinaryOps) /\ IsList(UnaryOps)
<1> DEFINE u == <<"COLN", "SCOP", "ATSI", "MEMB", "AROW", "EQUL", "NEQL", "LTHN", "GTHN", "LTEQ",
                  "GTEQ", "CONJ", "DISJ", "PLUS", "MINS", "MULT", "DIVI", "MODU", "LSHF", "RSHF",
                  "AMPS", "CARE", "PIPE", "COMA", "CAST">>
<1>1. AssignOps \in Seq({AssignOps[i] : i \in 1 .. 11})
  BY DEF AssignOps
<1>2. u \in Seq({u[i] : i \in 1 .. 25})
  OBVIOUS
<1>3. UnaryOps \in Seq({UnaryOps[i] : i \in 1 .. 11})
  BY DEF UnaryOps
<1>4. BinaryOps = AssignOps \o u
  BY DEF BinaryOps
<1> HIDE DEF u
<1> QED
  BY <1>1, <1>2, <1>3, <1>4, JoinList DEF IsList

LEMMA ExpressionsKnown == GoodRules(ExpressionRules)
<1> DEFINE atoms == <<"NAME", "NMBR", "STRL">>
           exprs == <<"Atom", "Fexp", "Pexp", "Texp", "Bexp", "Uexp", "Xexp", "Wexp", "Aexp">>
           steps == <<"INCR", "DECR">>
           units == <<"WMSE", "WSEC">>
           e1 == [i \in DOMAIN atoms |-> Rule("Atom", <<t(atoms[i])>>)]
           e2 == [i \in DOMAIN exprs |-> Rule("Expr", <<n(exprs[i])>>)]
           e3 == << Rule("Fexp", <<n("Expr"), t("LPAR"), n("Expr"), t("RPAR")>>),
                    Rule("Fexp", <<n("Expr"), t("LPAR"), t("RPAR")>>),
                    Rule("Pexp", <<t("LPAR"), n("Expr"), t("RPAR")>>),
                    Rule("Texp", <<n("Expr"), t("QUES"), n("Expr"), t("COLN"), n("Expr")>>) >>
           e4 == [i \in DOMAIN BinaryOps |-> Rule("Bexp", <<n("Expr"), t(BinaryOps[i]), n("Expr")>>)]
           e5 == [i \in DOMAIN UnaryOps |-> Rule("Uexp", <<t(UnaryOps[i]), n("Expr")>>)]
           e6 == [i \in DOMAIN steps |-> Rule("Xexp", <<n("Expr"), t(steps[i])>>)]
           e7 == [i \in DOMAIN units |-> Rule("Wexp", <<n("Expr"), t(units[i])>>)]
           e8 == << Rule("Aexp", <<n("Expr"), t("LBRA"), n("Expr"), t("RBRA")>>),
                    Rule("Stmt", <<t("LBRA"), n("Expr"), t("RBRA")>>) >>
<1>1. ExpressionRules = e1 \o e2 \o e3 \o e4 \o e5 \o e6 \o e7 \o e8
  BY Zenon DEF ExpressionRules, Each
<1>2. GoodRules(e1)
  <2>1. atoms \in Seq({atoms[i] : i \in 1 .. 3}) /\ DOMAIN atoms = 1 .. Len(atoms)
        /\ \A i \in 1 .. Len(atoms) : atoms[i] # "FEND" /\ atoms[i] # "Unit"
    OBVIOUS
  <2> HIDE DEF atoms
  <2>2. \A i \in 1 .. Len(atoms) : GoodRule(Rule("Atom", <<t(atoms[i])>>))
    BY <2>1, RuleOfOne
  <2>3. \A i \in 1 .. Len(atoms) : GoodRule(e1[i])
    BY <2>1, <2>2
  <2>4. e1 = [i \in 1 .. Len(atoms) |-> e1[i]]
    BY <2>1
  <2> HIDE DEF e1
  <2> QED
    BY <2>1, <2>3, <2>4, TableRules
<1>3. GoodRules(e2)
  <2>1. exprs \in Seq({exprs[i] : i \in 1 .. 9}) /\ DOMAIN exprs = 1 .. Len(exprs)
        /\ \A i \in 1 .. Len(exprs) : exprs[i] # "FEND" /\ exprs[i] # "Unit"
    OBVIOUS
  <2> HIDE DEF exprs
  <2>2. \A i \in 1 .. Len(exprs) : GoodRule(Rule("Expr", <<n(exprs[i])>>))
    BY <2>1, RuleOfNonterminal
  <2>3. \A i \in 1 .. Len(exprs) : GoodRule(e2[i])
    BY <2>1, <2>2
  <2>4. e2 = [i \in 1 .. Len(exprs) |-> e2[i]]
    BY <2>1
  <2> HIDE DEF e2
  <2> QED
    BY <2>1, <2>3, <2>4, TableRules
<1>4. GoodRules(e3)
  <2>1. GoodRule(Rule("Fexp", <<n("Expr"), t("LPAR"), n("Expr"), t("RPAR")>>))
    BY RuleOfFour
  <2>2. GoodRule(Rule("Fexp", <<n("Expr"), t("LPAR"), t("RPAR")>>))
    BY RuleOfThree
  <2>3. GoodRule(Rule("Pexp", <<t("LPAR"), n("Expr"), t("RPAR")>>))
    BY RuleOfThree
  <2>4. \A i \in 1 .. 4 : GoodRule(e3[i])
    BY <2>1, <2>2, <2>3, TernaryRule
  <2>5. Len(e3) = 4 /\ e3 \in Seq({e3[i] : i \in 1 .. 4})
    OBVIOUS
  <2> QED
    BY <2>4, <2>5 DEF GoodRules, IsList
<1>5. GoodRules(e4)
  <2>1. DOMAIN BinaryOps = 1 .. Len(BinaryOps)
    BY OperatorsKnown, ListFacts
  <2>2. \A i \in 1 .. Len(BinaryOps) : GoodRule(e4[i])
    BY <2>1, BinaryRule
  <2>3. e4 = [i \in 1 .. Len(BinaryOps) |-> e4[i]]
    BY <2>1
  <2> HIDE DEF e4
  <2> QED
    BY <2>2, <2>3, OperatorsKnown, TableRules DEF IsList
<1>6. GoodRules(e5)
  <2>1. DOMAIN UnaryOps = 1 .. Len(UnaryOps)
    BY OperatorsKnown, ListFacts
  <2>2. \A i \in 1 .. Len(UnaryOps) : GoodRule(e5[i])
    BY <2>1, UnaryRule
  <2>3. e5 = [i \in 1 .. Len(UnaryOps) |-> e5[i]]
    BY <2>1
  <2> HIDE DEF e5
  <2> QED
    BY <2>2, <2>3, OperatorsKnown, TableRules DEF IsList
<1>7. GoodRules(e6)
  <2>1. steps \in Seq({"INCR", "DECR"}) /\ DOMAIN steps = 1 .. Len(steps)
        /\ \A i \in 1 .. Len(steps) : steps[i] # "FEND" /\ steps[i] # "Unit"
    OBVIOUS
  <2> HIDE DEF steps
  <2>2. \A i \in 1 .. Len(steps) : GoodRule(Rule("Xexp", <<n("Expr"), t(steps[i])>>))
    BY <2>1, RuleOfTwo
  <2>3. \A i \in 1 .. Len(steps) : GoodRule(e6[i])
    BY <2>1, <2>2
  <2>4. e6 = [i \in 1 .. Len(steps) |-> e6[i]]
    BY <2>1
  <2> HIDE DEF e6
  <2> QED
    BY <2>1, <2>3, <2>4, TableRules
<1>8. GoodRules(e7)
  <2>1. units \in Seq({"WMSE", "WSEC"}) /\ DOMAIN units = 1 .. Len(units)
        /\ \A i \in 1 .. Len(units) : units[i] # "FEND" /\ units[i] # "Unit"
    OBVIOUS
  <2> HIDE DEF units
  <2>2. \A i \in 1 .. Len(units) : GoodRule(Rule("Wexp", <<n("Expr"), t(units[i])>>))
    BY <2>1, RuleOfTwo
  <2>3. \A i \in 1 .. Len(units) : GoodRule(e7[i])
    BY <2>1, <2>2
  <2>4. e7 = [i \in 1 .. Len(units) |-> e7[i]]
    BY <2>1
  <2> HIDE DEF e7
  <2> QED
    BY <2>1, <2>3, <2>4, TableRules
<1>9. GoodRules(e8)
  <2>1. GoodRule(Rule("Aexp", <<n("Expr"), t("LBRA"), n("Expr"), t("RBRA")>>))
    BY RuleOfFour
  <2>2. GoodRule(Rule("Stmt", <<t("LBRA"), n("Expr"), t("RBRA")>>))
    BY RuleOfThree
  <2>3. \A i \in 1 .. 2 : GoodRule(e8[i])
    BY <2>1, <2>2
  <2>4. Len(e8) = 2 /\ e8 \in Seq({e8[i] : i \in 1 .. 2})
    OBVIOUS
  <2> QED
    BY <2>3, <2>4 DEF GoodRules, IsList
<1> HIDE DEF e1, e2, e3, e4, e5, e6, e7, e8
<1>10. GoodRules(e1 \o e2 \o e3 \o e4)
  BY <1>2, <1>3, <1>4, <1>5, JoinRules
<1>11. GoodRules(e1 \o e2 \o e3 \o e4 \o e5 \o e6 \o e7 \o e8)
  BY <1>6, <1>7, <1>8, <1>9, <1>10, JoinRules
<1> QED
  BY <1>1, <1>11

\* The whole table
LEMMA GrammarKnown ==
  /\ DOMAIN grammar = 1 .. Len(grammar) /\ Len(grammar) \in Nat
  /\ \A r \in DOMAIN grammar : GoodRule(grammar[r])
<1>1. GoodRules(grammar)
  BY StatementsKnown, ExpressionsKnown, JoinRules DEF grammar
<1> QED
  BY <1>1, ListFacts DEF GoodRules

-------------------------------------------------------------------------------
(***************************************************************************)
(* What a match is                                                         *)
(***************************************************************************)

LEMMA TopList ==
  ASSUME NEW nodes, IsList(nodes), NEW b \in 0 .. Len(nodes)
  PROVE  /\ IsList(Top(nodes, b)) /\ Len(Top(nodes, b)) = Len(nodes) - b
         /\ \A i \in 1 .. Len(nodes) - b : Top(nodes, b)[i] = nodes[b + i]
<1> DEFINE s == SubSeq(nodes, b + 1, Len(nodes))
<1>1. Len(nodes) \in Nat
  BY ListFacts
<1>2. b + 1 \in 1 .. Len(nodes) + 1 /\ Len(nodes) \in 0 .. Len(nodes)
  BY <1>1
<1>3. b + 1 <= Len(nodes) + 1
  BY <1>1
<1> HIDE DEF s
<1>4. /\ IsList(s) /\ Len(s) = Len(nodes) - (b + 1) + 1
      /\ \A i \in 1 .. Len(nodes) - (b + 1) + 1 : s[i] = nodes[b + 1 - 1 + i]
  BY <1>2, <1>3, PartList DEF s
<1>5. Len(nodes) - (b + 1) + 1 = Len(nodes) - b /\ \A i \in Int : b + 1 - 1 + i = b + i
  BY <1>1
<1>6. \A i \in 1 .. Len(nodes) - b : s[i] = nodes[b + i]
  BY <1>4, <1>5
<1> QED
  BY <1>4, <1>5, <1>6 DEF Top, s

LEMMA KeptList ==
  ASSUME NEW nodes, IsList(nodes), NEW b \in 0 .. Len(nodes)
  PROVE  /\ IsList(Kept(nodes, b)) /\ Len(Kept(nodes, b)) = b
         /\ \A i \in 1 .. b : Kept(nodes, b)[i] = nodes[i]
<1> DEFINE s == SubSeq(nodes, 1, b)
<1>1. 1 \in 1 .. Len(nodes) + 1 /\ 1 <= b + 1 /\ b - 1 + 1 = b
      /\ \A i \in 1 .. b : 1 - 1 + i = i
  BY ListFacts
<1>2. IsList(s) /\ Len(s) = b /\ \A i \in 1 .. b : s[i] = nodes[1 - 1 + i]
  <2> HIDE DEF s
  <2> QED
    BY <1>1, PartList DEF s
<1> HIDE DEF s
<1>3. \A i \in 1 .. b : s[i] = nodes[i]
  BY <1>1, <1>2
<1> QED
  BY <1>2, <1>3 DEF Kept, s

\* The nodes that match_rule takes are the right-hand side of the rule, and there
\* is one of them at least
LEMMA MatchSound ==
  ASSUME NEW rule, GoodRule(rule), NEW nodes, IsList(nodes), Below(rule, nodes) >= 0
  PROVE  LET b == Below(rule, nodes)
         IN  /\ b \in 0 .. Len(nodes) - 1
             /\ Len(Top(nodes, b)) \in ReadAs(rule.rhs, Top(nodes, b))[Len(rule.rhs)]
<1> DEFINE rhs == rule.rhs
           b == Below(rule, nodes)
           c == <<Len(rhs), Len(nodes), FALSE>>
           F == From(rhs, nodes)
           kids == Top(nodes, b)
<1>1. /\ IsList(rhs) /\ Len(rhs) \in Nat /\ Len(nodes) \in Nat
      /\ \E k \in 1 .. Len(rhs) : ~Repeats(rhs[k])
  BY ListFacts DEF GoodRule
<1>2. b = F[c]
  BY BelowFrom
<1>3. c \in Turns(rhs, nodes) /\ c[1] = Len(rhs) /\ c[2] = Len(nodes) /\ c[3] = FALSE
  <2>1. Len(rhs) \in 0 .. Len(rhs) /\ Len(nodes) \in 0 .. Len(nodes) /\ FALSE \in BOOLEAN
    BY <1>1
  <2> HIDE DEF rhs
  <2>2. c \in Turns(rhs, nodes)
    BY <1>1, <2>1, TurnOf
  <2>3. c[1] = Len(rhs) /\ c[2] = Len(nodes) /\ c[3] = FALSE
    OBVIOUS
  <2> QED
    BY <2>2, <2>3
<1>4. F[c] # -1
  BY <1>2
<1> HIDE DEF c, F, b
<1>5. b \in 0 .. c[2] /\ Reads(rhs, nodes, c, b)
  BY <1>1, <1>2, <1>3, <1>4, MatchFrom DEF F
<1>6. /\ b \in 0 .. Len(nodes)
      /\ b = Len(nodes) => \A j \in 1 .. Len(rhs) : Repeats(rhs[j])
      /\ Len(nodes) - b \in ReadAs(rhs, SubSeq(nodes, b + 1, Len(nodes)))[Len(rhs)]
  BY <1>3, <1>5 DEF Reads
<1>7. b \in 0 .. Len(nodes) - 1
  BY <1>1, <1>6
<1>8. Len(kids) = Len(nodes) - b
  <2>1. b + 1 \in 1 .. Len(nodes) + 1 /\ Len(nodes) \in 0 .. Len(nodes)
        /\ b + 1 <= Len(nodes) + 1 /\ Len(nodes) - (b + 1) + 1 = Len(nodes) - b
    BY <1>1, <1>7
  <2> QED
    BY <2>1, PartList DEF Top
<1> QED
  BY <1>6, <1>7, <1>8 DEF Top, b

\* The other way: what the kids up to term k account for ends with those for k
LEMMA ReadTerm ==
  ASSUME NEW rhs, NEW kids, Len(rhs) \in Nat, NEW k \in 1 .. Len(rhs),
         NEW e \in ReadAs(rhs, kids)[k]
  PROVE  \E i \in ReadAs(rhs, kids)[k - 1] :
           /\ e \in i .. Len(kids)
           /\ ~Repeats(rhs[k]) => e = i + 1
           /\ \A x \in i + 1 .. e : TermEq(rhs[k], kids[x])
<1>1. k \in 0 .. Len(rhs) /\ k # 0
  OBVIOUS
<1>2. e \in Read(rhs, kids, ReadAs(rhs, kids), k)
  BY <1>1, ReadAsRuns
<1> QED
  BY <1>1, <1>2 DEF Read, Repeats

LEMMA ReadWithin ==
  ASSUME NEW rhs, NEW kids, Len(rhs) \in Nat, Len(kids) \in Nat
  PROVE  \A k \in 0 .. Len(rhs) : ReadAs(rhs, kids)[k] \subseteq 0 .. Len(kids)
<1> DEFINE S == {z \in Nat : z \in 0 .. Len(rhs) =>
                               ReadAs(rhs, kids)[z] \subseteq 0 .. Len(kids)}
<1>1. 0 \in S
  <2>1. ReadAs(rhs, kids)[0] = Read(rhs, kids, ReadAs(rhs, kids), 0)
    BY ReadAsRuns
  <2>2. ReadAs(rhs, kids)[0] = {0}
    BY <2>1, Zenon DEF Read
  <2> QED
    BY <2>2
<1>2. ASSUME NEW z \in Nat, z \in S
      PROVE  z + 1 \in S
  <2> SUFFICES ASSUME z + 1 \in 0 .. Len(rhs), NEW e \in ReadAs(rhs, kids)[z + 1]
               PROVE  e \in 0 .. Len(kids)
    OBVIOUS
  <2>1. z + 1 \in 1 .. Len(rhs) /\ (z + 1) - 1 = z /\ z \in 0 .. Len(rhs)
    OBVIOUS
  <2>2. PICK i \in ReadAs(rhs, kids)[z] : e \in i .. Len(kids)
    BY <2>1, ReadTerm
  <2>3. i \in 0 .. Len(kids)
    BY <1>2, <2>1
  <2> QED
    BY <2>2, <2>3
<1> HIDE DEF S
<1>3. \A z \in Nat : z \in S
  BY <1>1, <1>2, NatSteps
<1> QED
  BY <1>3 DEF S

\* The last kid of a node is what the rule ends with, or a condition that no
\* "elif" follows
LEMMA LastKid ==
  ASSUME NEW rule, GoodRule(rule), NEW kids, IsList(kids), Len(kids) # 0,
         Len(kids) \in ReadAs(rule.rhs, kids)[Len(rule.rhs)]
  PROVE  TermEq(Last(rule.rhs), Last(kids)) \/ TermEq(<<"n", "Cond">>, Last(kids))
<1> DEFINE rhs == rule.rhs
           k == Len(rhs)
           e == Len(kids)
<1>1. /\ k \in Nat /\ k # 0 /\ e \in Nat /\ e # 0 /\ Last(rhs) = rhs[k] /\ Last(kids) = kids[e]
      /\ Repeats(rhs[k]) => k = 2 /\ rhs[1] = <<"n", "Cond">>
  BY ListFacts DEF GoodRule, Last
<1> HIDE DEF k, e, rhs
<1>2. k \in 1 .. Len(rhs) /\ Len(rhs) \in Nat
  BY <1>1 DEF k
<1>3. PICK i \in ReadAs(rhs, kids)[k - 1] :
           /\ e \in i .. Len(kids)
           /\ ~Repeats(rhs[k]) => e = i + 1
           /\ \A x \in i + 1 .. e : TermEq(rhs[k], kids[x])
  BY <1>2, ReadTerm DEF k, e, rhs
<1>4. i \in 0 .. e
  BY <1>1, <1>2, <1>3, ReadWithin DEF e
<1>5. CASE i < e
  <2>1. e \in i + 1 .. e
    BY <1>1, <1>4, <1>5
  <2> QED
    BY <1>1, <1>3, <2>1 DEF rhs
<1>6. CASE i = e
  <2>1. Repeats(rhs[k])
    BY <1>1, <1>3, <1>6
  <2>2. k = 2 /\ rhs[1] = <<"n", "Cond">>
    BY <1>1, <2>1
  <2>3. 1 \in 1 .. Len(rhs) /\ 1 - 1 = 0 /\ k - 1 = 1
    BY <1>2, <2>2
  <2>4. PICK j \in ReadAs(rhs, kids)[0] :
           /\ e \in j .. Len(kids)
           /\ ~Repeats(rhs[1]) => e = j + 1
           /\ \A x \in j + 1 .. e : TermEq(rhs[1], kids[x])
    BY <1>2, <1>3, <1>6, <2>3, ReadTerm
  <2>5. ~Repeats(rhs[1])
    BY <2>2 DEF Repeats
  <2>6. j \in Nat
    BY <1>1, <1>2, ReadWithin DEF e
  <2>7. e \in j + 1 .. e
    BY <1>1, <2>4, <2>5, <2>6
  <2> QED
    BY <1>1, <2>2, <2>4, <2>7
<1> QED
  BY <1>1, <1>4, <1>5, <1>6

LEMMA FirstRuleKnown ==
  ASSUME NEW nodes, IsList(nodes), nodes # <<>> => Last(nodes).sym \in Symbols,
         NEW r, r = FirstRule(nodes), r # 0
  PROVE  /\ nodes # <<>> /\ r \in DOMAIN grammar /\ GoodRule(grammar[r])
         /\ Below(grammar[r], nodes) \in 0 .. Len(nodes) - 1
<1> DEFINE R == {q \in Ending[Last(nodes).sym] : Below(grammar[q], nodes) >= 0}
<1>1. nodes # <<>> /\ R # {} /\ r = CHOOSE x \in R : \A q \in R : x <= q
  BY Zenon DEF FirstRule
<1>2. Ending[Last(nodes).sym] \subseteq DOMAIN grammar
  BY <1>1 DEF Ending
<1>3. R \subseteq DOMAIN grammar /\ R \subseteq Nat
  BY <1>2, GrammarKnown
<1>4. \A x \in R : Below(grammar[x], nodes) >= 0
  OBVIOUS
<1> HIDE DEF R
<1>5. \E x \in R : \A q \in R : x <= q
  BY <1>1, <1>3, LeastElement
<1>6. r \in R
  BY <1>1, <1>5
<1>7. r \in DOMAIN grammar /\ Below(grammar[r], nodes) >= 0
  BY <1>3, <1>4, <1>6
<1>8. GoodRule(grammar[r])
  BY <1>7, GrammarKnown
<1> QED
  BY <1>1, <1>7, <1>8, MatchSound

\* The rule that is tried ends with the node on top of the stack
LEMMA FirstRuleTop ==
  ASSUME NEW nodes, IsList(nodes), nodes # <<>> => Last(nodes).sym \in Symbols,
         NEW r, r = FirstRule(nodes), r # 0
  PROVE  TermEq(Last(grammar[r].rhs), Last(nodes)) \/ TermEq(<<"n", "Cond">>, Last(nodes))
<1> DEFINE b == Below(grammar[r], nodes)
           kids == Top(nodes, b)
<1>1. /\ GoodRule(grammar[r]) /\ b \in 0 .. Len(nodes) - 1 /\ Len(nodes) \in Nat
  BY FirstRuleKnown, ListFacts
<1>2. b >= 0 /\ b \in 0 .. Len(nodes)
  BY <1>1
<1>3. Len(kids) \in ReadAs(grammar[r].rhs, kids)[Len(grammar[r].rhs)]
  BY <1>1, <1>2, MatchSound
<1> HIDE DEF b
<1>4. /\ IsList(kids) /\ Len(kids) = Len(nodes) - b
      /\ \A i \in 1 .. Len(nodes) - b : kids[i] = nodes[b + i]
  BY <1>2, TopList
<1>5. Len(kids) # 0 /\ Last(kids) = Last(nodes)
  <2>1. Len(nodes) - b \in 1 .. Len(nodes) - b /\ b + (Len(nodes) - b) = Len(nodes)
        /\ Len(nodes) - b # 0
    BY <1>1
  <2> QED
    BY <1>4, <2>1 DEF Last
<1> HIDE DEF kids
<1> QED
  BY <1>1, <1>3, <1>4, <1>5, LastKid

\* With the end marker on top only a unit can be made, and nothing of a unit
LEMMA MarkerTop ==
  ASSUME NEW nodes, IsList(nodes), nodes # <<>>, Last(nodes).sym \in Symbols,
         NEW r, r = FirstRule(nodes), r # 0
  PROVE  /\ IsLeaf(Last(nodes)) /\ Last(nodes).sym = "FEND" => grammar[r].lhs = "Unit"
         /\ ~(~IsLeaf(Last(nodes)) /\ Last(nodes).sym = "Unit")
<1>1. GoodRule(grammar[r])
  BY FirstRuleKnown
<1>2. TermEq(Last(grammar[r].rhs), Last(nodes)) \/ TermEq(<<"n", "Cond">>, Last(nodes))
  BY FirstRuleTop
<1> DEFINE z == Last(grammar[r].rhs)
           x == Last(nodes)
<1>3. (z[2] = "FEND" => grammar[r].lhs = "Unit") /\ z[2] # "Unit"
  BY <1>1 DEF GoodRule
<1>4. z[2] = x.sym \/ (x.sym = "Cond" /\ ~IsLeaf(x))
  <2>1. <<"n", "Cond">>[1] = "n" /\ <<"n", "Cond">>[2] = "Cond"
    OBVIOUS
  <2>2. IsLeaf(x) \in BOOLEAN
    BY DEF IsLeaf
  <2> HIDE DEF z, x
  <2> QED
    BY <1>2, <2>1, <2>2 DEF TermEq, z, x
<1> QED
  BY <1>3, <1>4

-------------------------------------------------------------------------------
(***************************************************************************)
(* Derivations                                                             *)
(***************************************************************************)
Tidy(w) == IsList(w) /\ \A i \in 1 .. Len(w) : IsList(w[i].kids)

\* After d steps from the nodes s, all by the grammar, there are the leaves w
Reaches(s, w, d) ==
  /\ d \in Nat
  /\ \A e \in 0 .. d : Tidy(Derivation(s)[e].nodes)
  /\ Derivation(s)[d] = [nodes |-> w, sound |-> TRUE]
  /\ \A i \in 1 .. Len(w) : IsLeaf(w[i])

LEMMA JoinAppend ==
  ASSUME NEW s, NEW u, IsList(s), IsList(u), NEW x
  PROVE  s \o Append(u, x) = Append(s \o u, x)
<1>1. PICK X : s \in Seq(X)
  BY DEF IsList
<1>2. PICK Y : u \in Seq(Y)
  BY DEF IsList
<1> DEFINE Z == X \cup Y \cup {x}
<1>3. s \in Seq(Z) /\ u \in Seq(Z) /\ x \in Z
  BY <1>1, <1>2
<1> HIDE DEF Z
<1> QED
  BY <1>3

LEMMA LastInnerOf ==
  ASSUME NEW w, IsList(w)
  PROVE  \/ LastInner(w) = 0 /\ \A i \in 1 .. Len(w) : IsLeaf(w[i])
         \/ /\ LastInner(w) \in 1 .. Len(w) /\ ~IsLeaf(w[LastInner(w)])
            /\ \A i \in 1 .. Len(w) : ~IsLeaf(w[i]) => i <= LastInner(w)
<1> DEFINE I == {i \in DOMAIN w : ~IsLeaf(w[i])}
<1>1. Len(w) \in Nat /\ DOMAIN w = 1 .. Len(w)
  BY ListFacts
<1>2. CASE I = {}
  BY <1>1, <1>2 DEF LastInner
<1>3. CASE I # {}
  <2> DEFINE J == {Len(w) - i : i \in I}
  <2>1. J # {} /\ J \subseteq Nat /\ \A i \in I : i \in 1 .. Len(w)
    BY <1>1, <1>3
  <2>2. PICK x \in J : \A y \in J : x <= y
    <3> HIDE DEF J
    <3> QED
      BY <2>1, LeastElement
  <2>3. PICK z \in I : x = Len(w) - z
    BY <2>2
  <2>4. ASSUME NEW i \in I
        PROVE  i <= z
    <3>1. Len(w) - z <= Len(w) - i
      BY <2>2, <2>3
    <3> QED
      BY <1>1, <2>1, <3>1
  <2>5. LastInner(w) = CHOOSE i \in I : \A j \in I : j <= i
    BY <1>3 DEF LastInner
  <2> HIDE DEF I
  <2>6. LastInner(w) \in I /\ \A j \in I : j <= LastInner(w)
    BY <2>3, <2>4, <2>5
  <2> QED
    BY <1>1, <2>6 DEF I
<1> QED
  BY <1>2, <1>3

\* Where the last inner node is on top
LEMMA LastInnerTop ==
  ASSUME NEW s, IsList(s), NEW x, ~IsLeaf(x)
  PROVE  LastInner(Append(s, x)) = Len(s) + 1
<1> DEFINE w == Append(s, x)
<1>1. /\ IsList(w) /\ Len(w) = Len(s) + 1 /\ Len(s) \in Nat /\ w[Len(s) + 1] = x
  BY AppendList, ListFacts
<1> HIDE DEF w
<1>2. Len(s) + 1 \in 1 .. Len(w) /\ ~IsLeaf(w[Len(s) + 1])
  BY <1>1
<1>3. LastInner(w) \in 1 .. Len(w) /\ Len(s) + 1 <= LastInner(w)
  BY <1>1, <1>2, LastInnerOf
<1> QED
  BY <1>1, <1>3 DEF w

\* Where a leaf is
LEMMA LastInnerLeaf ==
  ASSUME NEW s, IsList(s), NEW x, IsLeaf(x)
  PROVE  LastInner(Append(s, x)) = LastInner(s)
<1> DEFINE w == Append(s, x)
<1>1. /\ IsList(w) /\ Len(w) = Len(s) + 1 /\ Len(s) \in Nat /\ w[Len(s) + 1] = x
      /\ DOMAIN w = 1 .. Len(s) + 1 /\ DOMAIN s = 1 .. Len(s)
      /\ \A i \in 1 .. Len(s) : w[i] = s[i]
  <2>1. IsList(w)
    BY AppendList
  <2> HIDE DEF w
  <2>2. DOMAIN w = 1 .. Len(w)
    BY <2>1, ListFacts
  <2> QED
    BY <2>1, <2>2, AppendList, ListFacts DEF w
<1> HIDE DEF w
<1> DEFINE A == {i \in DOMAIN w : ~IsLeaf(w[i])}
           B == {i \in DOMAIN s : ~IsLeaf(s[i])}
<1>2. A = B
  BY <1>1
<1>3. LastInner(w) = IF A = {} THEN 0 ELSE CHOOSE i \in A : \A j \in A : j <= i
  BY DEF LastInner
<1>4. LastInner(s) = IF B = {} THEN 0 ELSE CHOOSE i \in B : \A j \in B : j <= i
  BY DEF LastInner
<1> HIDE DEF A, B
<1> QED
  BY <1>2, <1>3, <1>4 DEF w

LEMMA KeptAppend ==
  ASSUME NEW s, IsList(s), NEW x, NEW b \in 0 .. Len(s)
  PROVE  Kept(Append(s, x), b) = Kept(s, b)
<1> DEFINE w == Append(s, x)
<1>1. /\ IsList(w) /\ Len(w) = Len(s) + 1 /\ Len(s) \in Nat
      /\ \A i \in 1 .. Len(s) : w[i] = s[i]
  BY AppendList, ListFacts
<1> HIDE DEF w
<1>2. b \in 0 .. Len(w)
  BY <1>1
<1> DEFINE y == Kept(w, b)
           z == Kept(s, b)
<1>3. IsList(y) /\ Len(y) = b /\ \A i \in 1 .. b : y[i] = w[i]
  BY <1>1, <1>2, KeptList
<1>4. IsList(z) /\ Len(z) = b /\ \A i \in 1 .. b : z[i] = s[i]
  BY KeptList
<1> HIDE DEF y, z
<1>5. \A i \in 1 .. b : y[i] = z[i]
  BY <1>1, <1>3, <1>4
<1>6. y = z
  BY <1>3, <1>4, <1>5, SameList
<1> QED
  BY <1>6 DEF y, z, w

LEMMA TopAppend ==
  ASSUME NEW s, IsList(s), NEW x, NEW b \in 0 .. Len(s)
  PROVE  Top(Append(s, x), b) = Append(Top(s, b), x)
<1> DEFINE w == Append(s, x)
           k == Len(s)
<1>1. /\ IsList(w) /\ Len(w) = k + 1 /\ k \in Nat /\ w[k + 1] = x
      /\ \A i \in 1 .. k : w[i] = s[i]
  BY AppendList, ListFacts
<1> HIDE DEF w
<1>2. b \in 0 .. Len(w) /\ b \in 0 .. k
  BY <1>1
<1> DEFINE y == Top(w, b)
           u == Top(s, b)
           z == Append(u, x)
<1>3. IsList(y) /\ Len(y) = Len(w) - b /\ \A i \in 1 .. Len(w) - b : y[i] = w[b + i]
  BY <1>1, <1>2, TopList
<1>4. IsList(u) /\ Len(u) = k - b /\ \A i \in 1 .. k - b : u[i] = s[b + i]
  BY TopList
<1> HIDE DEF y, u, k
<1>5. /\ IsList(z) /\ Len(z) = Len(u) + 1 /\ z[Len(u) + 1] = x
      /\ \A i \in 1 .. Len(u) : z[i] = u[i]
  BY <1>4, AppendList
<1> HIDE DEF z
<1>6. Len(y) = k + 1 - b /\ Len(z) = k + 1 - b /\ Len(u) = k - b
  BY <1>1, <1>2, <1>3, <1>4, <1>5
<1>7. ASSUME NEW i \in 1 .. k + 1 - b
      PROVE  y[i] = z[i]
  <2>1. CASE i = k + 1 - b
    <3>1. i = Len(u) + 1 /\ b + i = k + 1
      BY <1>1, <1>2, <1>6, <2>1
    <3>2. y[i] = w[k + 1] /\ z[i] = x
      BY <1>1, <1>2, <1>3, <1>5, <3>1
    <3> QED
      BY <1>1, <3>2
  <2>2. CASE i # k + 1 - b
    <3>1. i \in 1 .. k - b /\ b + i \in 1 .. k
      BY <1>1, <1>2, <2>2
    <3>2. y[i] = w[b + i] /\ z[i] = u[i] /\ u[i] = s[b + i]
      BY <1>1, <1>2, <1>3, <1>4, <1>5, <1>6, <3>1
    <3> QED
      BY <1>1, <3>1, <3>2
  <2> QED
    BY <2>1, <2>2
<1>8. y = z
  BY <1>3, <1>5, <1>6, <1>7, SameList
<1> QED
  BY <1>8 DEF w, y, z, u

\* A leaf on top is still there when a node below it is opened
LEMMA OpenedLeaf ==
  ASSUME NEW a, Tidy(a.nodes), NEW x, IsLeaf(x), NEW c,
         c.nodes = Append(a.nodes, x), c.sound = a.sound,
         c = [nodes |-> c.nodes, sound |-> c.sound]
  PROVE  Opened(c) = [nodes |-> Append(Opened(a).nodes, x), sound |-> Opened(a).sound]
<1> DEFINE w == a.nodes
           i == LastInner(w)
           v == c.nodes
           k == Len(w)
<1>1. IsList(w) /\ k \in Nat /\ IsList(v) /\ Len(v) = k + 1
      /\ \A j \in 1 .. k : v[j] = w[j]
  BY AppendList, ListFacts DEF Tidy
<1>2. LastInner(v) = i
  BY <1>1, LastInnerLeaf
<1>3. i = 0 \/ i \in 1 .. k
  BY <1>1, LastInnerOf
<1>4. CASE i = 0
  <2>1. Opened(c) = c /\ Opened(a) = a
    BY <1>2, <1>4 DEF Opened
  <2> QED
    BY <2>1
<1>5. CASE i # 0
  <2> DEFINE kids == w[i].kids
             l == Kept(w, i - 1)
             r == Top(w, i)
  <2>1. /\ i \in 1 .. k /\ v[i] = w[i] /\ IsList(kids)
        /\ i - 1 \in 0 .. k /\ i \in 0 .. k
    BY <1>1, <1>3, <1>5 DEF Tidy
  <2>2. Opened(a) = [nodes |-> l \o kids \o r, sound |-> a.sound /\ ByRule(w[i])]
    BY <1>5, Zenon DEF Opened, Kept, Top
  <2>3. Opened(c) = [nodes |-> Kept(v, i - 1) \o v[i].kids \o Top(v, i),
                     sound |-> c.sound /\ ByRule(v[i])]
    BY <1>2, <1>5, Zenon DEF Opened, Kept, Top
  <2>4. Kept(v, i - 1) = l /\ Top(v, i) = Append(r, x)
    BY <1>1, <2>1, KeptAppend, TopAppend
  <2>5. IsList(l) /\ IsList(r)
    BY <1>1, <2>1, KeptList, TopList
  <2> HIDE DEF l, r, kids, w, v, i, k
  <2>6. l \o kids \o Append(r, x) = Append(l \o kids \o r, x)
    BY <2>1, <2>5, JoinAppend, JoinList
  <2>7. v[i].kids = kids /\ ByRule(v[i]) = ByRule(w[i])
    BY <2>1 DEF kids
  <2>8. Opened(c) = [nodes |-> Append(l \o kids \o r, x), sound |-> a.sound /\ ByRule(w[i])]
    BY <2>3, <2>4, <2>6, <2>7
  <2>9. Opened(a).nodes = l \o kids \o r /\ Opened(a).sound = (a.sound /\ ByRule(w[i]))
    BY <2>2
  <2> QED
    BY <2>8, <2>9
<1> QED
  BY <1>4, <1>5

\* What a derivation is, step by step
LEMMA DerivationIs ==
  ASSUME NEW s, NEW e \in Nat
  PROVE  Derivation(s)[e] = [nodes |-> Derivation(s)[e].nodes, sound |-> Derivation(s)[e].sound]
<1> DEFINE D == Derivation(s)
           Is(a) == a = [nodes |-> a.nodes, sound |-> a.sound]
           S == {z \in Nat : Is(D[z])}
<1>1. 0 \in S
  <2>1. D[0] = [nodes |-> s, sound |-> TRUE]
    BY DerivationRuns
  <2> HIDE DEF D
  <2>2. D[0].nodes = s /\ D[0].sound = TRUE
    BY <2>1
  <2> QED
    BY <2>1, <2>2
<1>2. ASSUME NEW z \in Nat, z \in S
      PROVE  z + 1 \in S
  <2>1. D[z + 1] = Opened(D[z]) /\ Is(D[z])
    BY <1>2, DerivationRuns
  <2> HIDE DEF D
  <2>2. Is(Opened(D[z]))
    BY <2>1 DEF Opened
  <2> QED
    BY <2>1, <2>2
<1> HIDE DEF S
<1>3. \A z \in Nat : z \in S
  BY <1>1, <1>2, NatSteps
<1> QED
  BY <1>3 DEF S

\* Shifting a leaf leaves the derivation of what is below it
LEMMA AppendReaches ==
  ASSUME NEW s, NEW w, NEW d, Reaches(s, w, d), NEW x, IsLeaf(x)
  PROVE  Reaches(Append(s, x), Append(w, x), d)
<1> DEFINE u == Append(s, x)
           D == Derivation(s)
           E == Derivation(u)
           S == {z \in Nat : z <= d =>
                   E[z] = [nodes |-> Append(D[z].nodes, x), sound |-> D[z].sound]}
<1>1. d \in Nat /\ \A e \in 0 .. d : Tidy(D[e].nodes)
  BY DEF Reaches
<1>2. /\ D[0] = [nodes |-> s, sound |-> TRUE] /\ E[0] = [nodes |-> u, sound |-> TRUE]
      /\ \A e \in Nat : D[e + 1] = Opened(D[e]) /\ E[e + 1] = Opened(E[e])
  BY DerivationRuns
<1> HIDE DEF D, E
<1>3. 0 \in S
  <2>1. D[0].nodes = s /\ D[0].sound = TRUE
    BY <1>2
  <2> QED
    BY <1>2, <2>1
<1>4. ASSUME NEW z \in Nat, z \in S
      PROVE  z + 1 \in S
  <2> SUFFICES ASSUME z + 1 <= d
               PROVE  E[z + 1] = [nodes |-> Append(D[z + 1].nodes, x), sound |-> D[z + 1].sound]
    OBVIOUS
  <2>1. E[z] = [nodes |-> Append(D[z].nodes, x), sound |-> D[z].sound] /\ z \in 0 .. d
    BY <1>1, <1>4
  <2>2. /\ E[z].nodes = Append(D[z].nodes, x) /\ E[z].sound = D[z].sound
        /\ E[z] = [nodes |-> E[z].nodes, sound |-> E[z].sound]
    BY <2>1
  <2>3. Tidy(D[z].nodes)
    BY <1>1, <2>1
  <2>4. Opened(E[z]) = [nodes |-> Append(Opened(D[z]).nodes, x), sound |-> Opened(D[z]).sound]
    BY <2>2, <2>3, OpenedLeaf
  <2> QED
    BY <1>2, <2>4
<1>5. ASSUME NEW e \in 0 .. d
      PROVE  E[e] = [nodes |-> Append(D[e].nodes, x), sound |-> D[e].sound]
  <2> HIDE DEF S
  <2>1. e \in S
    BY <1>1, <1>3, <1>4, NatSteps
  <2> QED
    BY <1>1, <2>1 DEF S
<1>6. ASSUME NEW e \in 0 .. d
      PROVE  Tidy(E[e].nodes)
  <2> DEFINE a == D[e].nodes
  <2>1. E[e].nodes = Append(a, x) /\ IsList(a) /\ \A i \in 1 .. Len(a) : IsList(a[i].kids)
    <3>1. E[e] = [nodes |-> Append(a, x), sound |-> D[e].sound] /\ Tidy(a)
      BY <1>1, <1>5
    <3> HIDE DEF a
    <3> QED
      BY <3>1 DEF Tidy
  <2>2. /\ IsList(Append(a, x)) /\ Len(Append(a, x)) = Len(a) + 1 /\ Len(a) \in Nat
        /\ \A i \in 1 .. Len(a) : Append(a, x)[i] = a[i]
        /\ Append(a, x)[Len(a) + 1] = x
    BY <2>1, AppendList, ListFacts
  <2>3. IsList(x.kids)
    BY EmptyList DEF IsLeaf
  <2>4. ASSUME NEW i \in 1 .. Len(a) + 1
        PROVE  IsList(Append(a, x)[i].kids)
    <3>1. CASE i = Len(a) + 1
      BY <2>2, <2>3, <3>1
    <3>2. CASE i # Len(a) + 1
      BY <2>1, <2>2, <3>2
    <3> QED
      BY <3>1, <3>2
  <2> HIDE DEF a
  <2> QED
    BY <2>1, <2>2, <2>4 DEF Tidy
<1>7. E[d] = [nodes |-> Append(w, x), sound |-> TRUE]
  <2>1. D[d] = [nodes |-> w, sound |-> TRUE] /\ d \in 0 .. d
    BY <1>1 DEF Reaches, D
  <2>2. E[d] = [nodes |-> Append(D[d].nodes, x), sound |-> D[d].sound]
    BY <1>5, <2>1
  <2>3. D[d].nodes = w /\ D[d].sound = TRUE
    BY <2>1
  <2> QED
    BY <2>2, <2>3
<1>8. ASSUME NEW i \in 1 .. Len(Append(w, x))
      PROVE  IsLeaf(Append(w, x)[i])
  <2>1. IsList(w) /\ \A j \in 1 .. Len(w) : IsLeaf(w[j])
    <3>1. D[d].nodes = w /\ d \in 0 .. d
      BY <1>1 DEF Reaches, D
    <3> QED
      BY <1>1, <3>1 DEF Tidy, Reaches
  <2>2. /\ Len(Append(w, x)) = Len(w) + 1 /\ Len(w) \in Nat
        /\ \A j \in 1 .. Len(w) : Append(w, x)[j] = w[j]
        /\ Append(w, x)[Len(w) + 1] = x
    BY <2>1, AppendList, ListFacts
  <2>3. CASE i = Len(w) + 1
    BY <2>2, <2>3
  <2>4. CASE i # Len(w) + 1
    <3>1. i \in 1 .. Len(w)
      BY <2>2, <2>4
    <3> QED
      BY <2>1, <2>2, <3>1
  <2> QED
    BY <2>3, <2>4
<1> QED
  BY <1>1, <1>6, <1>7, <1>8 DEF Reaches, E

\* A reduction is a step of the derivation, taken backwards
LEMMA ReduceReaches ==
  ASSUME NEW s, NEW w, NEW d, Reaches(s, w, d), NEW b \in 0 .. Len(s) - 1,
         NEW x, x.kids = Top(s, b), ByRule(x)
  PROVE  Reaches(Append(Kept(s, b), x), w, d + 1)
<1> DEFINE l == Kept(s, b)
           kids == Top(s, b)
           u == Append(l, x)
           D == Derivation(s)
           E == Derivation(u)
           first == [nodes |-> u, sound |-> TRUE]
<1>1. d \in Nat /\ \A e \in 0 .. d : Tidy(D[e].nodes)
  BY DEF Reaches
<1>2. /\ D[0] = [nodes |-> s, sound |-> TRUE] /\ E[0] = first
      /\ \A e \in Nat : D[e + 1] = Opened(D[e]) /\ E[e + 1] = Opened(E[e])
  BY DerivationRuns
<1>3. Tidy(s) /\ IsList(s) /\ Len(s) \in Nat
  <2>1. 0 \in 0 .. d /\ D[0].nodes = s
    BY <1>1, <1>2
  <2>2. Tidy(s)
    BY <1>1, <2>1
  <2> QED
    BY <2>2, ListFacts DEF Tidy
<1>4. b \in 0 .. Len(s) /\ Len(s) - b # 0
  BY <1>3
<1>5. /\ IsList(l) /\ Len(l) = b /\ \A i \in 1 .. b : l[i] = s[i]
      /\ IsList(kids) /\ Len(kids) = Len(s) - b /\ \A i \in 1 .. Len(s) - b : kids[i] = s[b + i]
  BY <1>3, <1>4, KeptList, TopList
<1> HIDE DEF D, E, l, kids
<1>6. /\ IsList(u) /\ Len(u) = b + 1 /\ u[b + 1] = x /\ \A i \in 1 .. b : u[i] = l[i]
  BY <1>5, AppendList
<1>7. ~IsLeaf(x)
  BY <1>4, <1>5, ListFacts DEF IsLeaf, kids
<1>8. Kept(u, b) = l /\ Top(u, b + 1) = <<>>
  <2>1. Kept(u, b) = Kept(l, b)
    BY <1>4, <1>5, KeptAppend
  <2>2. /\ IsList(Kept(l, b)) /\ Len(Kept(l, b)) = b
        /\ \A i \in 1 .. b : Kept(l, b)[i] = l[i]
    BY <1>4, <1>5, KeptList
  <2>3. Kept(l, b) = l
    BY <1>5, <2>2, SameList
  <2> HIDE DEF u
  <2>4. b + 1 \in 0 .. Len(u) /\ Len(u) - (b + 1) = 0
    BY <1>4, <1>6
  <2>5. IsList(Top(u, b + 1)) /\ Len(Top(u, b + 1)) = 0
    BY <1>6, <2>4, TopList
  <2> QED
    BY <2>1, <2>3, <2>5, ListFacts DEF u
<1>9. l \o kids \o <<>> = s
  <2>1. /\ IsList(l \o kids) /\ Len(l \o kids) = b + (Len(s) - b)
        /\ \A i \in 1 .. b : (l \o kids)[i] = l[i]
        /\ \A i \in 1 .. Len(s) - b : (l \o kids)[b + i] = kids[i]
    <3>1. /\ IsList(l \o kids) /\ Len(l \o kids) = Len(l) + Len(kids)
          /\ \A i \in 1 .. Len(l) : (l \o kids)[i] = l[i]
          /\ \A i \in 1 .. Len(kids) : (l \o kids)[Len(l) + i] = kids[i]
      <4>1. IsList(l) /\ IsList(kids)
        BY <1>5
      <4> QED
        BY <4>1, JoinList
    <3>2. Len(l) = b /\ Len(kids) = Len(s) - b
      BY <1>5
    <3> QED
      BY <3>1, <3>2
  <2> DEFINE y == l \o kids
  <2>2. b + (Len(s) - b) = Len(s)
    BY <1>3
  <2> HIDE DEF y
  <2>3. ASSUME NEW i \in 1 .. Len(s)
        PROVE  y[i] = s[i]
    <3>1. CASE i <= b
      BY <1>5, <2>1, <3>1 DEF y
    <3>2. CASE i > b
      <4>1. i - b \in 1 .. Len(s) - b /\ b + (i - b) = i
        BY <1>3, <3>2
      <4>2. y[b + (i - b)] = kids[i - b] /\ kids[i - b] = s[b + (i - b)]
        BY <1>5, <2>1, <4>1 DEF y
      <4> QED
        BY <4>1, <4>2
    <3> QED
      BY <1>3, <3>1, <3>2
  <2>4. y = s
    BY <1>3, <2>1, <2>2, <2>3, SameList DEF y
  <2>5. s \o <<>> = s
    <3>1. PICK X : s \in Seq(X)
      BY <1>3 DEF IsList
    <3> QED
      BY <3>1
  <2> QED
    BY <2>4, <2>5 DEF y
<1>10. Opened(first) = [nodes |-> s, sound |-> TRUE]
  <2>1. LastInner(u) = b + 1
    BY <1>5, <1>7, LastInnerTop
  <2> HIDE DEF u
  <2>2. first.nodes = u /\ first.sound = TRUE
    OBVIOUS
  <2> HIDE DEF first
  <2>3. b + 1 # 0 /\ (b + 1) - 1 = b
    BY <1>4
  <2> DEFINE i == LastInner(first.nodes)
  <2>4. i = b + 1 /\ i # 0 /\ i - 1 = b
    BY <2>1, <2>2, <2>3
  <2>5. Opened(first) = [nodes |-> Kept(first.nodes, i - 1) \o first.nodes[i].kids \o
                                   Top(first.nodes, i),
                         sound |-> first.sound /\ ByRule(first.nodes[i])]
    BY <2>4, Zenon DEF Opened, Kept, Top
  <2> HIDE DEF i
  <2>6. Kept(first.nodes, i - 1) = l
    BY <1>8, <2>2, <2>4
  <2>7. first.nodes[i].kids = kids /\ Top(first.nodes, i) = <<>>
    BY <1>6, <1>8, <2>2, <2>4 DEF kids
  <2>8. first.sound /\ ByRule(first.nodes[i])
    BY <1>6, <2>2, <2>4
  <2> QED
    BY <1>9, <2>5, <2>6, <2>7, <2>8
<1> DEFINE S == {z \in Nat : E[z + 1] = D[z]}
<1>11. 0 \in S
  <2>1. E[0 + 1] = D[0]
    BY <1>2, <1>10
  <2> QED
    BY <2>1
<1>12. ASSUME NEW z \in Nat, z \in S
       PROVE  z + 1 \in S
  <2>1. E[z + 1] = D[z] /\ z + 1 \in Nat
    BY <1>12
  <2>2. E[(z + 1) + 1] = Opened(E[z + 1]) /\ D[z + 1] = Opened(D[z])
    BY <1>2, <2>1
  <2> QED
    BY <2>1, <2>2
<1>13. \A z \in Nat : E[z + 1] = D[z]
  <2> HIDE DEF S
  <2>1. \A z \in Nat : z \in S
    BY <1>11, <1>12, NatSteps
  <2> QED
    BY <2>1 DEF S
<1>14. Tidy(u)
  <2>1. IsList(x.kids)
    BY <1>5 DEF kids
  <2>2. ASSUME NEW i \in 1 .. b + 1
        PROVE  IsList(u[i].kids)
    <3>1. CASE i = b + 1
      BY <1>6, <2>1, <3>1
    <3>2. CASE i # b + 1
      <4>1. i \in 1 .. b /\ i \in 1 .. Len(s)
        BY <1>3, <1>4, <3>2
      <4>2. u[i] = s[i]
        BY <1>5, <1>6, <4>1
      <4> QED
        BY <1>3, <4>1, <4>2 DEF Tidy
    <3> QED
      BY <3>1, <3>2
  <2> HIDE DEF u
  <2> QED
    BY <1>6, <2>2 DEF Tidy
<1> HIDE DEF u
<1>15. ASSUME NEW e \in 0 .. d + 1
       PROVE  Tidy(E[e].nodes)
  <2>1. CASE e = 0
    <3>1. first.nodes = u
      OBVIOUS
    <3> HIDE DEF first
    <3> QED
      BY <1>2, <1>14, <2>1, <3>1
  <2>2. CASE e # 0
    <3>1. e - 1 \in 0 .. d /\ e - 1 \in Nat /\ (e - 1) + 1 = e
      BY <1>1, <2>2
    <3>2. E[e] = D[e - 1]
      BY <1>13, <3>1
    <3> QED
      BY <1>1, <3>1, <3>2
  <2> QED
    BY <2>1, <2>2
<1>16. /\ E[d + 1] = [nodes |-> w, sound |-> TRUE]
       /\ \A i \in 1 .. Len(w) : IsLeaf(w[i])
  BY <1>1, <1>13 DEF Reaches, D
<1>17. d + 1 \in Nat
  BY <1>1
<1> QED
  BY <1>15, <1>16, <1>17 DEF Reaches, E, u, l

\* Where there are leaves only the derivation has ended
LEMMA StayReaches ==
  ASSUME NEW s, NEW w, NEW d, Reaches(s, w, d), NEW k \in Nat, d <= k
  PROVE  Derivation(s)[k] = [nodes |-> w, sound |-> TRUE]
<1> DEFINE D == Derivation(s)
           last == [nodes |-> w, sound |-> TRUE]
           S == {z \in Nat : D[d + z] = last}
<1>1. d \in Nat /\ D[d] = last /\ IsList(w) /\ \A i \in 1 .. Len(w) : IsLeaf(w[i])
  <2>1. d \in 0 .. d /\ D[d].nodes = w
    BY DEF Reaches
  <2> QED
    BY <2>1 DEF Reaches, Tidy
<1>2. LastInner(w) = 0
  BY <1>1, LastInnerOf
<1>3. Opened(last) = last
  BY <1>2 DEF Opened
<1>4. \A e \in Nat : D[e + 1] = Opened(D[e])
  BY DerivationRuns
<1> HIDE DEF D, last
<1>5. 0 \in S
  BY <1>1
<1>6. ASSUME NEW z \in Nat, z \in S
      PROVE  z + 1 \in S
  <2>1. d + z \in Nat /\ (d + z) + 1 = d + (z + 1)
    BY <1>1
  <2>2. D[(d + z) + 1] = Opened(D[d + z])
    BY <1>4, <2>1
  <2> QED
    BY <1>3, <1>6, <2>1, <2>2
<1>7. k - d \in S
  <2> HIDE DEF S
  <2>1. k - d \in Nat
    BY <1>1
  <2> QED
    BY <1>5, <1>6, <2>1, NatSteps
<1>8. d + (k - d) = k
  BY <1>1
<1> QED
  BY <1>7, <1>8 DEF D, last

-------------------------------------------------------------------------------
(***************************************************************************)
(* The memory                                                              *)
(***************************************************************************)
Blocks(nodes) == UNION {nodes[i].blocks : i \in 1 .. Len(nodes)}

\* No two nodes own the same block
Apart(nodes) ==
  \A i, j \in 1 .. Len(nodes) : i # j => nodes[i].blocks \cap nodes[j].blocks = {}

LEMMA FreeAllResult ==
  ASSUME NEW g \in Memory, ~g.wrong, NEW B, B \subseteq g.live
  PROVE  FreeAll(g, B) = [n |-> g.n, ptr |-> g.ptr, live |-> g.live \ B,
                          fails |-> g.fails, wrong |-> FALSE]
<1>1. FreeAll(g, B) = [g EXCEPT !.live = g.live \ B, !.wrong = g.wrong \/ ~(B \subseteq g.live)]
  BY DEF FreeAll
<1>2. (g.wrong \/ ~(B \subseteq g.live)) = FALSE
  OBVIOUS
<1>3. g = [n |-> g.n, ptr |-> g.ptr, live |-> g.live, fails |-> g.fails, wrong |-> g.wrong]
  BY DEF Memory
<1> QED
  BY <1>1, <1>2, <1>3

LEMMA FreeResult ==
  ASSUME NEW g \in Memory, ~g.wrong, NEW p, p # 0 => p \in g.live, 0 \notin g.live
  PROVE  Free(g, p) = [n |-> g.n, ptr |-> g.ptr, live |-> g.live \ {p},
                       fails |-> g.fails, wrong |-> FALSE]
<1>1. g = [n |-> g.n, ptr |-> g.ptr, live |-> g.live, fails |-> g.fails, wrong |-> g.wrong]
      /\ g.wrong = FALSE
  BY DEF Memory
<1>2. CASE p = 0
  <2>1. Free(g, p) = g /\ g.live \ {p} = g.live
    BY <1>2 DEF Free
  <2> QED
    BY <1>1, <2>1
<1>3. CASE p # 0
  <2>1. Free(g, p) = [g EXCEPT !.live = g.live \ {p}, !.wrong = g.wrong \/ p \notin g.live]
    BY <1>3 DEF Free
  <2>2. (g.wrong \/ p \notin g.live) = FALSE
    BY <1>3
  <2> QED
    BY <1>1, <2>1, <2>2
<1> QED
  BY <1>2, <1>3

\* destroy_node for each node in turn frees what the nodes own, each block once
LEMMA DestroyNodes ==
  ASSUME NEW g \in Memory, ~g.wrong, NEW nodes, IsList(nodes), Apart(nodes),
         Blocks(nodes) \subseteq g.live
  PROVE  Fold(DestroyNode, g, nodes) =
           [n |-> g.n, ptr |-> g.ptr, live |-> g.live \ Blocks(nodes),
            fails |-> g.fails, wrong |-> FALSE]
<1> DEFINE k == Len(nodes)
           Upto(i) == UNION {nodes[j].blocks : j \in 1 .. i}
           After(i) == [n |-> g.n, ptr |-> g.ptr, live |-> g.live \ Upto(i),
                        fails |-> g.fails, wrong |-> FALSE]
           Go(f, i) == IF i = 0 THEN g
                       ELSE CHOOSE r \in {DestroyNode(h, x) : h \in {f[i - 1]}, x \in {nodes[i]}} : TRUE
           u == CHOOSE f : f = [i \in 0 .. k |-> Go(f, i)]
<1>1. k \in Nat
  BY ListFacts
<1>2. Fold(DestroyNode, g, nodes) = u[k]
  BY DEF Fold
<1>3. After(0) = g
  <2>1. Upto(0) = {}
    OBVIOUS
  <2>2. g = [n |-> g.n, ptr |-> g.ptr, live |-> g.live, fails |-> g.fails, wrong |-> g.wrong]
        /\ g.wrong = FALSE
    BY DEF Memory
  <2>3. g.live \ {} = g.live
    OBVIOUS
  <2> HIDE DEF Upto
  <2> QED
    BY <2>1, <2>2, <2>3
<1>4. ASSUME NEW i \in 1 .. k
      PROVE  DestroyNode(After(i - 1), nodes[i]) = After(i)
  <2> DEFINE B == nodes[i].blocks
             h == After(i - 1)
  <2>1. Upto(i) = Upto(i - 1) \cup B
    <3>1. \A j : j \in 1 .. i <=> j \in 1 .. i - 1 \/ j = i
      BY <1>1
    <3>2. {nodes[j].blocks : j \in 1 .. i} = {nodes[j].blocks : j \in 1 .. i - 1} \cup {B}
      BY <3>1
    <3> QED
      BY <3>2
  <2>2. B \cap Upto(i - 1) = {}
    <3>1. ASSUME NEW j \in 1 .. i - 1
          PROVE  nodes[j].blocks \cap B = {}
      BY <1>1, <3>1 DEF Apart
    <3> QED
      BY <3>1
  <2>3. B \subseteq g.live
    BY DEF Blocks
  <2>4. h.n = g.n /\ h.ptr = g.ptr /\ h.live = g.live \ Upto(i - 1) /\ h.fails = g.fails /\ h.wrong = FALSE
    OBVIOUS
  <2>5. h \in Memory
    BY DEF Memory
  <2> HIDE DEF h, B, Upto
  <2>6. B \subseteq h.live /\ h.live \ B = g.live \ Upto(i)
    BY <2>1, <2>2, <2>3, <2>4
  <2>7. FreeAll(h, B) = [n |-> h.n, ptr |-> h.ptr, live |-> h.live \ B,
                         fails |-> h.fails, wrong |-> FALSE]
    BY <2>4, <2>5, <2>6, FreeAllResult
  <2>8. DestroyNode(h, nodes[i]) = FreeAll(h, B)
    BY DEF DestroyNode, B
  <2> QED
    BY <2>4, <2>6, <2>7, <2>8 DEF h
<1>5. ASSUME NEW f, NEW i \in 1 .. k, f[i - 1] = After(i - 1)
      PROVE  Go(f, i) = After(i)
  <2> DEFINE T == {DestroyNode(h, x) : h \in {f[i - 1]}, x \in {nodes[i]}}
  <2>1. i # 0
    OBVIOUS
  <2>2. T = {DestroyNode(f[i - 1], nodes[i])}
    OBVIOUS
  <2>3. DestroyNode(f[i - 1], nodes[i]) = After(i)
    BY <1>4, <1>5
  <2>4. Go(f, i) = CHOOSE r \in T : TRUE
    BY <2>1
  <2> HIDE DEF After, T, Go
  <2>5. (CHOOSE r \in T : TRUE) = After(i)
    BY <2>2, <2>3
  <2> QED
    BY <2>4, <2>5
<1> HIDE DEF After, Go, k
<1> DEFINE e == [i \in 0 .. k |-> After(i)]
<1>6. ASSUME NEW i \in 0 .. k
      PROVE  Go(e, i) = After(i)
  <2>1. CASE i = 0
    BY <1>3, <2>1 DEF Go
  <2>2. CASE i # 0
    <3>1. i \in 1 .. k /\ i - 1 \in 0 .. k
      BY <1>1, <2>2
    <3>2. e[i - 1] = After(i - 1)
      BY <3>1
    <3> HIDE DEF e
    <3> QED
      BY <1>5, <3>1, <3>2
  <2> QED
    BY <2>1, <2>2
<1>7. e = [i \in 0 .. k |-> Go(e, i)]
  <2> DEFINE d == [i \in 0 .. k |-> Go(e, i)]
  <2> SUFFICES e = d
    OBVIOUS
  <2> QED
    BY <1>6, Zenon
<1>8. u = [i \in 0 .. k |-> Go(u, i)]
  <2> HIDE DEF e
  <2> QED
    BY <1>7, Zenon
<1>9. \A i \in 0 .. k : u[i] = Go(u, i)
  <2> HIDE DEF u
  <2> QED
    BY <1>8, Zenon
<1> HIDE DEF u
<1> DEFINE S == {z \in Nat : z <= k => u[z] = After(z)}
<1>10. 0 \in S
  <2>1. u[0] = g
    BY <1>1, <1>9 DEF Go
  <2> QED
    BY <1>3, <2>1
<1>11. ASSUME NEW z \in Nat, z \in S
       PROVE  z + 1 \in S
  <2> SUFFICES ASSUME z + 1 <= k
               PROVE  u[z + 1] = After(z + 1)
    OBVIOUS
  <2>1. z + 1 \in 1 .. k /\ z + 1 \in 0 .. k /\ (z + 1) - 1 = z /\ u[z] = After(z)
    BY <1>1, <1>11
  <2>2. u[(z + 1) - 1] = After((z + 1) - 1)
    BY <2>1
  <2>3. Go(u, z + 1) = After(z + 1)
    BY <1>5, <2>1, <2>2
  <2> QED
    BY <1>9, <2>1, <2>3
<1>12. u[k] = After(k)
  <2> HIDE DEF S
  <2>1. k \in S
    BY <1>1, <1>10, <1>11, NatSteps
  <2> QED
    BY <1>1, <2>1 DEF S
<1>13. Upto(k) = Blocks(nodes)
  BY DEF Blocks, k
<1> QED
  BY <1>2, <1>12, <1>13 DEF After

-------------------------------------------------------------------------------
(***************************************************************************)
(* The stack.  The block of the tokens is a.                               *)
(***************************************************************************)
IsParser(p) ==
  p = [nodes |-> p.nodes, ptr |-> p.ptr, room |-> p.room, idx |-> p.idx,
       mem |-> p.mem, parsed |-> p.parsed]

\* Memory g holds the tokens, the stack and the blocks of the nodes, nothing else,
\* and each of them once
Holding(nodes, ptr, g, a) ==
  /\ IsList(nodes) /\ ptr \in Nat
  /\ g \in Memory /\ g.live \subseteq 1 .. g.n /\ ~g.wrong
  /\ Apart(nodes)
  /\ a \in Nat /\ a # 0 /\ a # ptr
  /\ \A i \in 1 .. Len(nodes) : {0, a, ptr} \cap nodes[i].blocks = {}
  /\ g.live = ({a, ptr} \ {0}) \cup Blocks(nodes)

Holds(p, a) ==
  /\ Holding(p.nodes, p.ptr, p.mem, a)
  /\ p.room \in Nat /\ Len(p.nodes) <= p.room

\* Only the tokens are left
Released(g, a) == g \in Memory /\ g.live = {a} /\ ~g.wrong

LEMMA DestroyStackResult ==
  ASSUME NEW p, IsParser(p), NEW a, Holding(p.nodes, p.ptr, p.mem, a), NEW result
  PROVE  LET q == DestroyStack(p, result)
         IN  /\ IsParser(q) /\ q.nodes = <<>> /\ q.ptr = 0 /\ q.room = 0
             /\ q.idx = p.idx /\ q.parsed = result
             /\ Released(q.mem, a) /\ q.mem.n = p.mem.n
<1> DEFINE g == p.mem
           h == Fold(DestroyNode, g, p.nodes)
           f == Free(h, p.ptr)
           q == DestroyStack(p, result)
<1>1. /\ g \in Memory /\ g.live \subseteq 1 .. g.n /\ ~g.wrong
      /\ IsList(p.nodes) /\ Apart(p.nodes) /\ Blocks(p.nodes) \subseteq g.live
      /\ g.live = ({a, p.ptr} \ {0}) \cup Blocks(p.nodes)
      /\ a # 0 /\ a # p.ptr
      /\ \A i \in 1 .. Len(p.nodes) : {0, a, p.ptr} \cap p.nodes[i].blocks = {}
  BY DEF Holding
<1> HIDE DEF g
<1>2. h = [n |-> g.n, ptr |-> g.ptr, live |-> g.live \ Blocks(p.nodes),
           fails |-> g.fails, wrong |-> FALSE]
  BY <1>1, DestroyNodes
<1> HIDE DEF h
<1>3. 0 \notin Blocks(p.nodes) /\ a \notin Blocks(p.nodes) /\ p.ptr \notin Blocks(p.nodes)
  BY <1>1 DEF Blocks
<1>4. h.live = {a, p.ptr} \ {0} /\ h.n = g.n
  BY <1>1, <1>2, <1>3
<1>5. h \in Memory /\ ~h.wrong
  BY <1>1, <1>2 DEF Memory
<1>6. f = [n |-> h.n, ptr |-> h.ptr, live |-> h.live \ {p.ptr}, fails |-> h.fails, wrong |-> FALSE]
  BY <1>4, <1>5, FreeResult
<1> HIDE DEF f
<1>7. f.live = {a} /\ f.n = g.n /\ f \in Memory /\ ~f.wrong
  <2>1. h.live \ {p.ptr} = {a}
    BY <1>1, <1>4
  <2> QED
    BY <1>4, <1>5, <1>6, <2>1 DEF Memory
<1>8. q = [p EXCEPT !.mem = f, !.nodes = <<>>, !.ptr = 0, !.room = 0, !.parsed = result]
  BY DEF DestroyStack, f, h, g
<1>9. q = [nodes |-> <<>>, ptr |-> 0, room |-> 0, idx |-> p.idx, mem |-> f, parsed |-> result]
  BY <1>8 DEF IsParser
<1> HIDE DEF q
<1>10. /\ q.nodes = <<>> /\ q.ptr = 0 /\ q.room = 0 /\ q.idx = p.idx /\ q.mem = f
       /\ q.parsed = result
  BY <1>9
<1>11. IsParser(q)
  BY <1>9, <1>10 DEF IsParser
<1> QED
  BY <1>7, <1>10, <1>11 DEF Released, q, g

\* The memory may have more fails and more calls, but the same blocks
LEMMA HoldingSame ==
  ASSUME NEW nodes, NEW ptr, NEW g, NEW a, Holding(nodes, ptr, g, a),
         NEW h \in Memory, ~h.wrong, h.live = g.live, h.n >= g.n
  PROVE  Holding(nodes, ptr, h, a)
<1>1. h.live \subseteq 1 .. h.n
  <2>1. g.n \in Nat /\ h.n \in Nat /\ g.live \subseteq 1 .. g.n
    BY DEF Holding, Memory
  <2> QED
    BY <2>1
<1> QED
  BY <1>1 DEF Holding

\* A node without blocks on top, and the stack in a block of its own
LEMMA HoldingLeaf ==
  ASSUME NEW nodes, NEW ptr, NEW g, NEW a, Holding(nodes, ptr, g, a),
         NEW x, x.blocks = {}, NEW more \in Nat, NEW h \in Memory,
         ~h.wrong, h.live \subseteq 1 .. h.n, more # a, more \notin Blocks(nodes),
         h.live = ({a, more} \ {0}) \cup Blocks(nodes)
  PROVE  Holding(Append(nodes, x), more, h, a)
<1> DEFINE u == Append(nodes, x)
           k == Len(nodes)
<1>1. /\ IsList(nodes) /\ Apart(nodes) /\ a \in Nat /\ a # 0
      /\ \A i \in 1 .. k : {0, a, ptr} \cap nodes[i].blocks = {}
  BY DEF Holding
<1>2. /\ IsList(u) /\ Len(u) = k + 1 /\ k \in Nat /\ u[k + 1] = x
      /\ \A i \in 1 .. k : u[i] = nodes[i]
  BY <1>1, AppendList, ListFacts
<1> HIDE DEF u, k
<1>3. \A i \in 1 .. k + 1 : u[i].blocks = IF i = k + 1 THEN {} ELSE nodes[i].blocks
  <2> SUFFICES ASSUME NEW i \in 1 .. k + 1
               PROVE  u[i].blocks = IF i = k + 1 THEN {} ELSE nodes[i].blocks
    OBVIOUS
  <2>1. CASE i = k + 1
    BY <1>2, <2>1
  <2>2. CASE i # k + 1
    <3>1. i \in 1 .. k
      BY <1>2, <2>2
    <3>2. u[i] = nodes[i]
      BY <1>2, <3>1
    <3> QED
      BY <2>2, <3>2
  <2> QED
    BY <2>1, <2>2
<1>4. Blocks(u) = Blocks(nodes)
  <2>1. ASSUME NEW z \in Blocks(u)
        PROVE  z \in Blocks(nodes)
    BY <1>2, <1>3 DEF Blocks, k
  <2>2. ASSUME NEW z \in Blocks(nodes)
        PROVE  z \in Blocks(u)
    <3>1. PICK i \in 1 .. k : z \in nodes[i].blocks
      BY DEF Blocks, k
    <3>2. i \in 1 .. k + 1 /\ i # k + 1
      BY <1>2
    <3>3. z \in u[i].blocks /\ i \in 1 .. Len(u)
      BY <1>2, <1>3, <3>1, <3>2
    <3> QED
      BY <3>3 DEF Blocks
  <2> QED
    BY <2>1, <2>2
<1>5. Apart(u)
  <2> SUFFICES ASSUME NEW i \in 1 .. k + 1, NEW j \in 1 .. k + 1, i # j
               PROVE  u[i].blocks \cap u[j].blocks = {}
    BY <1>2 DEF Apart
  <2>1. CASE i = k + 1 \/ j = k + 1
    BY <1>3, <2>1
  <2>2. CASE i # k + 1 /\ j # k + 1
    <3>1. i \in 1 .. k /\ j \in 1 .. k
      BY <1>2, <2>2
    <3> QED
      BY <1>1, <1>3, <2>2, <3>1 DEF Apart, k
  <2> QED
    BY <2>1, <2>2
<1>6. ASSUME NEW i \in 1 .. k + 1
      PROVE  {0, a, more} \cap u[i].blocks = {}
  <2>1. CASE i = k + 1
    BY <1>3, <2>1
  <2>2. CASE i # k + 1
    <3>1. i \in 1 .. k
      BY <1>2, <2>2
    <3>2. nodes[i].blocks \subseteq Blocks(nodes)
      BY <3>1 DEF Blocks, k
    <3> QED
      BY <1>1, <1>3, <2>2, <3>1, <3>2
  <2> QED
    BY <2>1, <2>2
<1> QED
  BY <1>1, <1>2, <1>4, <1>5, <1>6 DEF Holding, u

\* The nodes that a reduction takes, with blocks of its own, as one
LEMMA HoldingInner ==
  ASSUME NEW nodes, NEW ptr, NEW g, NEW a, Holding(nodes, ptr, g, a),
         NEW b \in 0 .. Len(nodes) - 1, NEW own, own \cap g.live = {}, 0 \notin own,
         NEW nt, NEW h \in Memory, ~h.wrong, h.live \subseteq 1 .. h.n,
         h.live = g.live \cup own
  PROVE  Holding(Append(Kept(nodes, b), Inner(nt, Top(nodes, b), own)), ptr, h, a)
<1> DEFINE kids == Top(nodes, b)
           l == Kept(nodes, b)
           x == Inner(nt, kids, own)
           u == Append(l, x)
           k == Len(nodes)
<1>1. /\ IsList(nodes) /\ Apart(nodes) /\ a \in Nat /\ a # 0 /\ a # ptr /\ ptr \in Nat
      /\ \A i \in 1 .. k : {0, a, ptr} \cap nodes[i].blocks = {}
      /\ g.live = ({a, ptr} \ {0}) \cup Blocks(nodes)
  BY DEF Holding
<1>2. k \in Nat /\ b \in 0 .. k
  BY <1>1, ListFacts
<1>3. /\ IsList(l) /\ Len(l) = b /\ \A i \in 1 .. b : l[i] = nodes[i]
      /\ IsList(kids) /\ Len(kids) = k - b /\ \A i \in 1 .. k - b : kids[i] = nodes[b + i]
      /\ DOMAIN kids = 1 .. k - b
  <2>1. IsList(l) /\ Len(l) = b /\ \A i \in 1 .. b : l[i] = nodes[i]
    BY <1>1, <1>2, KeptList
  <2>2. IsList(kids) /\ Len(kids) = k - b /\ \A i \in 1 .. k - b : kids[i] = nodes[b + i]
    BY <1>1, <1>2, TopList
  <2> HIDE DEF kids, l, k
  <2>3. DOMAIN kids = 1 .. Len(kids)
    BY <2>2, ListFacts
  <2> QED
    BY <2>1, <2>2, <2>3
<1> HIDE DEF kids, l
<1>4. x.blocks = own \cup UNION {kids[i].blocks : i \in DOMAIN kids}
  BY DEF Inner
<1> HIDE DEF x
<1>5. /\ IsList(u) /\ Len(u) = b + 1 /\ u[b + 1] = x /\ \A i \in 1 .. b : u[i] = nodes[i]
  BY <1>3, AppendList
<1> HIDE DEF u, k
<1>6. \A z : z \in x.blocks <=> z \in own \/ \E i \in b + 1 .. k : z \in nodes[i].blocks
  <2>1. ASSUME NEW i \in b + 1 .. k
        PROVE  i - b \in 1 .. k - b /\ kids[i - b] = nodes[i]
    <3>1. i - b \in 1 .. k - b /\ b + (i - b) = i
      BY <1>2
    <3> QED
      BY <1>3, <3>1
  <2>2. ASSUME NEW i \in 1 .. k - b
        PROVE  b + i \in b + 1 .. k /\ kids[i] = nodes[b + i]
    BY <1>2, <1>3
  <2>3. ASSUME NEW z, z \in x.blocks
        PROVE  z \in own \/ \E i \in b + 1 .. k : z \in nodes[i].blocks
    BY <1>3, <1>4, <2>2, <2>3
  <2>4. ASSUME NEW z, NEW i \in b + 1 .. k, z \in nodes[i].blocks
        PROVE  z \in x.blocks
    BY <1>3, <1>4, <2>1, <2>4
  <2> QED
    BY <1>4, <2>3, <2>4
<1>7. \A i \in 1 .. k : nodes[i].blocks \subseteq g.live
  BY <1>1 DEF Blocks, k
<1>8. Blocks(u) = Blocks(nodes) \cup own
  <2>1. ASSUME NEW z \in Blocks(u)
        PROVE  z \in Blocks(nodes) \cup own
    <3>1. PICK i \in 1 .. b + 1 : z \in u[i].blocks
      BY <1>5 DEF Blocks
    <3>2. CASE i = b + 1
      <4>1. z \in own \/ \E j \in b + 1 .. k : z \in nodes[j].blocks
        BY <1>5, <1>6, <3>1, <3>2
      <4>2. \A j \in b + 1 .. k : j \in 1 .. k
        BY <1>2
      <4> QED
        BY <4>1, <4>2 DEF Blocks, k
    <3>3. CASE i # b + 1
      <4>1. i \in 1 .. b /\ i \in 1 .. k
        BY <1>2, <3>3
      <4> QED
        BY <1>5, <3>1, <4>1 DEF Blocks, k
    <3> QED
      BY <3>2, <3>3
  <2>2. b + 1 \in 1 .. Len(u)
    BY <1>2, <1>5
  <2>3. ASSUME NEW z \in Blocks(nodes)
        PROVE  z \in Blocks(u)
    <3>1. PICK i \in 1 .. k : z \in nodes[i].blocks
      BY DEF Blocks, k
    <3>2. CASE i <= b
      <4>1. i \in 1 .. b /\ i \in 1 .. Len(u)
        BY <1>2, <1>5, <3>2
      <4> QED
        BY <1>5, <3>1, <4>1 DEF Blocks
    <3>3. CASE i > b
      <4>1. i \in b + 1 .. k
        BY <1>2, <3>3
      <4>2. z \in u[b + 1].blocks
        BY <1>5, <1>6, <3>1, <4>1
      <4> QED
        BY <2>2, <4>2 DEF Blocks
    <3> QED
      BY <1>2, <3>2, <3>3
  <2>4. own \subseteq Blocks(u)
    BY <1>5, <1>6, <2>2 DEF Blocks
  <2> QED
    BY <2>1, <2>3, <2>4
<1>9. ASSUME NEW i \in 1 .. b
      PROVE  /\ i \in 1 .. k /\ u[i] = nodes[i]
             /\ u[i].blocks \cap x.blocks = {}
  <2>1. i \in 1 .. k /\ u[i] = nodes[i]
    BY <1>2, <1>5
  <2>2. ASSUME NEW z \in nodes[i].blocks, z \in x.blocks
        PROVE  FALSE
    <3>1. z \notin own
      BY <1>7, <2>1
    <3>2. PICK j \in b + 1 .. k : z \in nodes[j].blocks
      BY <1>6, <2>2, <3>1
    <3>3. j \in 1 .. k /\ i # j
      BY <1>2
    <3> QED
      BY <1>1, <2>1, <3>2, <3>3 DEF Apart, k
  <2> QED
    BY <2>1, <2>2
<1>10. Apart(u)
  <2> SUFFICES ASSUME NEW i \in 1 .. b + 1, NEW j \in 1 .. b + 1, i # j
               PROVE  u[i].blocks \cap u[j].blocks = {}
    BY <1>5 DEF Apart
  <2>1. CASE i = b + 1
    <3>1. j \in 1 .. b
      BY <1>2, <2>1
    <3> QED
      BY <1>5, <1>9, <2>1, <3>1
  <2>2. CASE j = b + 1
    <3>1. i \in 1 .. b
      BY <1>2, <2>2
    <3> QED
      BY <1>5, <1>9, <2>2, <3>1
  <2>3. CASE i # b + 1 /\ j # b + 1
    <3>1. i \in 1 .. b /\ j \in 1 .. b
      BY <1>2, <2>3
    <3> QED
      BY <1>1, <1>9, <3>1 DEF Apart, k
  <2> QED
    BY <2>1, <2>2, <2>3
<1>11. ASSUME NEW i \in 1 .. b + 1
       PROVE  {0, a, ptr} \cap u[i].blocks = {}
  <2>1. CASE i = b + 1
    <3>1. \A j \in b + 1 .. k : j \in 1 .. k
      BY <1>2
    <3>2. {0, a, ptr} \cap own = {}
      BY <1>1
    <3>3. \A j \in b + 1 .. k : {0, a, ptr} \cap nodes[j].blocks = {}
      BY <1>1, <3>1
    <3>4. {0, a, ptr} \cap x.blocks = {}
      BY <1>6, <3>2, <3>3
    <3> QED
      BY <1>5, <2>1, <3>4
  <2>2. CASE i # b + 1
    <3>1. i \in 1 .. b
      BY <1>2, <2>2
    <3> QED
      BY <1>1, <1>9, <3>1
  <2> QED
    BY <2>1, <2>2
<1>12. h.live = ({a, ptr} \ {0}) \cup Blocks(u)
  BY <1>1, <1>8
<1>13. Holding(u, ptr, h, a)
  BY <1>1, <1>5, <1>10, <1>11, <1>12 DEF Holding
<1> QED
  BY <1>13 DEF u, x, l, kids

LEMMA ShiftedIs ==
  ASSUME NEW p, IsParser(p), NEW u, NEW j
  PROVE  [p EXCEPT !.nodes = u, !.idx = j] =
           [nodes |-> u, ptr |-> p.ptr, room |-> p.room, idx |-> j, mem |-> p.mem,
            parsed |-> p.parsed]
<1> DEFINE a == p.ptr
           b == p.room
           c == p.mem
           d == p.parsed
           e == p.nodes
           f == p.idx
<1>1. p = [nodes |-> e, ptr |-> a, room |-> b, idx |-> f, mem |-> c, parsed |-> d]
  BY DEF IsParser
<1> HIDE DEF a, b, c, d, e, f
<1>2. [p EXCEPT !.nodes = u] =
        [nodes |-> u, ptr |-> a, room |-> b, idx |-> f, mem |-> c, parsed |-> d]
  BY <1>1
<1>3. [[nodes |-> u, ptr |-> a, room |-> b, idx |-> f, mem |-> c, parsed |-> d]
         EXCEPT !.idx = j] =
        [nodes |-> u, ptr |-> a, room |-> b, idx |-> j, mem |-> c, parsed |-> d]
  OBVIOUS
<1>4. [p EXCEPT !.nodes = u, !.idx = j] = [[p EXCEPT !.nodes = u] EXCEPT !.idx = j]
  OBVIOUS
<1>5. [p EXCEPT !.nodes = u, !.idx = j] =
        [nodes |-> u, ptr |-> a, room |-> b, idx |-> j, mem |-> c, parsed |-> d]
  BY <1>2, <1>3, <1>4
<1> QED
  BY <1>5 DEF a, b, c, d

\* The stack gets another node and is where it was, or in another block with more
\* room, or nothing is left of it
LEMMA ShiftResult ==
  ASSUME NEW p, IsParser(p), NEW a, Holds(p, a), p.parsed = "RUN", NEW i
  PROVE  LET q == Shift(p, i)
         IN  /\ IsParser(q) /\ q.mem.n \in Nat /\ q.mem.n >= p.mem.n
             /\ \/ /\ q.parsed = "RUN" /\ q.nodes = Append(p.nodes, Leaf(i)) /\ q.idx = i + 1
                   /\ Holds(q, a)
                \/ q.parsed = "NOMEM" /\ Released(q.mem, a)
<1> DEFINE g == p.mem
           x == Leaf(i)
           more == Append(p.nodes, x)
           room == (IF p.room = 0 THEN 1 ELSE p.room) * 8
           j == i + 1
           r == [p EXCEPT !.nodes = more, !.idx = j]
           q == Shift(p, i)
           h == Realloc(g, p.ptr)
           Grown(f) == IF f.ptr = 0 THEN DestroyStack([p EXCEPT !.mem = f], "NOMEM")
                       ELSE [r EXCEPT !.mem = f, !.ptr = f.ptr, !.room = room]
<1>1. /\ Holding(p.nodes, p.ptr, g, a) /\ p.room \in Nat /\ Len(p.nodes) <= p.room
      /\ p = [nodes |-> p.nodes, ptr |-> p.ptr, room |-> p.room, idx |-> p.idx,
              mem |-> g, parsed |-> p.parsed]
  BY DEF Holds, IsParser
<1>2. /\ IsList(p.nodes) /\ Len(p.nodes) \in Nat /\ Len(more) = Len(p.nodes) + 1
      /\ p.ptr \in Nat /\ a # p.ptr /\ a # 0 /\ a \in Nat
      /\ g \in Memory /\ g.n \in Nat /\ g.live \subseteq 1 .. g.n /\ ~g.wrong /\ g.wrong = FALSE
      /\ g.live = ({a, p.ptr} \ {0}) \cup Blocks(p.nodes)
      /\ p.ptr \notin Blocks(p.nodes)
  <2>1. /\ IsList(p.nodes) /\ p.ptr \in Nat /\ a # p.ptr /\ a # 0 /\ a \in Nat
        /\ g \in Memory /\ g.live \subseteq 1 .. g.n /\ ~g.wrong
        /\ g.live = ({a, p.ptr} \ {0}) \cup Blocks(p.nodes)
        /\ \A k \in 1 .. Len(p.nodes) : {0, a, p.ptr} \cap p.nodes[k].blocks = {}
    BY <1>1 DEF Holding
  <2>2. Len(p.nodes) \in Nat /\ Len(more) = Len(p.nodes) + 1
    BY <2>1, AppendList, ListFacts
  <2>3. p.ptr \notin Blocks(p.nodes)
    BY <2>1 DEF Blocks
  <2>4. g.n \in Nat /\ g.wrong = FALSE
    BY <2>1 DEF Memory
  <2> QED
    BY <2>1, <2>2, <2>3, <2>4
<1>3. x.blocks = {}
  BY DEF Leaf
<1>4. q = IF HasRoom(p) THEN r ELSE CHOOSE y \in {Grown(f) : f \in {h}} : TRUE
  BY Zenon DEF Shift, Then
<1>5. (CHOOSE y \in {Grown(f) : f \in {h}} : TRUE) = Grown(h)
  <2> HIDE DEF Grown, h
  <2>1. {Grown(f) : f \in {h}} = {Grown(h)}
    OBVIOUS
  <2> QED
    BY <2>1
<1>6. q = IF HasRoom(p) THEN r ELSE Grown(h)
  <2> HIDE DEF q, r, Grown, h
  <2> QED
    BY <1>4, <1>5
<1> HIDE DEF q, x, more, h, g, j
<1>7. CASE HasRoom(p)
  <2>1. q = [nodes |-> more, ptr |-> p.ptr, room |-> p.room, idx |-> j,
             mem |-> g, parsed |-> p.parsed]
    <3>1. r = [nodes |-> more, ptr |-> p.ptr, room |-> p.room, idx |-> j,
               mem |-> g, parsed |-> p.parsed]
      BY ShiftedIs DEF g
    <3> HIDE DEF r, Grown
    <3> QED
      BY <1>6, <1>7, <3>1
  <2>2. /\ q.nodes = more /\ q.ptr = p.ptr /\ q.room = p.room /\ q.idx = j
        /\ q.mem = g /\ q.parsed = "RUN"
    BY <2>1
  <2>3. IsParser(q)
    BY <2>1, <2>2 DEF IsParser
  <2>4. Holding(more, p.ptr, g, a)
    BY <1>1, <1>2, <1>3, HoldingLeaf DEF more
  <2>5. Holds(q, a)
    BY <1>1, <1>2, <1>7, <2>2, <2>4 DEF Holds, HasRoom
  <2> QED
    BY <1>2, <2>2, <2>3, <2>5 DEF q, more, x, g, j
<1>8. PICK id \in {0, g.n + 1} :
        Alloc(g) = [n |-> g.n + 1, ptr |-> id, live |-> g.live \cup ({id} \ {0}),
                    fails |-> g.fails, wrong |-> g.wrong]
  BY <1>2, AllocResult
<1> DEFINE f == Alloc(g)
<1>9. h = IF f.ptr = 0 THEN f ELSE [f EXCEPT !.live = f.live \ {p.ptr}]
  BY DEF Realloc, Then, h
<1>10. f \in Memory /\ f.n = g.n + 1 /\ f.wrong = FALSE /\ f.ptr = id
       /\ f.live = g.live \cup ({id} \ {0}) /\ id \in Nat
  BY <1>2, <1>8 DEF Memory
<1> HIDE DEF f
<1>11. CASE ~HasRoom(p) /\ id = 0
  <2> DEFINE s == [p EXCEPT !.mem = h]
  <2>1. h = f /\ h.ptr = 0
    BY <1>9, <1>10, <1>11
  <2>2. q = DestroyStack(s, "NOMEM")
    BY <1>6, <1>11, <2>1
  <2>3. s = [nodes |-> p.nodes, ptr |-> p.ptr, room |-> p.room, idx |-> p.idx,
             mem |-> h, parsed |-> p.parsed]
    BY <1>1
  <2> HIDE DEF s
  <2>4. s.nodes = p.nodes /\ s.ptr = p.ptr /\ s.mem = h /\ IsParser(s)
    BY <2>3 DEF IsParser
  <2>5. h \in Memory /\ ~h.wrong /\ h.live = g.live /\ h.n >= g.n /\ h.n \in Nat
    BY <1>2, <1>10, <1>11, <2>1
  <2>6. Holding(p.nodes, p.ptr, h, a)
    BY <1>1, <2>5, HoldingSame
  <2>7. /\ IsParser(q) /\ q.parsed = "NOMEM" /\ Released(q.mem, a) /\ q.mem.n = h.n
    BY <2>2, <2>4, <2>6, DestroyStackResult
  <2> QED
    BY <2>5, <2>7 DEF q, g
<1>12. CASE ~HasRoom(p) /\ id # 0
  <2>1. h = [n |-> f.n, ptr |-> f.ptr, live |-> f.live \ {p.ptr}, fails |-> f.fails,
             wrong |-> f.wrong]
    <3>1. f = [n |-> f.n, ptr |-> f.ptr, live |-> f.live, fails |-> f.fails, wrong |-> f.wrong]
      BY <1>10 DEF Memory
    <3> QED
      BY <1>9, <1>10, <1>12, <3>1
  <2>2. /\ h \in Memory /\ h.ptr = id /\ h.n = g.n + 1 /\ ~h.wrong
        /\ h.live = (g.live \cup {id}) \ {p.ptr}
    BY <1>10, <1>12, <2>1 DEF Memory
  <2>3. q = [nodes |-> more, ptr |-> id, room |-> room, idx |-> j,
             mem |-> h, parsed |-> p.parsed]
    BY <1>1, <1>6, <1>12, <2>2
  <2>4. /\ q.nodes = more /\ q.ptr = id /\ q.room = room /\ q.idx = j
        /\ q.mem = h /\ q.parsed = "RUN"
    BY <2>3
  <2>5. IsParser(q)
    BY <2>3, <2>4 DEF IsParser
  <2>6. id = g.n + 1 /\ id \notin g.live /\ id # p.ptr /\ id # a
    <3>1. id = g.n + 1
      BY <1>12
    <3>2. g.n + 1 \notin g.live
      <4>1. g.n + 1 \notin 1 .. g.n
        BY <1>2
      <4> QED
        BY <1>2, <4>1
    <3>3. a \in g.live /\ (p.ptr # 0 => p.ptr \in g.live)
      BY <1>2
    <3> QED
      BY <1>12, <3>1, <3>2, <3>3
  <2>7. id \notin Blocks(p.nodes) /\ h.live = ({a, id} \ {0}) \cup Blocks(p.nodes)
    BY <1>2, <1>12, <2>2, <2>6
  <2>8. h.live \subseteq 1 .. h.n
    BY <1>2, <2>2, <2>6
  <2>9. Holding(more, id, h, a)
    BY <1>1, <1>2, <1>3, <1>10, <2>2, <2>6, <2>7, <2>8, HoldingLeaf DEF more
  <2>10. room \in Nat /\ Len(p.nodes) + 1 <= room
    BY <1>1, <1>2, <1>12 DEF HasRoom
  <2>11. Holds(q, a)
    BY <1>2, <2>4, <2>9, <2>10 DEF Holds
  <2>12. q.mem.n \in Nat /\ q.mem.n >= g.n
    BY <1>2, <2>2, <2>4
  <2> QED
    BY <2>4, <2>5, <2>11, <2>12 DEF q, more, x, g, j
<1> QED
  BY <1>7, <1>11, <1>12

LEMMA ReducedIs ==
  ASSUME NEW p, IsParser(p), NEW u, NEW h
  PROVE  [p EXCEPT !.mem = h, !.nodes = u] =
           [nodes |-> u, ptr |-> p.ptr, room |-> p.room, idx |-> p.idx, mem |-> h,
            parsed |-> p.parsed]
<1> DEFINE a == p.ptr
           b == p.room
           c == p.mem
           d == p.parsed
           e == p.nodes
           f == p.idx
<1>1. p = [nodes |-> e, ptr |-> a, room |-> b, idx |-> f, mem |-> c, parsed |-> d]
  BY DEF IsParser
<1> HIDE DEF a, b, c, d, e, f
<1>2. [p EXCEPT !.mem = h] =
        [nodes |-> e, ptr |-> a, room |-> b, idx |-> f, mem |-> h, parsed |-> d]
  BY <1>1
<1>3. [[nodes |-> e, ptr |-> a, room |-> b, idx |-> f, mem |-> h, parsed |-> d]
         EXCEPT !.nodes = u] =
        [nodes |-> u, ptr |-> a, room |-> b, idx |-> f, mem |-> h, parsed |-> d]
  OBVIOUS
<1>4. [p EXCEPT !.mem = h, !.nodes = u] = [[p EXCEPT !.mem = h] EXCEPT !.nodes = u]
  OBVIOUS
<1>5. [p EXCEPT !.mem = h, !.nodes = u] =
        [nodes |-> u, ptr |-> a, room |-> b, idx |-> f, mem |-> h, parsed |-> d]
  BY <1>2, <1>3, <1>4
<1> QED
  BY <1>5 DEF a, b, d, f

\* The nodes above b become one, which owns two blocks more than they did, or nothing
\* is left of the stack
LEMMA ReduceResult ==
  ASSUME NEW p, IsParser(p), NEW a, Holds(p, a), p.parsed = "RUN",
         NEW rule, NEW b \in 0 .. Len(p.nodes) - 1
  PROVE  LET q == Reduce(p, rule, b)
         IN  /\ IsParser(q)
             /\ \/ /\ q.parsed = "RUN" /\ q.idx = p.idx /\ q.mem.n = p.mem.n + 2
                   /\ \E own : q.nodes = Append(Kept(p.nodes, b),
                                                Inner(rule.lhs, Top(p.nodes, b), own))
                   /\ Holds(q, a)
                \/ q.parsed = "NOMEM" /\ Released(q.mem, a)
<1> DEFINE m0 == p.mem
           g == Alloc(m0)
           h == Alloc(g)
           New(x, y) == Append(Kept(p.nodes, b), Inner(rule.lhs, Top(p.nodes, b), {x.ptr, y.ptr}))
           After2(x, y) == IF y.ptr = 0 THEN DestroyStack([p EXCEPT !.mem = Free(y, x.ptr)], "NOMEM")
                           ELSE [p EXCEPT !.mem = y, !.nodes = New(x, y)]
           After1(x) == IF x.ptr = 0 THEN DestroyStack([p EXCEPT !.mem = x], "NOMEM")
                        ELSE CHOOSE z \in {After2(x, y) : y \in {Alloc(x)}} : TRUE
           q == Reduce(p, rule, b)
<1>1. /\ Holding(p.nodes, p.ptr, m0, a) /\ p.room \in Nat /\ Len(p.nodes) <= p.room
      /\ p = [nodes |-> p.nodes, ptr |-> p.ptr, room |-> p.room, idx |-> p.idx,
              mem |-> m0, parsed |-> p.parsed]
  BY DEF Holds, IsParser
<1>2. /\ IsList(p.nodes) /\ Len(p.nodes) \in Nat
      /\ m0 \in Memory /\ m0.n \in Nat /\ m0.live \subseteq 1 .. m0.n /\ m0.wrong = FALSE
  <2>1. IsList(p.nodes) /\ m0 \in Memory /\ m0.live \subseteq 1 .. m0.n /\ ~m0.wrong
    BY <1>1 DEF Holding
  <2>2. m0.n \in Nat /\ m0.wrong = FALSE
    BY <2>1 DEF Memory
  <2> QED
    BY <2>1, <2>2, ListFacts
<1>3. q = CHOOSE z \in {After1(x) : x \in {g}} : TRUE
  BY Zenon DEF Reduce, Then
<1>4. q = After1(g)
  <2> HIDE DEF After1, g, q
  <2>1. {After1(x) : x \in {g}} = {After1(g)}
    OBVIOUS
  <2> QED
    BY <1>3, <2>1
<1>5. g.ptr # 0 => q = After2(g, h)
  <2>1. g.ptr # 0 => q = CHOOSE z \in {After2(g, y) : y \in {h}} : TRUE
    BY <1>4
  <2> HIDE DEF After2, g, q, h
  <2>2. {After2(g, y) : y \in {h}} = {After2(g, h)}
    OBVIOUS
  <2> QED
    BY <2>1, <2>2
<1>6. g.ptr = 0 => q = DestroyStack([p EXCEPT !.mem = g], "NOMEM")
  <2> HIDE DEF g, q
  <2> QED
    BY <1>4
<1>7. PICK i \in {0, m0.n + 1} :
        g = [n |-> m0.n + 1, ptr |-> i, live |-> m0.live \cup ({i} \ {0}),
             fails |-> m0.fails, wrong |-> m0.wrong]
  BY <1>2, AllocResult
<1>8. /\ g \in Memory /\ g.n = m0.n + 1 /\ g.ptr = i /\ g.wrong = FALSE
      /\ g.live = m0.live \cup ({i} \ {0}) /\ g.live \subseteq 1 .. g.n
  <2> HIDE DEF m0
  <2>1. /\ g \in Memory /\ g.n = m0.n + 1 /\ g.ptr = i /\ g.wrong = FALSE
        /\ g.live = m0.live \cup ({i} \ {0})
    BY <1>2, <1>7 DEF Memory
  <2> HIDE DEF g
  <2>2. g.live \subseteq 1 .. g.n
    BY <1>2, <2>1
  <2> QED
    BY <2>1, <2>2
<1>9. PICK j \in {0, g.n + 1} :
        h = [n |-> g.n + 1, ptr |-> j, live |-> g.live \cup ({j} \ {0}),
             fails |-> g.fails, wrong |-> g.wrong]
  <2> HIDE DEF g
  <2> QED
    BY <1>8, AllocResult
<1> HIDE DEF g, m0
<1>10. /\ h \in Memory /\ h.n = m0.n + 2 /\ h.ptr = j /\ h.wrong = FALSE
       /\ h.live = g.live \cup ({j} \ {0}) /\ h.live \subseteq 1 .. h.n
  <2>1. /\ h \in Memory /\ h.n = g.n + 1 /\ h.ptr = j /\ h.wrong = FALSE
        /\ h.live = g.live \cup ({j} \ {0})
    BY <1>8, <1>9 DEF Memory
  <2> HIDE DEF h
  <2>2. g.n \in Nat /\ h.n = m0.n + 2
    BY <1>2, <1>8, <2>1
  <2>3. h.live \subseteq 1 .. h.n
    BY <1>8, <2>1, <2>2
  <2> QED
    BY <2>1, <2>2, <2>3
<1> HIDE DEF h, q, New
<1>11. ASSUME NEW f \in Memory, f.wrong = FALSE, f.live = m0.live, f.n >= m0.n,
              q = DestroyStack([p EXCEPT !.mem = f], "NOMEM")
       PROVE  IsParser(q) /\ q.parsed = "NOMEM" /\ Released(q.mem, a)
  <2> DEFINE s == [p EXCEPT !.mem = f]
  <2>1. s = [nodes |-> p.nodes, ptr |-> p.ptr, room |-> p.room, idx |-> p.idx,
             mem |-> f, parsed |-> p.parsed]
    BY <1>1
  <2>2. q = DestroyStack(s, "NOMEM")
    BY <1>11
  <2> HIDE DEF s
  <2>3. s.nodes = p.nodes /\ s.ptr = p.ptr /\ s.mem = f /\ IsParser(s)
    BY <2>1 DEF IsParser
  <2>4. Holding(p.nodes, p.ptr, f, a)
    BY <1>1, <1>11, HoldingSame
  <2> QED
    <3>1. Holding(s.nodes, s.ptr, s.mem, a)
      BY <2>3, <2>4, Zenon
    <3>2. LET r == DestroyStack(s, "NOMEM")
          IN  IsParser(r) /\ r.parsed = "NOMEM" /\ Released(r.mem, a)
      BY <2>3, <3>1, DestroyStackResult, Zenon
    <3> QED
      BY <2>2, <3>2, Zenon
<1>12. CASE i = 0
  <2>1. q = DestroyStack([p EXCEPT !.mem = g], "NOMEM")
    BY <1>6, <1>8, <1>12
  <2>2. g.live = m0.live /\ g.n >= m0.n
    BY <1>2, <1>8, <1>12
  <2> QED
    BY <1>8, <1>11, <2>1, <2>2 DEF q
<1>13. i # 0 => i = m0.n + 1 /\ i \notin m0.live
  <2>1. m0.n + 1 \notin 1 .. m0.n
    BY <1>2
  <2> QED
    BY <1>2, <2>1
<1>14. j # 0 => j = g.n + 1 /\ j \notin g.live
  <2>1. g.n + 1 \notin 1 .. g.n
    BY <1>2, <1>8
  <2> QED
    BY <1>8, <2>1
<1>15. CASE i # 0 /\ j = 0
  <2> DEFINE f == Free(h, g.ptr)
  <2>1. q = DestroyStack([p EXCEPT !.mem = f], "NOMEM")
    BY <1>5, <1>8, <1>10, <1>15
  <2>2. g.ptr \in h.live /\ 0 \notin h.live /\ ~h.wrong
    BY <1>8, <1>10, <1>15
  <2>3. f = [n |-> h.n, ptr |-> h.ptr, live |-> h.live \ {g.ptr}, fails |-> h.fails, wrong |-> FALSE]
    BY <1>10, <2>2, FreeResult
  <2> HIDE DEF f
  <2>4. f \in Memory /\ f.wrong = FALSE /\ f.n = h.n /\ f.live = h.live \ {g.ptr}
    BY <1>10, <2>3 DEF Memory
  <2>5. f.live = m0.live /\ f.n >= m0.n
    BY <1>2, <1>8, <1>10, <1>13, <1>15, <2>4
  <2> QED
    BY <1>11, <2>1, <2>4, <2>5 DEF q
<1>16. CASE i # 0 /\ j # 0
  <2> DEFINE own == {g.ptr, h.ptr}
             u == New(g, h)
             s == [p EXCEPT !.mem = h, !.nodes = u]
  <2>1. q = s
    BY <1>5, <1>8, <1>10, <1>16
  <2>2. u = Append(Kept(p.nodes, b), Inner(rule.lhs, Top(p.nodes, b), own))
    BY DEF New
  <2>3. /\ own \cap m0.live = {} /\ 0 \notin own /\ h.live = m0.live \cup own
    BY <1>8, <1>10, <1>13, <1>14, <1>16
  <2> HIDE DEF own, u
  <2>4. s = [nodes |-> u, ptr |-> p.ptr, room |-> p.room, idx |-> p.idx,
             mem |-> h, parsed |-> p.parsed]
    BY ReducedIs
  <2> HIDE DEF s
  <2>5. /\ q.nodes = u /\ q.ptr = p.ptr /\ q.room = p.room /\ q.idx = p.idx
        /\ q.mem = h /\ q.parsed = "RUN" /\ IsParser(q)
    BY <2>1, <2>4 DEF IsParser
  <2>6. Holding(u, p.ptr, h, a)
    BY <1>1, <1>10, <2>2, <2>3, HoldingInner
  <2>7. Len(u) = b + 1
    <3>1. IsList(Kept(p.nodes, b)) /\ Len(Kept(p.nodes, b)) = b
      <4>1. b \in 0 .. Len(p.nodes)
        BY <1>2
      <4> QED
        BY <1>2, <4>1, KeptList
    <3> QED
      BY <2>2, <3>1, AppendList
  <2>8. Len(u) <= p.room
    BY <1>1, <1>2, <2>7
  <2>9. Holds(q, a)
    BY <1>1, <2>5, <2>6, <2>8 DEF Holds
  <2>10. q.mem.n = m0.n + 2
    BY <1>10, <2>5
  <2> QED
    BY <2>2, <2>5, <2>9, <2>10 DEF q, m0
<1> QED
  BY <1>12, <1>15, <1>16

-------------------------------------------------------------------------------
(***************************************************************************)
(* The tokens                                                              *)
(***************************************************************************)

\* What the lexer leaves when it accepts a text
TokensKnown ==
  /\ tokens \in Seq(Token) /\ tokens # <<>> /\ tokens[Len(tokens)].tk = "FEND"
  /\ array.ptr \in Nat /\ array.ptr # 0

\* Token j is the first from i on that is not skipped
Comes(i, j) ==
  /\ j \in i .. Len(tokens) /\ ~SkipToken(tokens[j].tk)
  /\ \A k \in i .. j - 1 : SkipToken(tokens[k].tk)

\* The leaves of the tokens before token i, except those that are skipped
ReadUpto(w, i) ==
  /\ IsList(w)
  /\ \A k \in 1 .. Len(w) :
       w[k] = Leaf(w[k].at) /\ w[k].at \in 1 .. i - 1 /\ ~SkipToken(tokens[w[k].at].tk)
  /\ \A z \in 1 .. i - 1 : ~SkipToken(tokens[z].tk) => \E k \in 1 .. Len(w) : w[k].at = z
  /\ \A k, l \in 1 .. Len(w) : k < l => w[k].at < w[l].at

LEMMA KindsDomain == DOMAIN Kinds = Tks
<1> DEFINE f == [i \in DOMAIN Literals |-> Literals[i][1]]
           g == <<"NAME", "NMBR", "STRL", "WSPC", "LCOM", "BCOM">>
           T == {"NAME", "NMBR", "STRL", "WSPC", "LCOM", "BCOM"}
           S == {f[i] : i \in DOMAIN Literals}
<1>1. Len(Literals) \in Nat /\ DOMAIN Literals = 1..Len(Literals)
  BY DEF Literals
<1>2. f \in Seq(S)
  BY <1>1
<1>3. g \in Seq(T)
  OBVIOUS
<1> HIDE DEF f, g, S, T
<1>4. g \o f \in Seq(T \cup S)
  BY <1>2, <1>3
<1>5. Kinds \in Seq(T \cup S)
  BY <1>4 DEF Kinds, f, g
<1> QED
  BY <1>5 DEF Tks

\* The rules that can match are looked up under every token and nonterminal
LEMMA SymbolKnown ==
  ASSUME TokensKnown, NEW i \in 1 .. Len(tokens)
  PROVE  Leaf(i).sym = tokens[i].tk /\ Leaf(i).sym \in Symbols
<1>1. tokens[i].tk \in Marks
  <2>1. tokens[i] \in Token
    BY DEF TokensKnown
  <2> QED
    BY <2>1 DEF Token
<1>2. tokens[i].tk \in Symbols
  BY <1>1, KindsDomain DEF Marks, Symbols
<1>3. Leaf(i).sym = tokens[i].tk
  BY DEF Leaf, TkAt
<1> QED
  BY <1>2, <1>3

LEMMA RuleSymbol ==
  ASSUME NEW r \in DOMAIN grammar
  PROVE  grammar[r].lhs \in Symbols
BY DEF Symbols

\* Before the end there is a token ahead: the end marker is not skipped
LEMMA AheadKnown ==
  ASSUME TokensKnown, NEW i \in 1 .. Len(tokens)
  PROVE  Comes(i, Ahead(i))
<1> DEFINE e == Len(tokens)
           Is(j) == /\ j <= e => ~SkipToken(tokens[j].tk)
                    /\ \A k \in i .. j - 1 : SkipToken(tokens[k].tk)
           T == {j \in i .. e : ~SkipToken(tokens[j].tk)}
<1>1. e \in Nat /\ ~SkipToken(tokens[e].tk)
  BY DEF TokensKnown, SkipToken
<1> HIDE DEF e
<1>2. T \subseteq Nat /\ e \in T
  BY <1>1 DEF e
<1>3. PICK x \in T : \A y \in T : x <= y
  BY <1>2, LeastElement
<1>4. x \in i .. e /\ ~SkipToken(tokens[x].tk)
  OBVIOUS
<1>5. ASSUME NEW k \in i .. x - 1
      PROVE  SkipToken(tokens[k].tk)
  <2>1. k \in i .. e /\ ~(x <= k)
    BY <1>1, <1>4 DEF e
  <2> QED
    BY <1>3, <2>1
<1>6. x \in i .. e + 1 /\ Is(x)
  BY <1>1, <1>4, <1>5
<1>7. Ahead(i) = CHOOSE j \in i .. e + 1 : Is(j)
  BY DEF Ahead, e
<1>8. Ahead(i) \in i .. e + 1 /\ Is(Ahead(i))
  <2> HIDE DEF Is
  <2> QED
    BY <1>6, <1>7
<1> DEFINE j == Ahead(i)
<1> HIDE DEF j
<1>9. j \in i .. e + 1 /\ Is(j)
  BY <1>8 DEF j
<1>10. j # e + 1
  <2>1. SUFFICES ASSUME j = e + 1
                 PROVE  FALSE
    OBVIOUS
  <2>2. e \in i .. j - 1
    BY <1>1, <2>1 DEF e
  <2> QED
    BY <1>1, <1>9, <2>2
<1>11. j \in i .. e /\ j <= e
  BY <1>1, <1>9, <1>10 DEF e
<1> QED
  BY <1>9, <1>11 DEF Comes, j, e

\* After the end marker nothing is ahead
LEMMA AheadEnd ==
  ASSUME TokensKnown
  PROVE  Ahead(Len(tokens) + 1) = Len(tokens) + 1
<1> DEFINE i == Len(tokens) + 1
           Is(j) == /\ j <= Len(tokens) => ~SkipToken(tokens[j].tk)
                    /\ \A k \in i .. j - 1 : SkipToken(tokens[k].tk)
<1>1. Len(tokens) \in Nat
  BY DEF TokensKnown
<1>2. i \in i .. Len(tokens) + 1 /\ Is(i) /\ \A j \in i .. Len(tokens) + 1 : j = i
  BY <1>1
<1>3. Ahead(i) = CHOOSE j \in i .. Len(tokens) + 1 : Is(j)
  BY DEF Ahead
<1> HIDE DEF Is, i
<1>4. Ahead(i) = i
  BY <1>2, <1>3
<1> QED
  BY <1>4 DEF i

\* What has been read when token j, or nothing, is shifted
LEMMA ReadOn ==
  ASSUME TokensKnown, NEW w, NEW i \in 1 .. Len(tokens), ReadUpto(w, i),
         NEW j, Comes(i, j)
  PROVE  ReadUpto(w, j) /\ ReadUpto(Append(w, Leaf(j)), j + 1)
<1> DEFINE k0 == Len(w)
           x == Leaf(j)
           u == Append(w, x)
<1>1. /\ IsList(w) /\ k0 \in Nat /\ Len(tokens) \in Nat
      /\ j \in Nat /\ i <= j /\ j <= Len(tokens) /\ ~SkipToken(tokens[j].tk)
      /\ \A k \in i .. j - 1 : SkipToken(tokens[k].tk)
  BY ListFacts DEF ReadUpto, Comes, TokensKnown
<1>2. /\ \A k \in 1 .. k0 :
           w[k] = Leaf(w[k].at) /\ w[k].at \in 1 .. i - 1 /\ ~SkipToken(tokens[w[k].at].tk)
      /\ \A z \in 1 .. i - 1 : ~SkipToken(tokens[z].tk) => \E k \in 1 .. k0 : w[k].at = z
      /\ \A k, l \in 1 .. k0 : k < l => w[k].at < w[l].at
  BY DEF ReadUpto
<1>3. \A k \in 1 .. k0 : w[k].at \in 1 .. j - 1
  BY <1>1, <1>2
<1>4. ASSUME NEW z \in 1 .. j - 1, ~SkipToken(tokens[z].tk)
      PROVE  \E k \in 1 .. k0 : w[k].at = z
  <2>1. z \in 1 .. i - 1
    BY <1>1, <1>4
  <2> QED
    BY <1>2, <1>4, <2>1
<1>5. ReadUpto(w, j)
  BY <1>1, <1>2, <1>3, <1>4 DEF ReadUpto
<1>6. /\ IsList(u) /\ Len(u) = k0 + 1 /\ u[k0 + 1] = x /\ \A k \in 1 .. k0 : u[k] = w[k]
  BY <1>1, AppendList
<1>7. x = Leaf(x.at) /\ x.at = j
  BY DEF Leaf
<1> HIDE DEF u, x, k0
<1>8. ASSUME NEW k \in 1 .. k0 + 1
      PROVE  /\ u[k] = Leaf(u[k].at) /\ u[k].at \in 1 .. (j + 1) - 1
             /\ ~SkipToken(tokens[u[k].at].tk)
  <2>1. CASE k = k0 + 1
    BY <1>1, <1>6, <1>7, <2>1
  <2>2. CASE k # k0 + 1
    <3>1. k \in 1 .. k0
      BY <1>1, <2>2
    <3>2. u[k] = w[k] /\ w[k].at \in 1 .. j - 1
      BY <1>3, <1>6, <3>1
    <3>3. w[k] = Leaf(w[k].at) /\ ~SkipToken(tokens[w[k].at].tk)
      BY <1>2, <3>1
    <3>4. w[k].at \in 1 .. (j + 1) - 1
      BY <1>1, <3>2
    <3> QED
      BY <3>2, <3>3, <3>4
  <2> QED
    BY <2>1, <2>2
<1>9. ASSUME NEW z \in 1 .. (j + 1) - 1, ~SkipToken(tokens[z].tk)
      PROVE  \E k \in 1 .. k0 + 1 : u[k].at = z
  <2>1. CASE z = j
    <3>1. k0 + 1 \in 1 .. k0 + 1
      BY <1>1
    <3> QED
      BY <1>6, <1>7, <2>1, <3>1
  <2>2. CASE z # j
    <3>1. z \in 1 .. j - 1
      BY <1>1, <2>2
    <3>2. PICK k \in 1 .. k0 : w[k].at = z
      BY <1>4, <1>9, <3>1
    <3>3. k \in 1 .. k0 + 1 /\ u[k] = w[k]
      BY <1>1, <1>6
    <3> QED
      BY <3>2, <3>3
  <2> QED
    BY <2>1, <2>2
<1>10. ASSUME NEW k \in 1 .. k0 + 1, NEW l \in 1 .. k0 + 1, k < l
       PROVE  u[k].at < u[l].at
  <2>1. k \in 1 .. k0
    BY <1>1, <1>10
  <2>2. CASE l = k0 + 1
    <3>1. u[l].at = j /\ u[k].at \in 1 .. j - 1
      BY <1>3, <1>6, <1>7, <2>1, <2>2
    <3> QED
      BY <1>1, <3>1
  <2>3. CASE l # k0 + 1
    <3>1. l \in 1 .. k0
      BY <1>1, <2>3
    <3> QED
      BY <1>2, <1>6, <1>10, <2>1, <3>1
  <2> QED
    BY <2>2, <2>3
<1>11. ReadUpto(u, j + 1)
  BY <1>6, <1>8, <1>9, <1>10 DEF ReadUpto
<1> QED
  BY <1>5, <1>11 DEF u, x

-------------------------------------------------------------------------------
(***************************************************************************)
(* The steps on the stack                                                  *)
(***************************************************************************)

\* The end marker, or the unit that it ends
EndTop(nodes) ==
  /\ nodes # <<>>
  /\ \/ IsLeaf(Last(nodes)) /\ Last(nodes).sym = "FEND"
     \/ ~IsLeaf(Last(nodes)) /\ Last(nodes).sym = "Unit"

\* A derivation of fewer steps than there have been allocations goes from the nodes
\* to the tokens before token i
Derives(nodes, i, calls) ==
  \E w, d : calls \in Nat /\ d <= calls /\ Reaches(nodes, w, d) /\ ReadUpto(w, i)

\* The parser while it runs
Sound(p) ==
  /\ IsParser(p) /\ p.parsed = "RUN" /\ Holds(p, array.ptr)
  /\ p.idx \in 1 .. Len(tokens) + 1
  /\ p.nodes # <<>> => Last(p.nodes).sym \in Symbols
  /\ p.idx = Len(tokens) + 1 => EndTop(p.nodes)
  /\ Derives(p.nodes, p.idx, p.mem.n)

\* The parser after an allocation has failed
Lost(p) == IsParser(p) /\ p.parsed = "NOMEM" /\ Released(p.mem, array.ptr)

LEMMA LastAppend ==
  ASSUME NEW s, IsList(s), NEW x
  PROVE  Append(s, x) # <<>> /\ Last(Append(s, x)) = x
<1> DEFINE u == Append(s, x)
<1>1. IsList(u) /\ Len(u) = Len(s) + 1 /\ u[Len(s) + 1] = x /\ Len(s) \in Nat
  BY AppendList, ListFacts
<1> HIDE DEF u
<1>2. Last(u) = x
  BY <1>1 DEF Last
<1>3. Len(u) # 0
  BY <1>1
<1>4. u # <<>>
  BY <1>1, <1>3, ListFacts
<1> QED
  BY <1>2, <1>4 DEF u

\* Which allocation is going to fail does not matter to what is there
LEMMA FaultSound ==
  ASSUME Sound(Parser(mem)), NEW k \in Nat, NEW g \in Faults(mem, k)
  PROVE  Sound(Parser(g))
<1> DEFINE p == Parser(mem)
           q == Parser(g)
<1>1. /\ p.nodes = stack.nodes /\ p.ptr = stack.ptr /\ p.room = stack.room /\ p.idx = idx
      /\ p.mem = mem /\ p.parsed = parsed
      /\ q.nodes = stack.nodes /\ q.ptr = stack.ptr /\ q.room = stack.room /\ q.idx = idx
      /\ q.mem = g /\ q.parsed = parsed
  BY DEF Parser
<1>2. IsParser(q)
  BY <1>1 DEF IsParser, Parser
<1> HIDE DEF p, q
<1>3. Sound(p)
  BY DEF p
<1>4. Holding(stack.nodes, stack.ptr, mem, array.ptr)
  BY <1>1, <1>3 DEF Sound, Holds
<1>5. mem \in Memory
  BY <1>4 DEF Holding
<1>6. \/ g = mem
      \/ \E i \in 1..k : g = [mem EXCEPT !.fails = mem.n + i]
  BY DEF Faults
<1>7. g \in Memory /\ g.n = mem.n /\ g.live = mem.live /\ g.wrong = mem.wrong
  <2>1. CASE g = mem
    BY <1>5, <2>1
  <2>2. ASSUME NEW i \in 1..k, g = [mem EXCEPT !.fails = mem.n + i]
        PROVE  <1>7
    <3>1. mem.n + i \in Int
      BY <1>5 DEF Memory
    <3> QED
      BY <1>5, <2>2, <3>1 DEF Memory
  <2> QED
    BY <1>6, <2>1, <2>2
<1>8. Holding(stack.nodes, stack.ptr, g, array.ptr)
  <2>1. ~mem.wrong /\ mem.n \in Nat
    BY <1>4, <1>5 DEF Holding, Memory
  <2>2. ~g.wrong /\ g.n >= mem.n
    BY <1>7, <2>1
  <2> QED
    BY <1>4, <1>7, <2>2, HoldingSame
<1>9. Holds(q, array.ptr)
  BY <1>1, <1>3, <1>8 DEF Sound, Holds
<1>10. Sound(q)
  BY <1>1, <1>2, <1>3, <1>7, <1>9 DEF Sound
<1> QED
  BY <1>10 DEF q

\* A token is shifted that there is
LEMMA ShiftSound ==
  ASSUME TokensKnown, NEW p, Sound(p), NEW j, p.idx \in 1 .. Len(tokens), Comes(p.idx, j)
  PROVE  Sound(Shift(p, j)) \/ Lost(Shift(p, j))
<1> DEFINE q == Shift(p, j)
           x == Leaf(j)
<1>1. /\ IsParser(p) /\ p.parsed = "RUN" /\ Holds(p, array.ptr) /\ IsList(p.nodes)
      /\ p.mem.n \in Nat
  BY DEF Sound, Holds, Holding, Memory
<1>2. /\ IsParser(q) /\ q.mem.n \in Nat /\ q.mem.n >= p.mem.n
      /\ \/ /\ q.parsed = "RUN" /\ q.nodes = Append(p.nodes, x) /\ q.idx = j + 1
            /\ Holds(q, array.ptr)
         \/ q.parsed = "NOMEM" /\ Released(q.mem, array.ptr)
  BY <1>1, ShiftResult
<1> HIDE DEF q
<1>3. CASE q.parsed = "NOMEM"
  BY <1>2, <1>3 DEF Lost, q
<1>4. CASE q.parsed # "NOMEM"
  <2>1. /\ q.parsed = "RUN" /\ q.nodes = Append(p.nodes, x) /\ q.idx = j + 1
        /\ Holds(q, array.ptr)
    BY <1>2, <1>4
  <2>2. j \in 1 .. Len(tokens) /\ Len(tokens) \in Nat
    BY DEF Comes, TokensKnown
  <2>3. x.sym = tokens[j].tk /\ x.sym \in Symbols /\ IsLeaf(x)
    BY <2>2, SymbolKnown DEF Leaf, IsLeaf
  <2>4. q.nodes # <<>> /\ Last(q.nodes) = x
    BY <1>1, <2>1, LastAppend
  <2>5. q.idx \in 1 .. Len(tokens) + 1
    BY <2>1, <2>2
  <2>6. q.idx = Len(tokens) + 1 => EndTop(q.nodes)
    <3>1. SUFFICES ASSUME q.idx = Len(tokens) + 1
                   PROVE  EndTop(q.nodes)
      OBVIOUS
    <3>2. j = Len(tokens)
      BY <2>1, <2>2, <3>1
    <3> QED
      BY <2>3, <2>4, <3>2 DEF EndTop, TokensKnown
  <2>7. Derives(q.nodes, q.idx, q.mem.n)
    <3>1. PICK w, d : d <= p.mem.n /\ Reaches(p.nodes, w, d) /\ ReadUpto(w, p.idx)
      BY DEF Sound, Derives
    <3>2. ReadUpto(Append(w, x), j + 1)
      BY <3>1, ReadOn
    <3>3. Reaches(q.nodes, Append(w, x), d)
      BY <2>1, <2>3, <3>1, AppendReaches
    <3>4. d <= q.mem.n
      <4>1. d \in Nat
        BY <3>1 DEF Reaches
      <4> QED
        BY <1>1, <1>2, <3>1, <4>1
    <3> QED
      BY <1>2, <2>1, <3>2, <3>3, <3>4 DEF Derives
  <2>8. Sound(q)
    BY <1>2, <2>1, <2>3, <2>4, <2>5, <2>6, <2>7 DEF Sound
  <2> QED
    BY <2>8 DEF q
<1> QED
  BY <1>3, <1>4

\* Any rule but that of the unit matches only where there is a token ahead
LEMMA TokenAhead ==
  ASSUME TokensKnown, NEW p, Sound(p), NEW r, r = FirstRule(p.nodes), r # 0,
         grammar[r].lhs # "Unit"
  PROVE  p.idx \in 1 .. Len(tokens) /\ Comes(p.idx, Ahead(p.idx))
<1>1. /\ IsList(p.nodes) /\ p.idx \in 1 .. Len(tokens) + 1
      /\ p.nodes # <<>> => Last(p.nodes).sym \in Symbols
      /\ p.idx = Len(tokens) + 1 => EndTop(p.nodes)
  BY DEF Sound, Holds, Holding
<1>2. p.nodes # <<>>
  BY <1>1, FirstRuleKnown
<1>3. ~EndTop(p.nodes)
  BY <1>1, <1>2, MarkerTop DEF EndTop
<1>4. Len(tokens) \in Nat
  BY DEF TokensKnown
<1>5. p.idx \in 1 .. Len(tokens)
  BY <1>1, <1>3, <1>4
<1> QED
  BY <1>5, AheadKnown

\* The nodes that a rule matches are reduced by it
LEMMA ReduceSound ==
  ASSUME TokensKnown, NEW p, Sound(p), NEW r, r = FirstRule(p.nodes), r # 0,
         NEW i, i = IF grammar[r].lhs = "Unit" THEN p.idx ELSE Ahead(p.idx)
  PROVE  LET q == Reduce([p EXCEPT !.idx = i], grammar[r], Below(grammar[r], p.nodes))
         IN  (Sound(q) /\ q.idx = i) \/ Lost(q)
<1> DEFINE rule == grammar[r]
           b == Below(rule, p.nodes)
           s == [p EXCEPT !.idx = i]
           q == Reduce(s, rule, b)
<1>1. /\ IsParser(p) /\ p.parsed = "RUN" /\ Holds(p, array.ptr) /\ IsList(p.nodes)
      /\ p.mem.n \in Nat /\ p.idx \in 1 .. Len(tokens) + 1
      /\ p.nodes # <<>> => Last(p.nodes).sym \in Symbols
      /\ p.idx = Len(tokens) + 1 => EndTop(p.nodes)
  BY DEF Sound, Holds, Holding, Memory
<1>2. p.nodes # <<>> /\ r \in DOMAIN grammar /\ GoodRule(rule) /\ b \in 0 .. Len(p.nodes) - 1
  BY <1>1, FirstRuleKnown
<1>3. s = [nodes |-> p.nodes, ptr |-> p.ptr, room |-> p.room, idx |-> i, mem |-> p.mem,
           parsed |-> p.parsed]
  <2>1. p = [nodes |-> p.nodes, ptr |-> p.ptr, room |-> p.room, idx |-> p.idx, mem |-> p.mem,
             parsed |-> p.parsed]
    BY <1>1 DEF IsParser
  <2> QED
    BY <2>1
<1> HIDE DEF s
<1>4. /\ s.nodes = p.nodes /\ s.ptr = p.ptr /\ s.room = p.room /\ s.idx = i /\ s.mem = p.mem
      /\ s.parsed = "RUN" /\ IsParser(s)
  BY <1>1, <1>3 DEF IsParser
<1>5. Holds(s, array.ptr)
  BY <1>1, <1>4 DEF Holds
<1> HIDE DEF b, rule
<1>6. /\ IsParser(q)
      /\ \/ /\ q.parsed = "RUN" /\ q.idx = i /\ q.mem.n = p.mem.n + 2
            /\ \E own : q.nodes = Append(Kept(p.nodes, b),
                                         Inner(rule.lhs, Top(p.nodes, b), own))
            /\ Holds(q, array.ptr)
         \/ q.parsed = "NOMEM" /\ Released(q.mem, array.ptr)
  BY <1>2, <1>4, <1>5, ReduceResult
<1> HIDE DEF q
<1>7. CASE q.parsed = "NOMEM"
  BY <1>6, <1>7 DEF Lost, q, s, b, rule
<1>8. CASE q.parsed # "NOMEM"
  <2>1. /\ q.parsed = "RUN" /\ q.idx = i /\ q.mem.n = p.mem.n + 2 /\ Holds(q, array.ptr)
    BY <1>6, <1>8
  <2>2. PICK own : q.nodes = Append(Kept(p.nodes, b), Inner(rule.lhs, Top(p.nodes, b), own))
    BY <1>6, <1>8
  <2> DEFINE kids == Top(p.nodes, b)
             x == Inner(rule.lhs, kids, own)
  <2>3. x.kids = kids /\ x.sym = rule.lhs
    BY DEF Inner
  <2> HIDE DEF x
  <2>4. /\ IsList(kids) /\ kids # <<>> /\ IsList(Kept(p.nodes, b))
        /\ Len(kids) \in ReadAs(rule.rhs, kids)[Len(rule.rhs)]
    <3>1. Below(rule, p.nodes) >= 0
      BY <1>2 DEF b
    <3>2. Len(kids) \in ReadAs(rule.rhs, kids)[Len(rule.rhs)]
      BY <1>1, <1>2, <3>1, MatchSound DEF b
    <3>3. b \in 0 .. Len(p.nodes) /\ Len(p.nodes) \in Nat /\ Len(p.nodes) - b # 0
      BY <1>1, <1>2, ListFacts
    <3>4. IsList(kids) /\ Len(kids) = Len(p.nodes) - b /\ IsList(Kept(p.nodes, b))
      BY <1>1, <3>3, TopList, KeptList
    <3> HIDE DEF kids
    <3>5. kids # <<>>
      BY <3>3, <3>4, ListFacts
    <3> QED
      BY <3>2, <3>4, <3>5
  <2>5. ByRule(x)
    BY <1>2, <2>3, <2>4 DEF ByRule, rule
  <2>6. ~IsLeaf(x)
    BY <2>3, <2>4 DEF IsLeaf
  <2>7. q.nodes # <<>> /\ Last(q.nodes) = x
    <3>1. q.nodes = Append(Kept(p.nodes, b), x)
      BY <2>2 DEF x
    <3> QED
      BY <2>4, <3>1, LastAppend
  <2>8. x.sym \in Symbols
    BY <1>2, <2>3, RuleSymbol DEF rule
  <2>9. \/ i = p.idx /\ rule.lhs = "Unit"
        \/ p.idx \in 1 .. Len(tokens) /\ Comes(p.idx, i)
    BY TokenAhead DEF rule
  <2>10. q.idx \in 1 .. Len(tokens) + 1 /\ (q.idx = Len(tokens) + 1 => EndTop(q.nodes))
    <3>1. CASE i = p.idx /\ rule.lhs = "Unit"
      BY <1>1, <2>1, <2>3, <2>6, <2>7, <3>1 DEF EndTop
    <3>2. CASE p.idx \in 1 .. Len(tokens) /\ Comes(p.idx, i)
      <4>1. i \in 1 .. Len(tokens) /\ Len(tokens) \in Nat
        BY <3>2 DEF Comes, TokensKnown
      <4>2. i \in 1 .. Len(tokens) + 1 /\ i # Len(tokens) + 1
        BY <4>1
      <4> QED
        BY <2>1, <4>2
    <3> QED
      BY <2>9, <3>1, <3>2
  <2>11. Derives(q.nodes, q.idx, q.mem.n)
    <3>1. PICK w, d : d <= p.mem.n /\ Reaches(p.nodes, w, d) /\ ReadUpto(w, p.idx)
      BY DEF Sound, Derives
    <3>2. ReadUpto(w, i)
      BY <2>9, <3>1, ReadOn
    <3>3. Reaches(Append(Kept(p.nodes, b), x), w, d + 1)
      BY <1>2, <2>3, <2>5, <3>1, ReduceReaches
    <3>4. q.nodes = Append(Kept(p.nodes, b), x)
      BY <2>2 DEF x
    <3>5. d + 1 <= q.mem.n /\ q.mem.n \in Nat
      <4>1. d \in Nat
        BY <3>1 DEF Reaches
      <4> QED
        BY <1>1, <2>1, <3>1, <4>1
    <3> QED
      BY <2>1, <3>2, <3>3, <3>4, <3>5 DEF Derives
  <2>12. Sound(q)
    BY <1>6, <2>1, <2>7, <2>8, <2>10, <2>11 DEF Sound
  <2> QED
    BY <2>1, <2>12 DEF q, s, b, rule
<1> QED
  BY <1>7, <1>8

-------------------------------------------------------------------------------
(***************************************************************************)
(* The lexer and then the parser                                           *)
(***************************************************************************)

\* Both on one file, in a memory in which nothing is allocated yet and any one
\* allocation, or none, is going to fail
ParserSpec(file) ==
  /\ LexInit(file) /\ ParseInit /\ mem \in {[Fresh EXCEPT !.fails = k] : k \in Int}
  /\ [][\/ LexNext /\ UNCHANGED parseVars
        \/ lexed = "OK" /\ ParseNext /\ UNCHANGED lexVars]_<<lexVars, parseVars, mem>>

\* The text has been refused, or is still being read
Waiting == LexInv /\ ParseInit

\* The tree that is returned
Accepted ==
  /\ \E root : tree = <<root>> /\ root.sym = "Unit"
  /\ idx = Len(tokens) + 1
  /\ Derives(tree, idx, mem.n)

\* What a step that ends parse leaves
Leaves ==
  /\ mem'.wrong = FALSE
  /\ mem'.live = {array'.ptr} \cup UNION {tree'[i].blocks : i \in DOMAIN tree'}

LEMMA EmptyDerives ==
  ASSUME NEW calls \in Nat
  PROVE  Derives(<<>>, 1, calls)
<1> DEFINE D == Derivation(<<>>)
           none == [nodes |-> <<>>, sound |-> TRUE]
<1>1. D[0] = none
  BY DerivationRuns
<1> HIDE DEF D
<1>2. IsList(none.nodes) /\ Len(none.nodes) = 0 /\ none.nodes = <<>>
  BY EmptyList
<1> HIDE DEF none
<1>3. Tidy(D[0].nodes)
  BY <1>1, <1>2 DEF Tidy
<1>4. \A e \in 0 .. 0 : e = 0
  OBVIOUS
<1>5. Reaches(<<>>, <<>>, 0)
  <2>1. \A i \in 1 .. Len(<<>>) : IsLeaf(<<>>[i])
    OBVIOUS
  <2>2. \A e \in 0 .. 0 : Tidy(D[e].nodes)
    BY <1>3, <1>4
  <2> QED
    BY <1>1, <2>1, <2>2 DEF Reaches, D, none
<1>6. ReadUpto(<<>>, 1)
  BY EmptyList DEF ReadUpto
<1>7. 0 <= calls
  OBVIOUS
<1> QED
  BY <1>5, <1>6, <1>7 DEF Derives

\* Before the first step the parser has nothing; the lexer leaves the tokens
LEMMA BeginSound ==
  ASSUME LexInv, lexed = "OK", ParseInit
  PROVE  TokensKnown /\ Sound(Parser(mem))
<1> DEFINE p == Parser(mem)
<1>1. /\ tokens \in Seq(Token) /\ tokens # <<>> /\ tokens[Len(tokens)].tk = "FEND"
      /\ array \in [ptr : Nat, room : Nat] /\ mem \in Memory
      /\ ~mem.wrong /\ mem.live = {array.ptr} \ {0} /\ mem.live \subseteq 1 .. mem.n
      /\ Len(tokens) <= array.room /\ (array.room # 0 => array.ptr # 0)
  BY DEF LexInv, LexTypeOK, EndMarked, ArrayOwned, Owns, Lexer
<1>2. TokensKnown
  BY <1>1 DEF TokensKnown
<1>3. /\ p.nodes = <<>> /\ p.ptr = 0 /\ p.room = 0 /\ p.idx = 1 /\ p.mem = mem
      /\ p.parsed = "RUN" /\ IsParser(p)
  BY DEF ParseInit, Parser, IsParser
<1> HIDE DEF p
<1>4. Len(tokens) \in Nat /\ Len(tokens) # 0
  BY <1>1
<1>5. Holding(<<>>, 0, mem, array.ptr)
  <2>1. Blocks(<<>>) = {} /\ Apart(<<>>) /\ IsList(<<>>)
    BY EmptyList DEF Blocks, Apart
  <2>2. \A i \in 1 .. Len(<<>>) : {0, array.ptr, 0} \cap <<>>[i].blocks = {}
    OBVIOUS
  <2>3. mem.live = ({array.ptr, 0} \ {0}) \cup {}
    BY <1>1
  <2> QED
    BY <1>1, <1>2, <2>1, <2>2, <2>3 DEF Holding, TokensKnown
<1>6. Holds(p, array.ptr)
  BY <1>3, <1>5 DEF Holds
<1>7. p.idx \in 1 .. Len(tokens) + 1 /\ p.idx # Len(tokens) + 1
  BY <1>3, <1>4
<1>8. Derives(p.nodes, p.idx, p.mem.n)
  <2>1. mem.n \in Nat
    BY <1>1 DEF Memory
  <2> QED
    BY <1>3, <2>1, EmptyDerives
<1>9. Sound(p)
  BY <1>3, <1>6, <1>7, <1>8 DEF Sound
<1> QED
  BY <1>2, <1>9 DEF p

\* What the values after the step make of the stack
LEMMA BecomesParser ==
  ASSUME NEW g, NEW q, IsParser(q), ParserBecomes(g, q), UNCHANGED lexVars
  PROVE  /\ TokensKnown => TokensKnown'
         /\ parsed' = q.parsed
         /\ Sound(q) => Sound(Parser(mem))'
         /\ Lost(q) => mem'.wrong = FALSE /\ mem'.live = {array'.ptr}
<1>1. /\ stack' = [nodes |-> q.nodes, ptr |-> q.ptr, room |-> q.room]
      /\ idx' = q.idx /\ mem' = q.mem /\ parsed' = q.parsed
      /\ tokens' = tokens /\ array' = array
  BY DEF ParserBecomes, lexVars
<1>2. TokensKnown => TokensKnown'
  BY <1>1 DEF TokensKnown
<1>3. Parser(mem)' = q
  <2>1. Parser(mem)' = [nodes |-> q.nodes, ptr |-> q.ptr, room |-> q.room, idx |-> q.idx,
                        mem |-> q.mem, parsed |-> q.parsed]
    BY <1>1 DEF Parser
  <2> QED
    BY <2>1 DEF IsParser
<1>4. ASSUME NEW nodes, NEW i, NEW calls
      PROVE  Derives(nodes, i, calls) => Derives(nodes, i, calls)'
  BY <1>1 DEF Derives, ReadUpto, Leaf, TkAt
<1>5. Sound(q) => Sound(Parser(mem))'
  <2> HIDE DEF Parser
  <2> QED
    BY <1>1, <1>3, <1>4 DEF Sound
<1>6. Lost(q) => mem'.wrong = FALSE /\ mem'.live = {array'.ptr}
  BY <1>1 DEF Lost, Released, Memory
<1> QED
  BY <1>1, <1>2, <1>5, <1>6

\* The stack is shifted or reduced, or given up with the tree not made
Moves ==
  /\ TokensKnown' /\ tree' = <<>>
  /\ \/ parsed' = "RUN" /\ Sound(Parser(mem))'
     \/ parsed' = "NOMEM" /\ Leaves

LEMMA MovesTo ==
  ASSUME TokensKnown, tree' = <<>>, UNCHANGED lexVars,
         NEW g, NEW q, Sound(q) \/ Lost(q), ParserBecomes(g, q)
  PROVE  Moves
<1>1. IsParser(q)
  BY DEF Sound, Lost
<1>2. /\ TokensKnown' /\ parsed' = q.parsed
      /\ Sound(q) => Sound(Parser(mem))'
      /\ Lost(q) => mem'.wrong = FALSE /\ mem'.live = {array'.ptr}
  BY <1>1, BecomesParser
<1>3. CASE Sound(q)
  <2>1. parsed' = "RUN"
    BY <1>2, <1>3 DEF Sound
  <2> QED
    BY <1>2, <1>3, <2>1 DEF Moves
<1>4. CASE Lost(q)
  <2>1. parsed' = "NOMEM"
    BY <1>2, <1>4 DEF Lost
  <2>2. UNION {tree'[i].blocks : i \in DOMAIN tree'} = {}
    BY DEF Moves
  <2>3. Leaves
    BY <1>2, <1>4, <2>2 DEF Leaves
  <2> QED
    BY <1>2, <2>1, <2>3 DEF Moves
<1> QED
  BY <1>3, <1>4

LEMMA ReduceStep ==
  ASSUME TokensKnown, tree = <<>>, Sound(Parser(mem)), UNCHANGED lexVars,
         NEW r, r = FirstRule(stack.nodes), TryReduce(r)
  PROVE  Moves
<1> DEFINE rule == grammar[r]
           next == IF rule.lhs = "Unit" THEN idx ELSE Ahead(idx)
           ahead == TkAt(next)
           First(g) == Reduce([Parser(g) EXCEPT !.idx = next], rule, Below(rule, stack.nodes))
           Second(p) == IF ShouldShiftPost(rule, ahead) THEN Shift(p, next) ELSE p
           waits == rule.lhs # "Unit" /\ ShouldShiftPre(rule, ahead)
<1>1. r # 0 /\ tree' = <<>>
  BY DEF TryReduce
<1>2. PICK g \in Faults(mem, 3) :
        ParserBecomes(g, IF waits THEN Shift(Parser(g), next)
                         ELSE CHOOSE y \in {Second(p) : p \in {First(g)}} : TRUE)
  BY Zenon DEF TryReduce, Then
<1> DEFINE p == Parser(g)
           R == First(g)
           q == IF waits THEN Shift(p, next) ELSE Second(R)
<1>3. ParserBecomes(g, q)
  <2>1. (CHOOSE y \in {Second(x) : x \in {R}} : TRUE) = Second(R)
    <3> HIDE DEF Second, R
    <3>1. {Second(x) : x \in {R}} = {Second(R)}
      OBVIOUS
    <3> QED
      BY <3>1
  <2>2. ParserBecomes(g, IF waits THEN Shift(p, next)
                         ELSE CHOOSE y \in {Second(x) : x \in {R}} : TRUE)
    BY <1>2
  <2> HIDE DEF Second, R, waits, next, p
  <2> QED
    BY <2>1, <2>2
<1>4. Sound(p) /\ p.nodes = stack.nodes /\ p.idx = idx
  <2>1. Sound(p)
    BY FaultSound
  <2> QED
    BY <2>1 DEF Parser
<1>5. R = Reduce([p EXCEPT !.idx = next], grammar[r], Below(grammar[r], p.nodes))
  BY DEF Parser
<1> HIDE DEF p, R
<1>6. rule.lhs # "Unit" => /\ idx \in 1 .. Len(tokens) /\ Comes(idx, next)
                           /\ next \in 1 .. Len(tokens) /\ Comes(next, next)
  <2>1. SUFFICES ASSUME rule.lhs # "Unit"
                 PROVE  /\ idx \in 1 .. Len(tokens) /\ Comes(idx, next)
                        /\ next \in 1 .. Len(tokens) /\ Comes(next, next)
    OBVIOUS
  <2>2. next = Ahead(idx)
    BY <2>1
  <2> HIDE DEF next
  <2>3. idx \in 1 .. Len(tokens) /\ Comes(idx, next)
    BY <1>1, <1>4, <2>1, <2>2, TokenAhead
  <2>4. next \in 1 .. Len(tokens) /\ ~SkipToken(tokens[next].tk) /\ Len(tokens) \in Nat
    BY <2>3 DEF Comes, TokensKnown
  <2>5. \A k \in next .. next - 1 : FALSE
    BY <2>4
  <2>6. Comes(next, next)
    BY <2>4, <2>5 DEF Comes
  <2> QED
    BY <2>3, <2>4, <2>6
<1>7. (Sound(R) /\ R.idx = next) \/ Lost(R)
  <2>1. next = IF grammar[r].lhs = "Unit" THEN p.idx ELSE Ahead(p.idx)
    BY <1>4
  <2> HIDE DEF next
  <2> QED
    BY <1>1, <1>4, <1>5, <2>1, ReduceSound
<1> HIDE DEF next, ahead
<1>8. CASE waits
  <2>1. Sound(Shift(p, next)) \/ Lost(Shift(p, next))
    BY <1>4, <1>6, <1>8, ShiftSound
  <2> QED
    BY <1>1, <1>3, <1>8, <2>1, MovesTo
<1>9. CASE ~waits
  <2>1. q = Second(R)
    BY <1>9
  <2>2. Sound(Second(R)) \/ Lost(Second(R))
    <3>1. CASE ~ShouldShiftPost(rule, ahead)
      BY <1>7, <3>1
    <3>2. CASE ShouldShiftPost(rule, ahead) /\ Lost(R)
      <4>1. Shift(R, next) = R
        BY <3>2 DEF Shift, Lost
      <4> QED
        BY <3>2, <4>1
    <3>3. CASE ShouldShiftPost(rule, ahead) /\ Sound(R) /\ R.idx = next
      <4>1. rule.lhs # "Unit"
        BY <3>3 DEF ShouldShiftPost
      <4> HIDE DEF rule
      <4>2. Sound(Shift(R, next)) \/ Lost(Shift(R, next))
        BY <1>6, <3>3, <4>1, ShiftSound
      <4> QED
        BY <3>3, <4>2
    <3> QED
      BY <1>7, <3>1, <3>2, <3>3
  <2> HIDE DEF Second, q
  <2> QED
    BY <1>1, <1>3, <2>1, <2>2, MovesTo
<1> QED
  BY <1>8, <1>9

LEMMA ShiftStep ==
  ASSUME TokensKnown, tree = <<>>, Sound(Parser(mem)), UNCHANGED lexVars,
         NEW r, ShiftNext(r)
  PROVE  Moves
<1>1. Ahead(idx) <= Len(tokens) /\ tree' = <<>>
  BY DEF ShiftNext
<1>2. PICK g \in Faults(mem, 1) : ParserBecomes(g, Shift(Parser(g), Ahead(idx)))
  BY DEF ShiftNext
<1>3. Sound(Parser(g)) /\ Parser(g).idx = idx
  <2>1. Sound(Parser(g))
    BY FaultSound
  <2> QED
    BY <2>1 DEF Parser
<1>4. idx \in 1 .. Len(tokens)
  <2>1. idx \in 1 .. Len(tokens) + 1 /\ Len(tokens) \in Nat
    BY <1>3 DEF Sound, TokensKnown
  <2>2. idx # Len(tokens) + 1
    BY <1>1, <2>1, AheadEnd
  <2> QED
    BY <2>1, <2>2
<1>5. Comes(idx, Ahead(idx))
  BY <1>4, AheadKnown
<1>6. Sound(Shift(Parser(g), Ahead(idx))) \/ Lost(Shift(Parser(g), Ahead(idx)))
  BY <1>3, <1>4, <1>5, ShiftSound
<1> QED
  BY <1>1, <1>2, <1>6, MovesTo

\* The stack is gone, but not the blocks of the nodes
TakenOff(p, q, a, result) ==
  /\ IsParser(q) /\ q.idx = p.idx /\ q.parsed = result
  /\ q.mem \in Memory /\ q.mem.wrong = FALSE /\ q.mem.n = p.mem.n
  /\ q.mem.live = {a} \cup Blocks(p.nodes)

\* destroy_stack when the nodes have been taken off first
LEMMA TakenResult ==
  ASSUME NEW p, IsParser(p), NEW a, Holding(p.nodes, p.ptr, p.mem, a), NEW result,
         NEW s, IsParser(s), s.nodes = <<>>, s.ptr = p.ptr, s.mem = p.mem, s.idx = p.idx
  PROVE  TakenOff(p, DestroyStack(s, result), a, result)
<1> DEFINE g == p.mem
           h == Fold(DestroyNode, g, <<>>)
           f == Free(h, p.ptr)
           q == DestroyStack(s, result)
<1>1. /\ g \in Memory /\ ~g.wrong /\ g.live \subseteq 1 .. g.n
      /\ g.live = ({a, p.ptr} \ {0}) \cup Blocks(p.nodes)
      /\ a # 0 /\ a # p.ptr
      /\ \A i \in 1 .. Len(p.nodes) : {0, a, p.ptr} \cap p.nodes[i].blocks = {}
  BY DEF Holding
<1>2. 0 \notin Blocks(p.nodes) /\ p.ptr \notin Blocks(p.nodes)
  BY <1>1 DEF Blocks
<1>3. s = [nodes |-> <<>>, ptr |-> p.ptr, room |-> s.room, idx |-> p.idx, mem |-> g,
           parsed |-> s.parsed]
  BY DEF IsParser
<1>4. s.nodes = <<>> /\ s.mem = g /\ s.ptr = p.ptr
  OBVIOUS
<1>5. q = [s EXCEPT !.mem = f, !.nodes = <<>>, !.ptr = 0, !.room = 0, !.parsed = result]
  <2> HIDE DEF g
  <2> QED
    BY <1>4 DEF DestroyStack, f, h
<1> HIDE DEF q
<1>6. q = [nodes |-> <<>>, ptr |-> 0, room |-> 0, idx |-> p.idx, mem |-> f, parsed |-> result]
  BY <1>3, <1>5
<1>7. h = [n |-> g.n, ptr |-> g.ptr, live |-> g.live, fails |-> g.fails, wrong |-> FALSE]
  <2>1. IsList(<<>>) /\ Apart(<<>>) /\ Blocks(<<>>) = {}
    BY EmptyList DEF Apart, Blocks
  <2>2. Blocks(<<>>) \subseteq g.live /\ g.live \ Blocks(<<>>) = g.live
    BY <2>1
  <2> HIDE DEF h, g
  <2>3. h = [n |-> g.n, ptr |-> g.ptr, live |-> g.live \ Blocks(<<>>), fails |-> g.fails,
             wrong |-> FALSE]
    BY <1>1, <2>1, <2>2, DestroyNodes DEF h
  <2> QED
    BY <2>2, <2>3
<1> HIDE DEF h, g
<1>8. h \in Memory /\ ~h.wrong /\ h.live = g.live /\ h.n = g.n
  BY <1>1, <1>7 DEF Memory
<1>9. f = [n |-> h.n, ptr |-> h.ptr, live |-> h.live \ {p.ptr}, fails |-> h.fails, wrong |-> FALSE]
  <2>1. (p.ptr # 0 => p.ptr \in h.live) /\ 0 \notin h.live
    BY <1>1, <1>8
  <2> QED
    BY <1>8, <2>1, FreeResult
<1> HIDE DEF f
<1>10. f \in Memory /\ f.wrong = FALSE /\ f.n = g.n /\ f.live = h.live \ {p.ptr}
  BY <1>8, <1>9 DEF Memory
<1>11. f.live = {a} \cup Blocks(p.nodes)
  BY <1>1, <1>2, <1>8, <1>10
<1>12. q.mem = f /\ q.idx = p.idx /\ q.parsed = result /\ IsParser(q)
  BY <1>6 DEF IsParser
<1> QED
  BY <1>10, <1>11, <1>12 DEF TakenOff, q, g

LEMMA FinishStep ==
  ASSUME TokensKnown, tree = <<>>, Sound(Parser(mem)), UNCHANGED lexVars,
         NEW r, Finish(r)
  PROVE  /\ TokensKnown' /\ Leaves
         /\ \/ parsed' = "REJECT"
            \/ parsed' = "OK" /\ Accepted'
<1> DEFINE p == Parser(mem)
           root == stack.nodes[1]
           whole == Len(stack.nodes) = 1 /\ ~IsLeaf(root) /\ root.sym = "Unit"
           taken == DestroyStack([p EXCEPT !.nodes = <<>>], "OK")
           left == DestroyStack(p, "REJECT")
<1>1. /\ IsParser(p) /\ Holding(p.nodes, p.ptr, p.mem, array.ptr)
      /\ p.nodes = stack.nodes /\ p.idx = idx /\ p.mem = mem
      /\ IsList(stack.nodes) /\ idx \in 1 .. Len(tokens) + 1
      /\ Derives(stack.nodes, idx, mem.n)
  <2>1. p.nodes = stack.nodes /\ p.idx = idx /\ p.mem = mem
    BY DEF Parser
  <2> HIDE DEF p
  <2>2. Sound(p)
    BY DEF p
  <2> QED
    BY <2>1, <2>2 DEF Sound, Holds, Holding
<1>2. tokens' = tokens /\ array' = array
  BY DEF lexVars
<1>3. Ahead(idx) > Len(tokens)
  BY DEF Finish
<1>4. CASE ~whole
  <2>1. ParserBecomes(mem, left) /\ tree' = tree
    BY <1>4 DEF Finish
  <2> HIDE DEF p
  <2>2. /\ IsParser(left) /\ left.parsed = "REJECT" /\ Released(left.mem, array.ptr)
    BY <1>1, DestroyStackResult
  <2> HIDE DEF left
  <2>3. TokensKnown' /\ parsed' = "REJECT"
    BY <2>1, <2>2, BecomesParser
  <2>4. mem'.wrong = FALSE /\ mem'.live = {array'.ptr}
    BY <1>2, <2>1, <2>2 DEF ParserBecomes, Released, Memory
  <2>5. UNION {tree'[i].blocks : i \in DOMAIN tree'} = {}
    BY <2>1
  <2> QED
    BY <2>3, <2>4, <2>5 DEF Leaves
<1>5. CASE whole
  <2>1. ParserBecomes(mem, taken) /\ tree' = <<root>>
    BY <1>5 DEF Finish
  <2> HIDE DEF p
  <2>2. /\ IsParser(taken) /\ taken.parsed = "OK" /\ taken.idx = idx
        /\ taken.mem \in Memory /\ taken.mem.wrong = FALSE /\ taken.mem.n = mem.n
        /\ taken.mem.live = {array.ptr} \cup Blocks(stack.nodes)
    <3> DEFINE y == [p EXCEPT !.nodes = <<>>]
               z == DestroyStack(y, "OK")
    <3>0. taken = z
      OBVIOUS
    <3>2. y = [nodes |-> <<>>, ptr |-> p.ptr, room |-> p.room, idx |-> p.idx, mem |-> p.mem,
               parsed |-> p.parsed]
      <4>1. p = [nodes |-> p.nodes, ptr |-> p.ptr, room |-> p.room, idx |-> p.idx,
                 mem |-> p.mem, parsed |-> p.parsed]
        BY <1>1 DEF IsParser
      <4> QED
        BY <4>1
    <3> HIDE DEF y, taken
    <3>1. /\ IsParser(z) /\ z.parsed = "OK" /\ z.idx = p.idx
          /\ z.mem \in Memory /\ z.mem.wrong = FALSE /\ z.mem.n = p.mem.n
          /\ z.mem.live = {array.ptr} \cup Blocks(p.nodes)
      <4>1. IsParser(y) /\ y.nodes = <<>> /\ y.ptr = p.ptr /\ y.mem = p.mem /\ y.idx = p.idx
        BY <3>2 DEF IsParser
      <4>2. TakenOff(p, z, array.ptr, "OK")
        BY <1>1, <4>1, TakenResult
      <4> QED
        BY <4>2 DEF TakenOff
    <3> HIDE DEF z
    <3> QED
      BY <1>1, <3>0, <3>1
  <2> HIDE DEF taken
  <2>3. TokensKnown' /\ parsed' = "OK"
    BY <2>1, <2>2, BecomesParser
  <2>4. idx' = idx /\ mem' = taken.mem
    BY <2>1, <2>2 DEF ParserBecomes
  <2>5. stack.nodes = <<root>>
    <3>1. IsList(<<root>>) /\ Len(<<root>>) = 1 /\ <<root>>[1] = root
      <4> HIDE DEF root
      <4>1. <<root>> \in Seq({root})
        OBVIOUS
      <4> QED
        BY <4>1 DEF IsList
    <3> HIDE DEF root
    <3>2. \A i \in 1 .. Len(stack.nodes) : stack.nodes[i] = <<root>>[i]
      BY <1>5, <3>1 DEF root
    <3> QED
      BY <1>1, <1>5, <3>1, <3>2, SameList
  <2>6. DOMAIN stack.nodes = 1 .. Len(stack.nodes)
    BY <1>1, ListFacts
  <2>7. Leaves
    <3>1. UNION {tree'[i].blocks : i \in DOMAIN tree'} = Blocks(stack.nodes)
      BY <2>1, <2>5, <2>6 DEF Blocks
    <3> QED
      BY <1>2, <2>2, <2>4, <3>1 DEF Leaves
  <2>8. idx = Len(tokens) + 1
    <3>1. Len(tokens) \in Nat
      BY DEF TokensKnown
    <3>2. SUFFICES ASSUME idx # Len(tokens) + 1
                   PROVE  FALSE
      OBVIOUS
    <3>3. idx \in 1 .. Len(tokens)
      BY <1>1, <3>1, <3>2
    <3>4. Ahead(idx) \in idx .. Len(tokens)
      BY <3>3, AheadKnown DEF Comes
    <3> QED
      BY <1>3, <3>1, <3>3, <3>4
  <2>9. Derives(tree, idx, mem.n)'
    <3>1. ASSUME NEW nodes, NEW i, NEW calls
          PROVE  Derives(nodes, i, calls) => Derives(nodes, i, calls)'
      BY <1>2 DEF Derives, ReadUpto, Leaf, TkAt
    <3>2. PICK nodes : nodes = stack.nodes
      OBVIOUS
    <3>3. PICK i : i = idx
      OBVIOUS
    <3>4. PICK calls : calls = mem.n
      OBVIOUS
    <3>5. Derives(nodes, i, calls)'
      BY <1>1, <3>1, <3>2, <3>3, <3>4
    <3>6. tree' = nodes /\ idx' = i /\ (mem.n)' = calls
      BY <2>1, <2>2, <2>4, <2>5, <3>2, <3>3, <3>4
    <3> QED
      BY <3>5, <3>6
  <2>10. Accepted'
    BY <1>2, <1>5, <2>1, <2>4, <2>8, <2>9 DEF Accepted
  <2> QED
    BY <2>3, <2>7, <2>10
<1> QED
  BY <1>4, <1>5

\* The parser has nothing yet and the lexer is running or has refused the text or is
\* done; or the parser runs; or it has ended
Ended == parsed \in {"NOMEM", "REJECT"} \/ (parsed = "OK" /\ Accepted)

Invariant ==
  \/ Waiting
  \/ /\ lexed = "OK" /\ TokensKnown
     /\ \/ parsed = "RUN" /\ tree = <<>> /\ Sound(Parser(mem))
        \/ Ended

LEMMA InvariantBegins ==
  ASSUME NEW file, Len(file) \in Nat, LexInit(file), ParseInit,
         mem \in {[Fresh EXCEPT !.fails = k] : k \in Int}
  PROVE  Invariant
BY InitInv DEF Invariant, Waiting

LEMMA LexStep ==
  ASSUME Invariant, LexNext, UNCHANGED parseVars
  PROVE  Invariant' /\ parsed' = parsed
<1>1. lexed = "RUN"
  BY DEF LexNext, LexBegin, LexChar, LexEnd
<1>2. Waiting
  BY <1>1 DEF Invariant
<1>3. LexInv'
  BY <1>2, NextInv DEF Waiting
<1>4. ParseInit' /\ parsed' = parsed
  BY <1>2 DEF Waiting, ParseInit, parseVars
<1> QED
  BY <1>3, <1>4 DEF Invariant, Waiting

LEMMA ParseStep ==
  ASSUME Invariant, lexed = "OK", ParseNext, UNCHANGED lexVars
  PROVE  Invariant' /\ (parsed' # parsed => Leaves)
<1>1. parsed = "RUN" /\ \E r \in {FirstRule(stack.nodes)} : TryReduce(r) \/ ShiftNext(r) \/ Finish(r)
  BY DEF ParseNext
<1>2. TokensKnown /\ tree = <<>> /\ Sound(Parser(mem))
  <2>1. CASE Waiting
    <3>1. tree = <<>>
      BY <2>1 DEF Waiting, ParseInit
    <3> QED
      BY <2>1, <3>1, BeginSound DEF Waiting
  <2>2. CASE ~Waiting
    BY <1>1, <2>2 DEF Invariant, Ended
  <2> QED
    BY <2>1, <2>2
<1>3. lexed' = "OK"
  BY DEF lexVars
<1>4. PICK r : r = FirstRule(stack.nodes) /\ (TryReduce(r) \/ ShiftNext(r) \/ Finish(r))
  BY <1>1
<1>5. CASE TryReduce(r) \/ ShiftNext(r)
  <2>1. Moves
    BY <1>2, <1>4, <1>5, ReduceStep, ShiftStep
  <2> QED
    BY <1>1, <1>3, <2>1 DEF Moves, Invariant, Ended
<1>6. CASE Finish(r)
  <2>1. TokensKnown' /\ Leaves /\ (parsed' = "REJECT" \/ (parsed' = "OK" /\ Accepted'))
    BY <1>2, <1>6, FinishStep
  <2> QED
    BY <1>3, <2>1 DEF Invariant, Ended
<1> QED
  BY <1>4, <1>5, <1>6

LEMMA NoStep ==
  ASSUME Invariant, UNCHANGED <<lexVars, parseVars, mem>>
  PROVE  Invariant'
<1>1. /\ tokens' = tokens /\ array' = array /\ lexed' = lexed /\ mem' = mem /\ idx' = idx
      /\ stack' = stack /\ parsed' = parsed /\ tree' = tree
  BY DEF lexVars, parseVars
<1>2. CASE Waiting
  <2>1. LexInv'
    BY <1>2, NextInv DEF Waiting
  <2>2. ParseInit'
    BY <1>1, <1>2 DEF Waiting, ParseInit
  <2> QED
    BY <2>1, <2>2 DEF Invariant, Waiting
<1>3. TokensKnown => TokensKnown'
  BY <1>1 DEF TokensKnown
<1>4. ASSUME NEW nodes, NEW i, NEW calls
      PROVE  Derives(nodes, i, calls) => Derives(nodes, i, calls)'
  BY <1>1 DEF Derives, ReadUpto, Leaf, TkAt
<1>5. Parser(mem)' = Parser(mem)
  BY <1>1 DEF Parser
<1>6. Sound(Parser(mem)) => Sound(Parser(mem))'
  <2>1. PICK q : q = Parser(mem)
    OBVIOUS
  <2>2. Sound(q) => Sound(q)'
    BY <1>1, <1>4 DEF Sound
  <2> HIDE DEF Parser
  <2> QED
    BY <1>5, <2>1, <2>2
<1>7. Accepted => Accepted'
  <2>1. PICK nodes : nodes = tree
    OBVIOUS
  <2>2. PICK i : i = idx
    OBVIOUS
  <2>3. PICK calls : calls = mem.n
    OBVIOUS
  <2>4. Derives(nodes, i, calls) => Derives(nodes, i, calls)'
    BY <1>4
  <2>5. tree' = nodes /\ idx' = i /\ (mem.n)' = calls
    BY <1>1, <2>1, <2>2, <2>3
  <2>6. Derives(tree, idx, mem.n) => Derives(tree, idx, mem.n)'
    BY <2>1, <2>2, <2>3, <2>4, <2>5
  <2> QED
    BY <1>1, <2>6 DEF Accepted
<1>8. CASE ~Waiting
  BY <1>1, <1>3, <1>6, <1>7, <1>8 DEF Invariant, Ended
<1> QED
  BY <1>2, <1>8

LEMMA ParseAlways ==
  ASSUME NEW CONSTANT file, Len(file) \in Nat
  PROVE  ParserSpec(file) => []Invariant
<1>1. LexInit(file) /\ ParseInit /\ mem \in {[Fresh EXCEPT !.fails = k] : k \in Int} => Invariant
  BY InvariantBegins
<1>2. Invariant /\ [\/ LexNext /\ UNCHANGED parseVars
                    \/ lexed = "OK" /\ ParseNext /\ UNCHANGED lexVars]_<<lexVars, parseVars, mem>>
        => Invariant'
  BY LexStep, ParseStep, NoStep
<1> QED
  BY <1>1, <1>2, PTL DEF ParserSpec

-------------------------------------------------------------------------------
(***************************************************************************)
(* What holds of the parser on every text                                  *)
(***************************************************************************)
LEMMA InvariantDerives ==
  ASSUME Invariant, parsed \in {"RUN", "OK"}
  PROVE  Derives(Nodes, idx, mem.n)
<1>1. CASE Waiting
  <2>1. Nodes = <<>> /\ idx = 1 /\ mem.n \in Nat
    BY <1>1 DEF Waiting, ParseInit, Nodes, LexInv, LexTypeOK, Memory
  <2> QED
    BY <2>1, EmptyDerives
<1>2. CASE ~Waiting /\ parsed = "RUN"
  <2>1. Sound(Parser(mem))
    BY <1>2 DEF Invariant, Ended
  <2>2. Parser(mem).nodes = Nodes /\ Parser(mem).idx = idx /\ Parser(mem).mem = mem
    BY <1>2 DEF Parser, Nodes
  <2> HIDE DEF Parser
  <2> QED
    BY <2>1, <2>2 DEF Sound
<1>3. CASE ~Waiting /\ parsed = "OK"
  <2>1. Accepted /\ Nodes = tree
    BY <1>3 DEF Invariant, Ended, Nodes
  <2> QED
    BY <2>1 DEF Accepted
<1> QED
  BY <1>1, <1>2, <1>3

LEMMA InvariantDerived ==
  ASSUME Invariant, parsed \in {"RUN", "OK"}
  PROVE  /\ Derived.sound
         /\ ReadUpto(Derived.nodes, idx)
<1>1. PICK w, d : mem.n \in Nat /\ d <= mem.n /\ Reaches(Nodes, w, d) /\ ReadUpto(w, idx)
  BY InvariantDerives DEF Derives
<1>2. Derived = [nodes |-> w, sound |-> TRUE]
  BY <1>1, StayReaches DEF Derived
<1> QED
  BY <1>1, <1>2

\* No token that has been shifted is lost, doubled or out of its place, whatever the
\* text and whichever rules have been reduced (shift, reduce and the list that reduce
\* makes of the nodes above the match)
THEOREM CoversCorrect ==
  ASSUME NEW CONSTANT file, Len(file) \in Nat
  PROVE  ParserSpec(file) => []StackCoversTokens
<1>1. Invariant => StackCoversTokens
  <2> SUFFICES ASSUME Invariant, parsed \in {"RUN", "OK"}
               PROVE  LET leaves == Derived.nodes
                      IN  /\ \A i \in DOMAIN leaves : leaves[i] = Leaf(leaves[i].at)
                          /\ {leaves[i].at : i \in DOMAIN leaves} =
                               {i \in 1 .. idx - 1 : ~SkipToken(tokens[i].tk)}
                          /\ \A i, j \in DOMAIN leaves : i < j => leaves[i].at < leaves[j].at
    BY Zenon DEF StackCoversTokens
  <2> DEFINE w == Derived.nodes
  <2>1. ReadUpto(w, idx)
    BY InvariantDerived
  <2> HIDE DEF w
  <2>2. DOMAIN w = 1 .. Len(w)
    BY <2>1, ListFacts DEF ReadUpto
  <2>3. \A i \in DOMAIN w : w[i] = Leaf(w[i].at)
    BY <2>1, <2>2 DEF ReadUpto
  <2>4. \A i, j \in DOMAIN w : i < j => w[i].at < w[j].at
    BY <2>1, <2>2 DEF ReadUpto
  <2>5. {w[i].at : i \in DOMAIN w} = {i \in 1 .. idx - 1 : ~SkipToken(tokens[i].tk)}
    <3>1. /\ \A k \in 1 .. Len(w) : w[k].at \in 1 .. idx - 1 /\ ~SkipToken(tokens[w[k].at].tk)
          /\ \A z \in 1 .. idx - 1 : ~SkipToken(tokens[z].tk) => \E k \in 1 .. Len(w) : w[k].at = z
      BY <2>1 DEF ReadUpto
    <3> QED
      BY <2>2, <3>1
  <2> QED
    BY <2>3, <2>4, <2>5 DEF w
<1> QED
  BY <1>1, ParseAlways, PTL

\* Every reduction is by a rule of the grammar, and parse accepts nothing but a unit
\* that ends where the tokens do, whatever the text (match_rule, the order of the
\* table, and the decisions of should_shift_pre and should_shift_post)
THEOREM RulesCorrect ==
  ASSUME NEW CONSTANT file, Len(file) \in Nat
  PROVE  ParserSpec(file) => []MadeByRules
<1>1. Invariant => MadeByRules
  <2> SUFFICES ASSUME Invariant
               PROVE  MadeByRules
    OBVIOUS
  <2>1. parsed \in {"RUN", "OK"} => Derived.sound
    BY InvariantDerived
  <2>2. parsed = "OK" => Len(tree) = 1 /\ tree[1].sym = "Unit" /\ idx = Len(tokens) + 1
    <3>1. SUFFICES ASSUME parsed = "OK"
                   PROVE  Len(tree) = 1 /\ tree[1].sym = "Unit" /\ idx = Len(tokens) + 1
      OBVIOUS
    <3>2. Accepted
      BY <3>1 DEF Invariant, Ended, Waiting, ParseInit
    <3>3. PICK root : tree = <<root>> /\ root.sym = "Unit"
      BY <3>2 DEF Accepted
    <3> QED
      BY <3>2, <3>3 DEF Accepted
  <2> QED
    BY <2>1, <2>2 DEF MadeByRules
<1> QED
  BY <1>1, ParseAlways, PTL

\* The tokens are never read past the end marker: lookahead in parse has no check of
\* its own for the end of the array (should_shift_pre and should_shift_post skip without
\* looking at ntokens)
THEOREM LookaheadCorrect ==
  ASSUME NEW CONSTANT file, Len(file) \in Nat
  PROVE  ParserSpec(file) => []LookaheadInside
<1>1. Invariant => LookaheadInside
  <2> DEFINE r == FirstRule(stack.nodes)
  <2> SUFFICES ASSUME Invariant, parsed = "RUN", stack.nodes # <<>>, r # 0,
                      grammar[r].lhs # "Unit"
               PROVE  Ahead(idx) <= Len(tokens)
    BY Zenon DEF LookaheadInside
  <2>1. TokensKnown /\ Sound(Parser(mem))
    BY DEF Invariant, Ended, Waiting, ParseInit
  <2>2. Parser(mem).nodes = stack.nodes /\ Parser(mem).idx = idx
    BY DEF Parser
  <2> HIDE DEF Parser, r
  <2>3. r = FirstRule(Parser(mem).nodes)
    BY <2>2 DEF r
  <2>4. idx \in 1 .. Len(tokens) /\ Comes(idx, Ahead(idx))
    BY <2>1, <2>2, <2>3, TokenAhead
  <2>5. Len(tokens) \in Nat
    BY <2>1 DEF TokensKnown
  <2> QED
    BY <2>4, <2>5 DEF Comes
<1> QED
  BY <1>1, ParseAlways, PTL

\* The stack of nodes never outgrows its block, and no block is owned by two nodes or
\* by none (shift: the room times eight; reduce: the children are moved, not shared)
THEOREM OwnedCorrect ==
  ASSUME NEW CONSTANT file, Len(file) \in Nat
  PROVE  ParserSpec(file) => []StackOwned
<1>1. Invariant => StackOwned
  <2> DEFINE N == DOMAIN stack.nodes
             blocks(i) == stack.nodes[i].blocks
  <2> SUFFICES ASSUME Invariant, lexed = "OK", parsed = "RUN"
               PROVE  /\ ~mem.wrong
                      /\ Len(stack.nodes) <= stack.room
                      /\ \A i, j \in N : i # j => blocks(i) \cap blocks(j) = {}
                      /\ array.ptr # stack.ptr
                      /\ \A i \in N : {0, array.ptr, stack.ptr} \cap blocks(i) = {}
                      /\ mem.live = ({array.ptr, stack.ptr} \ {0}) \cup UNION {blocks(i) : i \in N}
    BY Zenon DEF StackOwned
  <2>1. Sound(Parser(mem))
    BY BeginSound DEF Invariant, Ended, Waiting
  <2>2. Holding(stack.nodes, stack.ptr, mem, array.ptr) /\ Len(stack.nodes) <= stack.room
    <3>1. /\ Parser(mem).nodes = stack.nodes /\ Parser(mem).ptr = stack.ptr
          /\ Parser(mem).mem = mem /\ Parser(mem).room = stack.room
      BY DEF Parser
    <3> HIDE DEF Parser
    <3> QED
      BY <2>1, <3>1 DEF Sound, Holds
  <2>3. N = 1 .. Len(stack.nodes)
    BY <2>2, ListFacts DEF Holding
  <2>4. /\ ~mem.wrong /\ Apart(stack.nodes) /\ array.ptr # stack.ptr
        /\ \A i \in 1 .. Len(stack.nodes) : {0, array.ptr, stack.ptr} \cap blocks(i) = {}
        /\ mem.live = ({array.ptr, stack.ptr} \ {0}) \cup Blocks(stack.nodes)
    BY <2>2 DEF Holding
  <2>5. \A i, j \in N : i # j => blocks(i) \cap blocks(j) = {}
    BY <2>3, <2>4 DEF Apart
  <2>6. Blocks(stack.nodes) = UNION {blocks(i) : i \in N}
    BY <2>3 DEF Blocks
  <2> HIDE DEF N, blocks
  <2> QED
    BY <2>2, <2>3, <2>4, <2>5, <2>6
<1> QED
  BY <1>1, ParseAlways, PTL

\* parse frees the stack and every node on it exactly once on each of its ways out, and
\* never the tokens or the tree that it returns (parse, destroy_stack, destroy_node and
\* the failures of shift and of both allocations of reduce)
THEOREM ReleasesCorrect ==
  ASSUME NEW CONSTANT file, Len(file) \in Nat
  PROVE  ParserSpec(file) => ReleasesStack
<1> DEFINE Ends ==
      parsed' # parsed =>
        /\ ~mem'.wrong
        /\ mem'.live = {array.ptr} \cup UNION {tree'[i].blocks : i \in DOMAIN tree'}
<1>1. Invariant /\ [\/ LexNext /\ UNCHANGED parseVars
                    \/ lexed = "OK" /\ ParseNext /\ UNCHANGED lexVars]_<<lexVars, parseVars, mem>>
        => [Ends]_parseVars
  <2>1. ASSUME Invariant, LexNext, UNCHANGED parseVars
        PROVE  Ends
    BY <2>1, LexStep
  <2>2. ASSUME Invariant, lexed = "OK", ParseNext, UNCHANGED lexVars
        PROVE  Ends
    <3>1. (parsed' # parsed => Leaves) /\ array' = array
      BY <2>2, ParseStep DEF lexVars
    <3> QED
      BY <3>1 DEF Leaves
  <2>3. ASSUME UNCHANGED <<lexVars, parseVars, mem>>
        PROVE  Ends
    BY <2>3 DEF parseVars
  <2> HIDE DEF Ends
  <2> QED
    BY <2>1, <2>2, <2>3
<1> QED
  BY <1>1, ParseAlways, PTL DEF ParserSpec, ReleasesStack, Ends

===============================================================================
