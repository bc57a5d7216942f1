------------------------------- MODULE LexProofs -------------------------------
(***************************************************************************)
(* Theorems about the lexer, for every text: its tokens are what each      *)
(* automaton, started afresh at every token, says; no automaton gets into a*)
(* state that it has no case for; the array of tokens is the only block it *)
(* owns.                                                                   *)
(***************************************************************************)
EXTENDS Lex, WellFoundedInduction, TLAPS

-------------------------------------------------------------------------------
(***************************************************************************)
(* One automaton                                                           *)
(***************************************************************************)

LEMMA LeastElement ==
  ASSUME NEW T, T \subseteq Nat, T # {}
  PROVE  \E x \in T : \A y \in T : x <= y
<1> DEFINE R == OpToRel(<, Nat)
<1>1. IsWellFoundedOn(R, Nat)
  BY NatLessThanWellFounded
<1> HIDE DEF R
<1>2. PICK x \in T : \A y \in T : <<y, x>> \notin R
  BY <1>1, WFMin
<1>3. \A y \in T : y < x => <<y, x>> \in R
  BY DEF R, OpToRel
<1>4. \A y \in T : ~(y < x)
  BY <1>2, <1>3
<1>5. \A y \in T : x <= y
  BY <1>4
<1> QED
  BY <1>5

\* What an automaton that runs alone is before position e, from what it is in g
\* before the position in front
Ran(s, tk, b, g, e) ==
  IF e = b THEN <<0, "HUNGRY">>
  ELSE IF g[e - 1][2] = "REJECT" THEN g[e - 1]
  ELSE Step(tk, SubSeq(s, e - 1, e - 1), g[e - 1][1])

\* The definition of Alone defines something: there is a run up to every
\* position
LEMMA AloneRuns ==
  ASSUME NEW s, Len(s) \in Nat, NEW tk, NEW b \in 1..(Len(s) + 1)
  PROVE  Alone(s, tk, b) = [e \in b..(Len(s) + 1) |->
                            Ran(s, tk, b, Alone(s, tk, b), e)]
<1> DEFINE L == Len(s) + 1
           Run(m, h) == h = [e \in b..m |-> Ran(s, tk, b, h, e)]
           Bad == {m \in b..L : ~ \E h : Run(m, h)}
<1>1. L \in Nat /\ b \in Nat /\ b <= L
  OBVIOUS
<1> HIDE DEF L
<1>2. Bad = {}
  <2>1. SUFFICES ASSUME Bad # {} PROVE FALSE
    OBVIOUS
  <2>2. PICK m \in Bad : \A y \in Bad : m <= y
    <3>1. Bad \subseteq Nat
      BY <1>1
    <3> QED
      BY <2>1, <3>1, LeastElement
  <2>3. m \in Nat /\ b <= m /\ m <= L
    BY <1>1
  <2>4. CASE m = b
    <3> DEFINE g == [e \in b..m |-> <<0, "HUNGRY">>]
    <3>1. \A e \in b..m : Ran(s, tk, b, g, e) = <<0, "HUNGRY">>
      BY <1>1, <2>4 DEF Ran
    <3>2. Run(m, g)
      BY <3>1
    <3> QED
      BY <3>2
  <2>5. CASE m # b
    <3>1. m - 1 \in b..L /\ m - 1 \notin Bad
      BY <1>1, <2>2, <2>3, <2>5
    <3>2. PICK f : Run(m - 1, f)
      BY <3>1
    <3> DEFINE g == [e \in b..m |-> IF e = m THEN Ran(s, tk, b, f, m) ELSE f[e]]
    <3>3. \A e \in b..m : Ran(s, tk, b, g, e) = Ran(s, tk, b, f, e)
      <4> SUFFICES ASSUME NEW e \in b..m
                   PROVE  Ran(s, tk, b, g, e) = Ran(s, tk, b, f, e)
        OBVIOUS
      <4>1. CASE e = b
        BY <4>1 DEF Ran
      <4>2. CASE e # b
        <5>1. e - 1 \in b..m /\ e - 1 # m
          BY <1>1, <2>3, <4>2
        <5>2. g[e - 1] = f[e - 1]
          BY <5>1
        <5> HIDE DEF g
        <5> QED
          BY <5>2 DEF Ran
      <4> QED
        BY <4>1, <4>2
    <3>4. \A e \in b..m : g[e] = Ran(s, tk, b, f, e)
      <4>1. \A e \in b..m : e # m => e \in b..(m - 1)
        BY <1>1, <2>3
      <4>2. \A e \in b..(m - 1) : f[e] = Ran(s, tk, b, f, e)
        BY <3>2
      <4> QED
        BY <4>1, <4>2
    <3>5. Run(m, g)
      BY <3>3, <3>4
    <3> QED
      BY <3>5
  <2> QED
    BY <2>4, <2>5
<1>3. PICK g : Run(L, g)
  <2>1. L \in b..L
    BY <1>1
  <2> QED
    BY <1>2, <2>1
<1>4. Alone(s, tk, b) = CHOOSE h : Run(L, h)
  BY Zenon DEF Alone, Ran, L
<1> QED
  BY <1>3, <1>4 DEF L

\* The states that the switch of an automaton has a case for; for the text of a
\* token, that much of it may have been read
Known(tk, s) ==
  /\ s \in Nat
  /\ Kinds[tk] \in {"NAME", "WSPC"} => s \in 0..1
  /\ Kinds[tk] = "NMBR" => s = 0
  /\ Kinds[tk] = "STRL" => s \in 0..2
  /\ Kinds[tk] = "LCOM" => s \in 0..3
  /\ Kinds[tk] = "BCOM" => s \in 0..4
  /\ Kinds[tk] \notin {"NAME", "WSPC", "NMBR", "STRL", "LCOM", "BCOM"} =>
       s = 0 \/ s - 1 < Len(LiteralOf(tk))

Statuses == {"ACCEPT", "HUNGRY", "REJECT"}

\* Every automaton goes from a state it knows to one it knows, and to the first
\* one when it rejects
LEMMA StepKnown ==
  ASSUME NEW tk, NEW c, NEW s, Known(tk, s)
  PROVE  /\ Known(tk, Step(tk, c, s)[1])
         /\ Step(tk, c, s)[2] \in Statuses
         /\ Step(tk, c, s)[2] = "REJECT" => Step(tk, c, s)[1] = 0
<1> DEFINE k == Kinds[tk]
<1>1. CASE k = "NAME"
  BY <1>1 DEF Known, Step, TkName, Accept, Reject, Statuses
<1>2. CASE k = "NMBR"
  BY <1>2 DEF Known, Step, TkNmbr, Accept, Statuses
<1>3. CASE k = "STRL"
  BY <1>3 DEF Known, Step, TkStrl, Accept, Hungry, Reject, Statuses
<1>4. CASE k = "WSPC"
  BY <1>4 DEF Known, Step, TkWspc, Accept, Reject, Statuses
<1>5. CASE k = "LCOM"
  BY <1>5 DEF Known, Step, TkLcom, Accept, Hungry, Reject, Statuses
<1>6. CASE k = "BCOM"
  BY <1>6 DEF Known, Step, TkBcom, Accept, Hungry, Reject, Statuses
<1>7. CASE k \notin {"NAME", "NMBR", "STRL", "WSPC", "LCOM", "BCOM"}
  <2>1. Step(tk, c, s) = TkLiteral(LiteralOf(tk), c, s)
    BY <1>7 DEF Step
  <2>2. TkLiteral(LiteralOf(tk), c, s)
          \in {Accept(s + 1), Hungry(s + 1), Reject}
    BY DEF TkLiteral
  <2>3. TkLiteral(LiteralOf(tk), c, s) # Reject => s < Len(LiteralOf(tk))
    BY DEF TkLiteral
  <2> QED
    BY <1>7, <2>1, <2>2, <2>3 DEF Known, Accept, Hungry, Reject, Statuses
<1> QED
  BY <1>1, <1>2, <1>3, <1>4, <1>5, <1>6, <1>7

\* The automata are numbered
LEMMA KindsLength == Len(Kinds) \in Nat
<1> DEFINE f == [i \in DOMAIN Literals |-> Literals[i][1]]
           g == <<"NAME", "NMBR", "STRL", "WSPC", "LCOM", "BCOM">>
           T == {"NAME", "NMBR", "STRL", "WSPC", "LCOM", "BCOM"}
           S == {f[i] : i \in DOMAIN Literals}
<1>1. Len(Literals) \in Nat /\ DOMAIN Literals = 1..Len(Literals)
  BY DEF Literals
<1>2. f \in Seq(S)
  BY <1>1
<1>3. g \in Seq(T)
  OBVIOUS
<1> HIDE DEF f, g, S, T
<1>4. g \o f \in Seq(T \cup S)
  BY <1>2, <1>3
<1> QED
  BY <1>4 DEF Kinds, f, g

Marks == {"FBEG", "FEND", "COUNT"} \cup {Kinds[tk] : tk \in Tks}

\* Some automata that there are have a last one
LEMMA LastOf ==
  ASSUME NEW W, W \subseteq Tks, W # {}
  PROVE  \E tk \in W : \A u \in W : u <= tk
<1> DEFINE n == Len(Kinds)
           D == {n - tk : tk \in W}
<1>1. n \in Nat
  BY KindsLength
<1>2. W \subseteq 1..n
  BY DEF Tks
<1> HIDE DEF n
<1>3. D \subseteq Nat /\ D # {}
  <2>1. \A tk \in W : n - tk \in Nat
    BY <1>1, <1>2
  <2> QED
    BY <2>1
<1>4. PICK d \in D : \A e \in D : d <= e
  BY <1>3, LeastElement
<1>5. PICK tk \in W : d = n - tk
  OBVIOUS
<1>6. \A u \in W : n - tk <= n - u
  BY <1>4, <1>5
<1> QED
  BY <1>1, <1>2, <1>6

\* If any automaton has accepted the last that has gives the kind
LEMMA WinnerMark ==
  ASSUME NEW a, NEW when
  PROVE  /\ Winner(a, when) \in Marks
         /\ \/ /\ \A tk \in Tks : a[tk][when] # "ACCEPT"
               /\ Winner(a, when) = "COUNT"
            \/ \E tk \in Tks :
                 /\ a[tk][when] = "ACCEPT" /\ Winner(a, when) = Kinds[tk]
                 /\ \A u \in Tks : a[u][when] = "ACCEPT" => u <= tk
<1> DEFINE W == {tk \in Tks : a[tk][when] = "ACCEPT"}
           last == CHOOSE tk \in W : \A u \in W : u <= tk
<1>1. Winner(a, when) = IF W = {} THEN "COUNT" ELSE Kinds[last]
  BY Zenon DEF Winner, W
<1>2. W \subseteq Tks
  OBVIOUS
<1>3. CASE W = {}
  <2>1. \A tk \in Tks : a[tk][when] # "ACCEPT"
    BY <1>3
  <2> QED
    BY <1>1, <1>3, <2>1 DEF Marks
<1>4. CASE W # {}
  <2>1. last \in W /\ \A u \in W : u <= last
    <3> HIDE DEF W
    <3> QED
      BY <1>2, <1>4, LastOf
  <2>2. last \in Tks /\ a[last][when] = "ACCEPT"
        /\ \A u \in Tks : a[u][when] = "ACCEPT" => u <= last
    BY <2>1
  <2> HIDE DEF W, last
  <2> QED
    BY <1>1, <1>4, <2>2 DEF Marks
<1> QED
  BY <1>3, <1>4

\* The winner depends on who has accepted, and on nothing else
LEMMA WinnerSame ==
  ASSUME NEW a, NEW x, NEW b, NEW y,
         \A tk \in Tks : a[tk][x] = "ACCEPT" <=> b[tk][y] = "ACCEPT"
  PROVE  Winner(a, x) = Winner(b, y)
<1> DEFINE V == {tk \in Tks : a[tk][x] = "ACCEPT"}
           W == {tk \in Tks : b[tk][y] = "ACCEPT"}
           Kind(X) == IF X = {} THEN "COUNT"
                      ELSE Kinds[CHOOSE tk \in X : \A u \in X : u <= tk]
<1>1. Winner(a, x) = Kind(V) /\ Winner(b, y) = Kind(W)
  BY Zenon DEF Winner
<1>2. V = W
  OBVIOUS
<1> HIDE DEF V, W, Kind
<1> QED
  BY <1>1, <1>2

-------------------------------------------------------------------------------
(***************************************************************************)
(* The array of tokens                                                     *)
(***************************************************************************)

Memory == [n : Nat, ptr : Nat, live : SUBSET Nat, fails : Int, wrong : BOOLEAN]

Token == [tk : Marks, beg : Nat, end : Nat]

Results == {"RUN", "OK", "NOMEM", "UNKNOWN_TOKEN"}

Lexers ==
  [tokens : Seq(Token), ptr : Nat, room : Nat, mem : Memory, lexed : Results]

\* The array is the only block there is, and it has room for what is in it
Owns(r) ==
  /\ ~ r.mem.wrong
  /\ r.mem.live = {r.ptr} \ {0}
  /\ r.mem.live \subseteq 1..r.mem.n
  /\ Len(r.tokens) <= r.room
  /\ r.lexed # "NOMEM" /\ r.room # 0 => r.ptr # 0

LEMMA AllocResult ==
  ASSUME NEW m \in Memory, m.live \subseteq 1..m.n
  PROVE  \E id \in {0, m.n + 1} :
           Alloc(m) = [n |-> m.n + 1, ptr |-> id, live |-> m.live \cup ({id} \ {0}),
                       fails |-> m.fails, wrong |-> m.wrong]
<1> DEFINE id == IF m.n + 1 = m.fails THEN 0 ELSE m.n + 1
<1>1. Alloc(m) = [m EXCEPT !.n = m.n + 1, !.ptr = id,
                           !.live = m.live \cup ({id} \ {0})]
  BY Zenon DEF Alloc
<1>2. id \in {0, m.n + 1}
  OBVIOUS
<1> HIDE DEF id
<1>3. m = [n |-> m.n, ptr |-> m.ptr, live |-> m.live,
           fails |-> m.fails, wrong |-> m.wrong]
  BY DEF Memory
<1>4. Alloc(m) = [n |-> m.n + 1, ptr |-> id, live |-> m.live \cup ({id} \ {0}),
                  fails |-> m.fails, wrong |-> m.wrong]
  BY <1>1, <1>3
<1> QED
  BY <1>2, <1>4

LEMMA ReallocResult ==
  ASSUME NEW m \in Memory, NEW p \in Nat, ~ m.wrong, m.live = {p} \ {0},
         m.live \subseteq 1..m.n
  PROVE  /\ Realloc(m, p) \in Memory
         /\ Realloc(m, p).n = m.n + 1
         /\ ~ Realloc(m, p).wrong
         /\ Realloc(m, p).ptr # 0 => /\ Realloc(m, p).live = {Realloc(m, p).ptr}
                                     /\ Realloc(m, p).ptr = m.n + 1
         /\ Realloc(m, p).ptr = 0 => Realloc(m, p).live = m.live
<1>1. PICK id \in {0, m.n + 1} :
        Alloc(m) = [n |-> m.n + 1, ptr |-> id, live |-> m.live \cup ({id} \ {0}),
                    fails |-> m.fails, wrong |-> m.wrong]
  BY AllocResult
<1> DEFINE g == Alloc(m)
<1>2. Realloc(m, p) = IF g.ptr = 0 THEN g ELSE [g EXCEPT !.live = @ \ {p}]
  BY DEF Realloc, Then
<1>3. g \in Memory /\ g.n = m.n + 1 /\ ~ g.wrong /\ g.ptr = id
      /\ g.live = m.live \cup ({id} \ {0})
  BY <1>1 DEF Memory
<1> HIDE DEF g
<1>4. CASE g.ptr = 0
  BY <1>2, <1>3, <1>4
<1>5. CASE g.ptr # 0
  <2> DEFINE h == [g EXCEPT !.live = @ \ {p}]
  <2>1. h \in Memory /\ h.n = g.n /\ h.wrong = g.wrong /\ h.ptr = g.ptr
        /\ h.live = g.live \ {p}
    BY <1>3 DEF Memory
  <2>2. p # m.n + 1
    BY DEF Memory
  <2>3. g.live \ {p} = {g.ptr}
    BY <1>3, <1>5, <2>2
  <2> HIDE DEF h
  <2> QED
    BY <1>2, <1>3, <1>5, <2>1, <2>3 DEF h
<1> QED
  BY <1>4, <1>5

\* push_token adds the token, or gives the array up
LEMMA PushResult ==
  ASSUME NEW r \in Lexers, Owns(r), r.lexed = "RUN",
         NEW tk \in Marks, NEW beg \in Nat, NEW end \in Nat
  PROVE  /\ Push(r, tk, beg, end) \in Lexers
         /\ Owns(Push(r, tk, beg, end))
         /\ \/ /\ Push(r, tk, beg, end).lexed = "RUN"
               /\ Push(r, tk, beg, end).tokens
                    = Append(r.tokens, [tk |-> tk, beg |-> beg, end |-> end])
            \/ /\ Push(r, tk, beg, end).lexed = "NOMEM"
               /\ Push(r, tk, beg, end).tokens = r.tokens
<1> DEFINE q == Push(r, tk, beg, end)
           t == [tk |-> tk, beg |-> beg, end |-> end]
           more == Append(r.tokens, t)
           room == (IF r.room = 0 THEN 1 ELSE r.room) * 8
           g == Realloc(r.mem, r.ptr)
           Grown(h) ==
             IF h.ptr # 0
             THEN [r EXCEPT !.tokens = more, !.ptr = h.ptr, !.room = room, !.mem = h]
             ELSE [r EXCEPT !.ptr = 0, !.room = room, !.mem = Free(h, r.ptr),
                            !.lexed = "NOMEM"]
<1>1. /\ r.tokens \in Seq(Token) /\ r.ptr \in Nat /\ r.room \in Nat
      /\ r.mem \in Memory
      /\ r = [tokens |-> r.tokens, ptr |-> r.ptr, room |-> r.room,
              mem |-> r.mem, lexed |-> r.lexed]
  BY DEF Lexers
<1>2. /\ more \in Seq(Token) /\ Len(more) = Len(r.tokens) + 1 /\ more # <<>>
      /\ Len(r.tokens) \in Nat
  <2>1. t \in Token
    BY DEF Token
  <2> HIDE DEF t
  <2> QED
    BY <1>1, <2>1
<1>3. q = IF Len(r.tokens) < r.room THEN [r EXCEPT !.tokens = more]
          ELSE IF g.ptr # 0
            THEN [r EXCEPT !.tokens = more, !.ptr = g.ptr, !.room = room, !.mem = g]
            ELSE [r EXCEPT !.ptr = 0, !.room = room, !.mem = Free(g, r.ptr),
                           !.lexed = "NOMEM"]
  <2>1. q = IF Len(r.tokens) < r.room THEN [r EXCEPT !.tokens = more]
            ELSE CHOOSE x \in {Grown(h) : h \in {g}} : TRUE
    BY Zenon DEF Push, Then
  <2> HIDE DEF g, q, more, room
  <2>2. (CHOOSE x \in {Grown(h) : h \in {g}} : TRUE) = Grown(g)
    <3> HIDE DEF Grown
    <3>1. {Grown(h) : h \in {g}} = {Grown(g)}
      OBVIOUS
    <3> QED
      BY <3>1
  <2> QED
    BY <2>1, <2>2, Zenon
<1>4. /\ room \in Nat
      /\ ~(Len(r.tokens) < r.room) => Len(r.tokens) + 1 <= room
      /\ r.room <= room
  BY <1>1, <1>2 DEF Owns
<1>5. /\ g \in Memory
      /\ g.n = r.mem.n + 1
      /\ ~ g.wrong
      /\ g.ptr # 0 => g.live = {g.ptr} /\ g.ptr = r.mem.n + 1
      /\ g.ptr = 0 => g.live = r.mem.live
  BY <1>1, ReallocResult DEF Owns
<1> HIDE DEF q, t, more, room, g
<1>6. CASE Len(r.tokens) < r.room
  <2>1. q = [tokens |-> more, ptr |-> r.ptr, room |-> r.room,
             mem |-> r.mem, lexed |-> "RUN"]
    BY <1>1, <1>3, <1>6
  <2>2. q \in Lexers
    BY <1>1, <1>2, <2>1 DEF Lexers, Results
  <2>3. Owns(q)
    <3>1. r.ptr # 0
      BY <1>1, <1>2, <1>6 DEF Owns
    <3> QED
      BY <1>1, <1>2, <1>6, <2>1, <3>1 DEF Owns
  <2> QED
    BY <2>1, <2>2, <2>3 DEF q, t, more
<1>7. CASE ~(Len(r.tokens) < r.room) /\ g.ptr # 0
  <2>1. q = [tokens |-> more, ptr |-> g.ptr, room |-> room,
             mem |-> g, lexed |-> "RUN"]
    BY <1>1, <1>3, <1>7
  <2>2. g.ptr \in Nat
    BY <1>5 DEF Memory
  <2>3. q \in Lexers
    BY <1>2, <1>4, <1>5, <2>1, <2>2 DEF Lexers, Results
  <2>4. Owns(q)
    BY <1>1, <1>2, <1>4, <1>5, <1>7, <2>1 DEF Owns, Memory
  <2> QED
    BY <2>1, <2>3, <2>4 DEF q, t, more
<1>8. CASE ~(Len(r.tokens) < r.room) /\ g.ptr = 0
  <2> DEFINE f == Free(g, r.ptr)
  <2>1. f \in Memory /\ ~ f.wrong /\ f.live = {} /\ f.n = g.n
    <3>1. CASE r.ptr = 0
      BY <1>5, <1>8, <3>1 DEF Free, Owns
    <3>2. CASE r.ptr # 0
      <4>1. f = [g EXCEPT !.live = @ \ {r.ptr}, !.wrong = @ \/ r.ptr \notin g.live]
        BY <3>2, Zenon DEF Free
      <4>2. g = [n |-> g.n, ptr |-> g.ptr, live |-> g.live,
                 fails |-> g.fails, wrong |-> g.wrong]
        BY <1>5 DEF Memory
      <4>3. r.ptr \in g.live /\ g.live \ {r.ptr} = {} /\ g.wrong = FALSE
        BY <1>5, <1>8, <3>2 DEF Owns, Memory
      <4>4. f = [n |-> g.n, ptr |-> g.ptr, live |-> g.live \ {r.ptr},
                 fails |-> g.fails, wrong |-> g.wrong \/ r.ptr \notin g.live]
        BY <4>1, <4>2
      <4> HIDE DEF f
      <4> QED
        BY <1>5, <4>3, <4>4 DEF Memory
    <3> QED
      BY <3>1, <3>2
  <2> HIDE DEF f
  <2>2. q = [tokens |-> r.tokens, ptr |-> 0, room |-> room,
             mem |-> f, lexed |-> "NOMEM"]
    BY <1>1, <1>3, <1>8 DEF f
  <2>3. q \in Lexers
    BY <1>1, <1>4, <2>1, <2>2 DEF Lexers, Results
  <2>4. Owns(q)
    BY <1>1, <1>2, <1>4, <1>8, <2>1, <2>2 DEF Owns
  <2> QED
    BY <2>2, <2>3, <2>4 DEF q
<1> QED
  BY <1>6, <1>7, <1>8

-------------------------------------------------------------------------------
(***************************************************************************)
(* The loop                                                                *)
(***************************************************************************)

\* The lexer by itself on one file, in a memory in which nothing is allocated
\* yet and any one allocation, or none, is going to fail
LexSpec(file) ==
  /\ LexInit(file) /\ mem \in {[Fresh EXCEPT !.fails = k] : k \in Int}
  /\ [][LexNext]_<<lexVars, mem>>

Automaton == [state : Nat, prev : Statuses, curr : Statuses]

LexTypeOK ==
  /\ Len(text) \in Nat
  /\ prefix \in [beg : Nat, end : Nat]
  /\ 1 <= prefix.beg /\ prefix.beg <= prefix.end /\ prefix.end <= Len(text) + 1
  /\ auto \in [Tks -> Automaton]
  /\ tokens \in Seq(Token) /\ array \in [ptr : Nat, room : Nat]
  /\ lexed \in Results /\ mem \in Memory

\* Every automaton is in a state it has a case for
StatesKnown == \A tk \in Tks : Known(tk, auto[tk].state)

\* The array of tokens is the only block, and what is freed is allocated
ArrayOwned == Owns(Lexer(mem))

\* Automaton tk is as it would be, had it run by itself from the beginning of
\* the prefix
FollowsRun(tk) ==
  LET run == Alone(text, tk, prefix.beg)[prefix.end]
  IN  /\ auto[tk].prev = run[2]
      /\ auto[tk].state = IF run[2] = "REJECT" THEN 0 ELSE run[1]
      /\ auto[tk].curr = IF prefix.beg = prefix.end THEN "REJECT" ELSE run[2]

\* The prefix begins where the last token has ended
Adjacent ==
  IF tokens = <<>> THEN prefix.beg = 1 /\ prefix.end = 1 ELSE prefix.beg = Start

\* The prefix has grown because some automaton had not rejected
Alive ==
  prefix.beg < prefix.end => \E tk \in Tks : auto[tk].curr # "REJECT"

\* An accepted text ends with the marker
EndMarked == lexed = "OK" => tokens # <<>> /\ tokens[Len(tokens)].tk = "FEND"

LexInv ==
  /\ LexTypeOK
  /\ StatesKnown
  /\ ArrayOwned
  /\ EndMarked
  /\ lexed = "RUN" => Adjacent /\ Alive /\ \A tk \in Tks : FollowsRun(tk)

\* One character takes every automaton on as if it ran by itself
LEMMA AdvanceRun ==
  ASSUME LexInv, lexed = "RUN", prefix.end <= Len(text), NEW tk \in Tks
  PROVE  LET a == Advance(auto, SubSeq(text, prefix.end, prefix.end))[tk]
             run == Alone(text, tk, prefix.beg)[prefix.end + 1]
         IN  /\ a \in Automaton
             /\ Known(tk, a.state)
             /\ a.prev = auto[tk].prev
             /\ a.curr = run[2]
             /\ a.state = IF run[2] = "REJECT" THEN 0 ELSE run[1]
<1> DEFINE b == prefix.beg
           e == prefix.end
           c == SubSeq(text, e, e)
           a == Advance(auto, c)[tk]
           run == Alone(text, tk, b)
           x == auto[tk]
           step == Step(tk, c, x.state)
<1>1. /\ b \in 1..(Len(text) + 1) /\ e \in b..(Len(text) + 1)
      /\ e + 1 \in b..(Len(text) + 1) /\ e + 1 # b /\ (e + 1) - 1 = e
      /\ Len(text) \in Nat
  BY DEF LexInv, LexTypeOK
<1>2. x \in Automaton /\ Known(tk, x.state)
  BY DEF LexInv, LexTypeOK, StatesKnown
<1>3. /\ x.prev = run[e][2]
      /\ x.state = IF run[e][2] = "REJECT" THEN 0 ELSE run[e][1]
      /\ x.curr = IF b = e THEN "REJECT" ELSE run[e][2]
  BY DEF LexInv, FollowsRun
<1>4. a = IF x.prev = "REJECT" THEN x
          ELSE [x EXCEPT !.state = step[1], !.curr = step[2]]
  BY DEF Advance
<1>5. run[e + 1] = Ran(text, tk, b, run, e + 1)
  <2> DEFINE n == Len(text) + 1
  <2>1. run = [i \in b..n |-> Ran(text, tk, b, run, i)]
    BY <1>1, AloneRuns
  <2> HIDE DEF run, n
  <2>2. \A i \in b..n : run[i] = Ran(text, tk, b, run, i)
    BY <2>1
  <2> QED
    BY <1>1, <2>2 DEF n
<1>6. run[e + 1] = IF run[e][2] = "REJECT" THEN run[e]
                   ELSE Step(tk, c, run[e][1])
  <2> HIDE DEF run
  <2> QED
    BY <1>1, <1>5 DEF Ran
<1>7. /\ Known(tk, step[1]) /\ step[2] \in Statuses
      /\ step[2] = "REJECT" => step[1] = 0
  BY <1>2, StepKnown
<1> HIDE DEF a, run, x, step, b, e, c
<1>8. CASE run[e][2] = "REJECT"
  <2>1. a = x /\ run[e + 1] = run[e]
    BY <1>3, <1>4, <1>6, <1>8
  <2>2. x.curr = "REJECT"
    BY <1>3, <1>8
  <2> QED
    BY <1>2, <1>3, <1>8, <2>1, <2>2 DEF a, run, x, b, e, c
<1>9. CASE run[e][2] # "REJECT"
  <2>1. a = [x EXCEPT !.state = step[1], !.curr = step[2]] /\ run[e + 1] = step
    BY <1>3, <1>4, <1>6, <1>9 DEF step
  <2>2. a \in Automaton /\ a.state = step[1] /\ a.curr = step[2] /\ a.prev = x.prev
    BY <1>2, <1>7, <2>1 DEF Automaton, Known
  <2> QED
    BY <1>7, <2>1, <2>2 DEF a, run, x, b, e, c
<1> QED
  BY <1>8, <1>9

\* At the beginning of a prefix nobody has seen anything
LEMMA RunBegins ==
  ASSUME NEW s, Len(s) \in Nat, NEW tk, NEW b \in 1..(Len(s) + 1)
  PROVE  Alone(s, tk, b)[b] = <<0, "HUNGRY">>
<1> DEFINE run == Alone(s, tk, b)
           n == Len(s) + 1
<1>1. run = [e \in b..n |-> Ran(s, tk, b, run, e)]
  BY AloneRuns
<1>2. b \in b..n
  OBVIOUS
<1> HIDE DEF run, n
<1>3. run[b] = Ran(s, tk, b, run, b)
  BY <1>1, <1>2
<1> QED
  BY <1>3 DEF Ran, run

\* The loop has seen the winner that the automata by themselves would give
LEMMA WinnerAlone ==
  ASSUME LexInv, lexed = "RUN"
  PROVE  /\ Winner(auto, "prev") = Winner(Verdict(prefix.beg, prefix.end), "curr")
         /\ Winner(auto, "curr") = Winner(Verdict(prefix.beg, prefix.end), "curr")
         /\ prefix.beg = prefix.end => Winner(auto, "prev") = "COUNT"
<1> DEFINE V == Verdict(prefix.beg, prefix.end)
<1>1. \A tk \in Tks :
        /\ V[tk].curr = Alone(text, tk, prefix.beg)[prefix.end][2]
        /\ V[tk]["curr"] = V[tk].curr
  BY DEF Verdict
<1>2. \A tk \in Tks : FollowsRun(tk)
  BY DEF LexInv
<1>3. ASSUME prefix.beg = prefix.end, NEW tk \in Tks
      PROVE  V[tk].curr = "HUNGRY"
  <2>1. Len(text) \in Nat /\ prefix.beg \in 1..(Len(text) + 1)
    BY DEF LexInv, LexTypeOK
  <2>2. Alone(text, tk, prefix.beg)[prefix.beg] = <<0, "HUNGRY">>
    BY <2>1, RunBegins
  <2> QED
    BY <1>1, <1>3, <2>2
<1> HIDE DEF V
<1>4. \A tk \in Tks : auto[tk]["prev"] = V[tk]["curr"]
  BY <1>1, <1>2 DEF FollowsRun
<1>5. \A tk \in Tks : auto[tk]["curr"] = "ACCEPT" <=> V[tk]["curr"] = "ACCEPT"
  BY <1>1, <1>2, <1>3 DEF FollowsRun
<1>6. Winner(auto, "prev") = Winner(V, "curr")
  BY <1>4, WinnerSame
<1>7. Winner(auto, "curr") = Winner(V, "curr")
  BY <1>5, WinnerSame
<1>8. prefix.beg = prefix.end => \A tk \in Tks : auto[tk]["prev"] # "ACCEPT"
  BY <1>1, <1>3, <1>4
<1>9. prefix.beg = prefix.end => Winner(auto, "prev") = "COUNT"
  BY <1>8, WinnerMark
<1> QED
  BY <1>6, <1>7, <1>9 DEF V

\* Which allocation is going to fail does not matter to what is there
LEMMA FaultsResult ==
  ASSUME LexInv, NEW k \in Nat, NEW m \in Faults(mem, k)
  PROVE  Lexer(m) \in Lexers /\ Owns(Lexer(m)) /\ Lexer(m).lexed = lexed
         /\ Lexer(m).tokens = tokens
<1>1. mem \in Memory
  BY DEF LexInv, LexTypeOK
<1>2. \/ m = mem
      \/ \E i \in 1..k : m = [mem EXCEPT !.fails = mem.n + i]
  BY DEF Faults
<1>3. /\ m \in Memory
      /\ m.n = mem.n /\ m.live = mem.live /\ m.wrong = mem.wrong
  <2>1. CASE m = mem
    BY <1>1, <2>1
  <2>2. ASSUME NEW i \in 1..k, m = [mem EXCEPT !.fails = mem.n + i]
        PROVE  <1>3
    <3>1. mem.n + i \in Int
      BY <1>1 DEF Memory
    <3> QED
      BY <1>1, <2>2, <3>1 DEF Memory
  <2> QED
    BY <1>2, <2>1, <2>2
<1>4. /\ tokens \in Seq(Token) /\ array \in [ptr : Nat, room : Nat]
      /\ lexed \in Results /\ Owns(Lexer(mem))
  BY DEF LexInv, LexTypeOK, ArrayOwned
<1> QED
  BY <1>3, <1>4 DEF Lexer, Lexers, Owns

LEMMA BecomesResult ==
  ASSUME NEW m, NEW r \in Lexers, Owns(r), Becomes(m, r)
  PROVE  /\ tokens' \in Seq(Token) /\ array' \in [ptr : Nat, room : Nat]
         /\ lexed' \in Results /\ mem' \in Memory
         /\ ArrayOwned'
         /\ tokens' = r.tokens /\ lexed' = r.lexed
<1>1. /\ tokens' = r.tokens /\ array' = [ptr |-> r.ptr, room |-> r.room]
      /\ mem' = r.mem /\ lexed' = r.lexed
  BY DEF Becomes
<1>2. ArrayOwned'
  BY <1>1 DEF ArrayOwned, Owns, Lexer
<1> QED
  BY <1>1, <1>2 DEF Lexers

-------------------------------------------------------------------------------
(***************************************************************************)
(* The steps                                                               *)
(***************************************************************************)

NewToken ==
  tokens' # tokens /\ tokens # <<>> =>
    /\ Len(tokens') = Len(tokens) + IF lexed' = "OK" THEN 2 ELSE 1
    /\ AddsFresh(tokens'[Len(tokens) + 1])

\* Nothing ends well, or because of the text, but with a token
EndsWithToken ==
  lexed' \in {"OK", "UNKNOWN_TOKEN"} /\ lexed' # lexed =>
    lexed = "RUN" /\ tokens # <<>> /\ tokens' # tokens

\* The first token there is is the only one
FirstToken == tokens = <<>> /\ tokens' # tokens => Len(tokens') = 1

LEMMA InitInv ==
  ASSUME NEW file, Len(file) \in Nat, LexInit(file),
         mem \in {[Fresh EXCEPT !.fails = k] : k \in Int}
  PROVE  LexInv
<1>1. /\ text = file /\ prefix = [beg |-> 1, end |-> 1] /\ auto = Initial
      /\ tokens = <<>> /\ array = [ptr |-> 0, room |-> 0] /\ lexed = "RUN"
  BY DEF LexInit
<1>2. mem \in Memory /\ mem.n = 0 /\ mem.live = {} /\ mem.wrong = FALSE
  <2>1. PICK k \in Int : mem = [Fresh EXCEPT !.fails = k]
    OBVIOUS
  <2>2. mem = [n |-> 0, ptr |-> 0, live |-> {}, fails |-> k, wrong |-> FALSE]
    BY <2>1 DEF Fresh
  <2> QED
    BY <2>2 DEF Memory
<1>3. \A tk \in Tks : auto[tk] = [state |-> 0, prev |-> "HUNGRY", curr |-> "REJECT"]
  BY <1>1 DEF Initial
<1>4. LexTypeOK
  <2>1. auto \in [Tks -> Automaton]
    BY <1>1 DEF Initial, Automaton, Statuses
  <2> QED
    BY <1>1, <1>2, <2>1 DEF LexTypeOK, Results
<1>5. StatesKnown
  BY <1>3 DEF StatesKnown, Known
<1>6. ArrayOwned
  BY <1>1, <1>2 DEF ArrayOwned, Owns, Lexer
<1>7. ASSUME NEW tk \in Tks
      PROVE  FollowsRun(tk)
  <2>1. Alone(text, tk, 1)[1] = <<0, "HUNGRY">>
    BY <1>1, RunBegins
  <2> QED
    BY <1>1, <1>3, <2>1 DEF FollowsRun
<1> QED
  BY <1>1, <1>4, <1>5, <1>6, <1>7 DEF LexInv, EndMarked, Adjacent, Alive

LEMMA BeginStep ==
  ASSUME LexInv, LexBegin
  PROVE  LexInv' /\ NewToken /\ EndsWithToken /\ FirstToken
<1>1. /\ lexed = "RUN" /\ tokens = <<>>
      /\ UNCHANGED <<text, prefix, auto>>
  BY DEF LexBegin
<1>2. PICK m \in Faults(mem, 1) : Becomes(m, Push(Lexer(m), "FBEG", 0, 0))
  BY DEF LexBegin
<1> DEFINE r == Push(Lexer(m), "FBEG", 0, 0)
<1>3. /\ Lexer(m) \in Lexers /\ Owns(Lexer(m)) /\ Lexer(m).lexed = "RUN"
      /\ Lexer(m).tokens = <<>>
  BY <1>1, FaultsResult
<1>4. /\ r \in Lexers /\ Owns(r)
      /\ \/ r.lexed = "RUN"
            /\ r.tokens = Append(<<>>, [tk |-> "FBEG", beg |-> 0, end |-> 0])
         \/ r.lexed = "NOMEM" /\ r.tokens = <<>>
  BY <1>3, PushResult DEF Marks
<1> HIDE DEF r
<1>5. /\ tokens' \in Seq(Token) /\ array' \in [ptr : Nat, room : Nat]
      /\ lexed' \in Results /\ mem' \in Memory
      /\ ArrayOwned'
      /\ tokens' = r.tokens /\ lexed' = r.lexed
  BY <1>2, <1>4, BecomesResult DEF r
<1>6. LexTypeOK' /\ StatesKnown'
  BY <1>1, <1>5 DEF LexInv, LexTypeOK, StatesKnown
<1>7. ASSUME lexed' = "RUN"
      PROVE  Adjacent'
  <2>1. Len(tokens') = 1 /\ tokens' # <<>>
    <3> DEFINE x == [tk |-> "FBEG", beg |-> 0, end |-> 0]
    <3>1. tokens' = Append(<<>>, x)
      BY <1>4, <1>5, <1>7
    <3> HIDE DEF x
    <3>2. Append(<<>>, x) = <<x>>
      OBVIOUS
    <3> QED
      BY <3>1, <3>2
  <2> QED
    BY <1>1, <2>1 DEF LexInv, Adjacent, Start
<1>8. \A tk \in Tks : FollowsRun(tk)'
  BY <1>1 DEF LexInv, FollowsRun
<1>9. FirstToken
  <2> DEFINE x == [tk |-> "FBEG", beg |-> 0, end |-> 0]
  <2>1. tokens' = Append(<<>>, x) \/ tokens' = tokens
    BY <1>1, <1>4, <1>5
  <2> HIDE DEF x
  <2>2. Append(<<>>, x) = <<x>> /\ Len(<<x>>) = 1
    OBVIOUS
  <2> QED
    BY <2>1, <2>2 DEF FirstToken
<1> QED
  BY <1>1, <1>4, <1>5, <1>6, <1>7, <1>8, <1>9
  DEF LexInv, EndMarked, Alive, NewToken, EndsWithToken

\* The character belongs to the prefix
LEMMA GrowStep ==
  ASSUME LexInv, lexed = "RUN", tokens # <<>>, prefix.end <= Len(text),
         NEW a, a = Advance(auto, SubSeq(text, prefix.end, prefix.end)),
         \E tk \in Tks : a[tk].curr # "REJECT",
         prefix' = [prefix EXCEPT !.end = @ + 1],
         auto' = [tk \in Tks |-> [a[tk] EXCEPT !.prev = a[tk].curr]],
         UNCHANGED <<text, tokens, array, lexed, mem>>
  PROVE  LexInv'
<1>1. /\ prefix \in [beg : Nat, end : Nat] /\ Len(text) \in Nat
      /\ 1 <= prefix.beg /\ prefix.beg <= prefix.end
  BY DEF LexInv, LexTypeOK
<1>2. /\ prefix' \in [beg : Nat, end : Nat]
      /\ prefix'.beg = prefix.beg /\ prefix'.end = prefix.end + 1
      /\ prefix'.beg # prefix'.end
  BY <1>1
<1>3. ASSUME NEW tk \in Tks
      PROVE  /\ auto'[tk] \in Automaton
             /\ Known(tk, auto'[tk].state)
             /\ auto'[tk].curr = a[tk].curr
             /\ FollowsRun(tk)'
  <2> DEFINE run == Alone(text, tk, prefix.beg)[prefix.end + 1]
  <2>1. /\ a[tk] \in Automaton
        /\ Known(tk, a[tk].state)
        /\ a[tk].curr = run[2]
        /\ a[tk].state = IF run[2] = "REJECT" THEN 0 ELSE run[1]
    BY AdvanceRun
  <2>2. auto'[tk] = [a[tk] EXCEPT !.prev = a[tk].curr]
    OBVIOUS
  <2>3. /\ auto'[tk] \in Automaton
        /\ auto'[tk].state = a[tk].state /\ auto'[tk].prev = a[tk].curr
        /\ auto'[tk].curr = a[tk].curr
    BY <2>1, <2>2 DEF Automaton
  <2>4. FollowsRun(tk)'
    BY <1>2, <2>1, <2>3 DEF FollowsRun
  <2> QED
    BY <2>1, <2>3, <2>4
<1>4. auto' \in [Tks -> Automaton]
  BY <1>3
<1>5. LexTypeOK'
  BY <1>1, <1>2, <1>4 DEF LexInv, LexTypeOK
<1>6. StatesKnown'
  BY <1>3 DEF StatesKnown
<1>7. ArrayOwned'
  BY DEF LexInv, ArrayOwned, Lexer
<1>8. Adjacent' /\ Alive'
  BY <1>2, <1>3 DEF LexInv, Adjacent, Start, Alive
<1> QED
  BY <1>3, <1>5, <1>6, <1>7, <1>8 DEF LexInv, EndMarked

LEMMA UnknownResult ==
  ASSUME NEW r \in Lexers, Owns(r)
  PROVE  /\ Unknown(r) \in Lexers /\ Owns(Unknown(r))
         /\ Unknown(r).tokens = r.tokens
         /\ Unknown(r).lexed = IF r.lexed = "RUN" THEN "UNKNOWN_TOKEN" ELSE r.lexed
<1>1. r = [tokens |-> r.tokens, ptr |-> r.ptr, room |-> r.room,
           mem |-> r.mem, lexed |-> r.lexed]
  BY DEF Lexers
<1>2. CASE r.lexed = "RUN"
  <2>1. Unknown(r) = [tokens |-> r.tokens, ptr |-> r.ptr, room |-> r.room,
                      mem |-> r.mem, lexed |-> "UNKNOWN_TOKEN"]
    BY <1>1, <1>2 DEF Unknown
  <2> QED
    BY <1>2, <2>1 DEF Lexers, Owns, Results
<1>3. CASE r.lexed # "RUN"
  BY <1>3 DEF Unknown
<1> QED
  BY <1>2, <1>3

\* A token cut off where the automata stopped is what they say, each by itself
LEMMA CutFresh ==
  ASSUME LexInv, lexed = "RUN", tokens # <<>>,
         NEW t \in Token,
         t.tk = Winner(Verdict(prefix.beg, prefix.end), "curr"),
         t.beg = prefix.beg,
         t.tk # "COUNT" => t.end = prefix.end,
         prefix.end <= Len(text) =>
           \A u \in Tks : Verdict(prefix.beg, prefix.end + 1)[u].curr = "REJECT",
         \/ tokens' = tokens
         \/ /\ \/ tokens' = Append(tokens, t) /\ lexed' # "OK"
               \/ /\ \E u \in Token : tokens' = Append(Append(tokens, t), u)
                  /\ lexed' = "OK"
            /\ t.tk = "COUNT" <=> lexed' = "UNKNOWN_TOKEN",
         lexed' = "OK" => prefix.end = Len(text) + 1
  PROVE  NewToken
<1> DEFINE n == Len(tokens)
<1>1. tokens \in Seq(Token) /\ n \in Nat
  BY DEF LexInv, LexTypeOK
<1>2. prefix.beg = Start /\ prefix.beg \in Nat /\ prefix.end \in Nat
      /\ prefix.beg <= prefix.end
  BY DEF LexInv, LexTypeOK, Adjacent
<1>3. t.tk = "COUNT" \/ prefix.end > prefix.beg
  BY <1>2, WinnerAlone
<1>4. Taken(t.tk, Start, prefix.end)
  <2>1. prefix.beg < prefix.end =>
          \E u \in Tks : Verdict(prefix.beg, prefix.end)[u].curr # "REJECT"
    BY <1>2 DEF LexInv, Alive, FollowsRun, Verdict
  <2> QED
    BY <1>2, <2>1 DEF Taken
<1>5. SUFFICES ASSUME tokens' # tokens
               PROVE  /\ Len(tokens') = n + IF lexed' = "OK" THEN 2 ELSE 1
                      /\ AddsFresh(tokens'[n + 1])
  BY DEF NewToken
<1>6. /\ Len(tokens') = n + IF lexed' = "OK" THEN 2 ELSE 1
      /\ tokens'[n + 1] = t
      /\ \A i \in DOMAIN tokens : tokens'[i] = tokens[i]
  <2>1. CASE tokens' = Append(tokens, t) /\ lexed' # "OK"
    BY <1>1, <2>1
  <2>2. ASSUME NEW u \in Token, tokens' = Append(Append(tokens, t), u), lexed' = "OK"
        PROVE  <1>6
    <3> DEFINE s == Append(tokens, t)
    <3>1. s \in Seq(Token) /\ Len(s) = n + 1 /\ s[n + 1] = t
          /\ \A i \in 1..n : s[i] = tokens[i]
      BY <1>1
    <3> HIDE DEF s
    <3>2. Len(Append(s, u)) = n + 2
          /\ \A i \in 1..(n + 1) : Append(s, u)[i] = s[i]
      BY <1>1, <3>1
    <3> HIDE DEF n
    <3>3. DOMAIN tokens = 1..n
      BY <1>1 DEF n
    <3>4. tokens' = Append(s, u)
      BY <2>2 DEF s
    <3> QED
      BY <1>1, <3>1, <3>2, <3>3, <3>4
  <2> QED
    BY <1>5, <2>1, <2>2
<1>7. t.tk = "COUNT" <=> lexed' = "UNKNOWN_TOKEN"
  BY <1>5
<1>8. lexed' = "OK" => t.end = Len(text) + 1
  BY <1>7
<1> QED
  BY <1>2, <1>3, <1>4, <1>6, <1>7, <1>8 DEF AddsFresh

\* The prefix has ended before the character
LEMMA CutStep ==
  ASSUME LexInv, lexed = "RUN", tokens # <<>>, prefix.end <= Len(text),
         NEW a, a = Advance(auto, SubSeq(text, prefix.end, prefix.end)),
         \A tk \in Tks : a[tk].curr = "REJECT",
         auto' = Restart(a),
         LET won == Winner(auto, "prev")
             end == prefix.end + IF won = "COUNT" THEN 1 ELSE 0
         IN  /\ \E m \in Faults(mem, 1) :
                  Becomes(m, Then(Push(Lexer(m), won, prefix.beg, end), LAMBDA r :
                               IF won = "COUNT" THEN Unknown(r) ELSE r))
             /\ prefix' = IF lexed' = "RUN" THEN [prefix EXCEPT !.beg = prefix.end]
                          ELSE prefix,
         UNCHANGED text
  PROVE  LexInv' /\ NewToken /\ EndsWithToken
<1> DEFINE won == Winner(auto, "prev")
           end == prefix.end + IF won = "COUNT" THEN 1 ELSE 0
           F(h) == IF won = "COUNT" THEN Unknown(h) ELSE h
<1>0. PICK m \in Faults(mem, 1) :
        Becomes(m, CHOOSE x \in {F(h) : h \in {Push(Lexer(m), won, prefix.beg, end)}} : TRUE)
  BY Zenon DEF Then
<1> DEFINE q == Push(Lexer(m), won, prefix.beg, end)
           r == IF won = "COUNT" THEN Unknown(q) ELSE q
           t == [tk |-> won, beg |-> prefix.beg, end |-> end]
<1>1. /\ prefix \in [beg : Nat, end : Nat] /\ Len(text) \in Nat
      /\ 1 <= prefix.beg /\ prefix.beg <= prefix.end
      /\ tokens \in Seq(Token) /\ prefix.beg \in Nat /\ prefix.end \in Nat
      /\ prefix' = IF lexed' = "RUN" THEN [prefix EXCEPT !.beg = prefix.end] ELSE prefix
      /\ end = IF won = "COUNT" THEN prefix.end + 1 ELSE prefix.end
  BY DEF LexInv, LexTypeOK
<1>2. won \in Marks /\ end \in Nat /\ won = Winner(Verdict(prefix.beg, prefix.end), "curr")
  <2>1. won \in Marks
    BY WinnerMark
  <2>2. won = Winner(Verdict(prefix.beg, prefix.end), "curr")
    BY WinnerAlone
  <2> QED
    BY <1>1, <2>1, <2>2
<1> HIDE DEF won, end
<1>3. /\ q \in Lexers /\ Owns(q)
      /\ \/ q.lexed = "RUN" /\ q.tokens = Append(tokens, t)
         \/ q.lexed = "NOMEM" /\ q.tokens = tokens
  <2>1. /\ Lexer(m) \in Lexers /\ Owns(Lexer(m)) /\ Lexer(m).lexed = "RUN"
        /\ Lexer(m).tokens = tokens
    BY FaultsResult
  <2> QED
    BY SMTT(30), <1>1, <1>2, <2>1, PushResult
<1>4. Becomes(m, r)
  <2>1. Becomes(m, CHOOSE x \in {F(h) : h \in {q}} : TRUE)
    BY <1>0 DEF q
  <2>2. {F(h) : h \in {q}} = {F(q)}
    <3> HIDE DEF F, q
    <3> QED
      OBVIOUS
  <2>3. (CHOOSE x \in {F(h) : h \in {q}} : TRUE) = F(q)
    <3> HIDE DEF F, q
    <3> QED
      BY <2>2
  <2>4. F(q) = r
    OBVIOUS
  <2> HIDE DEF F, q, r
  <2> QED
    BY <2>1, <2>3, <2>4
<1> HIDE DEF q, t, F
<1>5. /\ r \in Lexers /\ Owns(r)
      /\ \/ /\ r.lexed = IF won = "COUNT" THEN "UNKNOWN_TOKEN" ELSE "RUN"
            /\ r.tokens = Append(tokens, t)
         \/ r.lexed = "NOMEM" /\ r.tokens = tokens
  BY <1>3, UnknownResult
<1> HIDE DEF r
<1>6. /\ tokens' \in Seq(Token) /\ array' \in [ptr : Nat, room : Nat]
      /\ lexed' \in Results /\ mem' \in Memory
      /\ ArrayOwned'
      /\ tokens' = r.tokens /\ lexed' = r.lexed
  BY <1>4, <1>5, BecomesResult
<1>7. ASSUME NEW tk \in Tks
      PROVE  /\ a[tk] \in Automaton
             /\ a[tk].curr = Alone(text, tk, prefix.beg)[prefix.end + 1][2]
             /\ a[tk].state = 0 /\ a[tk].curr = "REJECT"
  BY AdvanceRun
<1>8. ASSUME NEW tk \in Tks
      PROVE  /\ auto'[tk] \in Automaton
             /\ auto'[tk] = [state |-> 0, prev |-> "HUNGRY", curr |-> "REJECT"]
  <2>1. auto'[tk] = [a[tk] EXCEPT !.prev = "HUNGRY", !.curr = "REJECT"]
    BY DEF Restart
  <2> QED
    BY <1>7, <2>1 DEF Automaton, Statuses
<1>9. auto' \in [Tks -> Automaton]
  <2>1. auto' = [tk \in Tks |-> [a[tk] EXCEPT !.prev = "HUNGRY", !.curr = "REJECT"]]
    BY DEF Restart
  <2> QED
    BY <1>8, <2>1
<1>10. /\ prefix' \in [beg : Nat, end : Nat] /\ prefix'.end = prefix.end
       /\ prefix'.beg = IF lexed' = "RUN" THEN prefix.end ELSE prefix.beg
  BY <1>1
<1>11. LexTypeOK'
  BY <1>1, <1>6, <1>9, <1>10 DEF LexTypeOK
<1>12. StatesKnown'
  BY <1>8 DEF StatesKnown, Known
<1>13. ASSUME lexed' = "RUN"
       PROVE  Adjacent' /\ Alive' /\ \A tk \in Tks : FollowsRun(tk)'
  <2>1. tokens' = Append(tokens, t) /\ won # "COUNT" /\ t.end = prefix.end
    BY <1>1, <1>5, <1>6, <1>13 DEF t
  <2>2. Len(tokens') = Len(tokens) + 1 /\ Len(tokens) \in Nat /\ Len(tokens) # 0
        /\ tokens'[Len(tokens')] = t
    <3> DEFINE n == Len(tokens)
    <3>1. n \in Nat /\ n # 0
      BY <1>1
    <3>2. Len(Append(tokens, t)) = n + 1 /\ Append(tokens, t)[n + 1] = t
      BY <1>1
    <3> HIDE DEF n
    <3> QED
      BY <2>1, <3>1, <3>2 DEF n
  <2>3. Adjacent'
    BY <1>10, <1>13, <2>1, <2>2 DEF Adjacent, Start
  <2>4. ASSUME NEW tk \in Tks
        PROVE  FollowsRun(tk)'
    <3>1. Alone(text, tk, prefix.end)[prefix.end] = <<0, "HUNGRY">>
      BY <1>1, RunBegins
    <3> QED
      BY <1>8, <1>10, <1>13, <3>1 DEF FollowsRun
  <2>5. Alive'
    BY <1>1, <1>10, <1>13 DEF Alive
  <2> QED
    BY <2>3, <2>4, <2>5
<1>14. NewToken
  <2>1. t \in Token /\ t.tk = won /\ t.beg = prefix.beg /\ t.end = end
    BY <1>1, <1>2 DEF t, Token
  <2>2. won # "COUNT" => t.end = prefix.end
    BY <1>1, <2>1
  <2>3. \A u \in Tks : Verdict(prefix.beg, prefix.end + 1)[u].curr = "REJECT"
    BY <1>7 DEF Verdict
  <2>4. lexed' # "OK"
    BY <1>5, <1>6
  <2>5. \/ tokens' = tokens
        \/ /\ tokens' = Append(tokens, t) /\ lexed' # "OK"
           /\ t.tk = "COUNT" <=> lexed' = "UNKNOWN_TOKEN"
    BY <1>5, <1>6, <2>1, <2>4
  <2> QED
    BY <1>2, <2>1, <2>2, <2>3, <2>4, <2>5, CutFresh
<1>15. EndsWithToken
  <2>1. Append(tokens, t) # tokens
    BY <1>1
  <2> QED
    BY <1>5, <1>6, <2>1 DEF EndsWithToken
<1>16. EndMarked'
  BY <1>5, <1>6 DEF EndMarked
<1> QED
  BY <1>6, <1>11, <1>12, <1>13, <1>14, <1>15, <1>16 DEF LexInv

\* The text has ended
LEMMA EndStep ==
  ASSUME LexInv, LexEnd
  PROVE  LexInv' /\ NewToken /\ EndsWithToken
<1> DEFINE won == Winner(auto, "curr")
           t == [tk |-> won, beg |-> prefix.beg, end |-> prefix.end]
           Ok(h) == IF h.lexed = "RUN" THEN [h EXCEPT !.lexed = "OK"] ELSE h
           F(h) == IF won = "COUNT" \/ h.lexed # "RUN" THEN Unknown(h)
                   ELSE CHOOSE x \in {Ok(g) : g \in {Marked(h)}} : TRUE
<1>1. /\ lexed = "RUN" /\ tokens # <<>> /\ prefix.end > Len(text)
      /\ auto' = Restart(auto) /\ UNCHANGED <<text, prefix>>
  BY DEF LexEnd
<1>2. PICK m \in Faults(mem, 2) :
        Becomes(m, CHOOSE x \in {F(h) : h \in {Push(Lexer(m), won, prefix.beg, prefix.end)}} : TRUE)
  BY Zenon DEF LexEnd, Then
<1> DEFINE q == Push(Lexer(m), won, prefix.beg, prefix.end)
           r == F(q)
<1>3. /\ prefix \in [beg : Nat, end : Nat] /\ Len(text) \in Nat
      /\ 1 <= prefix.beg /\ prefix.beg <= prefix.end /\ prefix.end = Len(text) + 1
      /\ tokens \in Seq(Token) /\ prefix.beg \in Nat /\ prefix.end \in Nat
  BY <1>1 DEF LexInv, LexTypeOK
<1>4. won \in Marks /\ won = Winner(Verdict(prefix.beg, prefix.end), "curr")
  <2>1. won \in Marks
    BY WinnerMark
  <2>2. won = Winner(Verdict(prefix.beg, prefix.end), "curr")
    BY <1>1, WinnerAlone
  <2> QED
    BY <2>1, <2>2
<1> HIDE DEF won
<1>5. /\ q \in Lexers /\ Owns(q)
      /\ \/ q.lexed = "RUN" /\ q.tokens = Append(tokens, t)
         \/ q.lexed = "NOMEM" /\ q.tokens = tokens
  <2>1. /\ Lexer(m) \in Lexers /\ Owns(Lexer(m)) /\ Lexer(m).lexed = "RUN"
        /\ Lexer(m).tokens = tokens
    BY <1>1, FaultsResult
  <2> QED
    BY <1>3, <1>4, <2>1, PushResult
<1> HIDE DEF q
<1>6. Becomes(m, r)
  <2>1. {F(h) : h \in {q}} = {F(q)}
    <3> HIDE DEF F
    <3> QED
      OBVIOUS
  <2>2. (CHOOSE x \in {F(h) : h \in {q}} : TRUE) = F(q)
    <3> HIDE DEF F
    <3> QED
      BY <2>1
  <2>3. Becomes(m, CHOOSE x \in {F(h) : h \in {q}} : TRUE)
    BY <1>2 DEF q
  <2> HIDE DEF F
  <2> QED
    BY <2>2, <2>3
<1>7. /\ r \in Lexers /\ Owns(r)
      /\ \/ /\ r.tokens = Append(tokens, t) /\ won = "COUNT"
            /\ r.lexed = "UNKNOWN_TOKEN"
         \/ r.tokens = tokens /\ r.lexed = "NOMEM"
         \/ /\ \E u \in Token : u.tk = "FEND" /\ r.tokens = Append(Append(tokens, t), u)
            /\ won # "COUNT" /\ r.lexed = "OK"
         \/ r.tokens = Append(tokens, t) /\ won # "COUNT" /\ r.lexed = "NOMEM"
  <2>1. CASE won = "COUNT" \/ q.lexed # "RUN"
    <3>1. r = Unknown(q)
      BY <2>1
    <3> HIDE DEF r, t
    <3> QED
      BY <1>5, <2>1, <3>1, UnknownResult
  <2>2. CASE won # "COUNT" /\ q.lexed = "RUN"
    <3> DEFINE g == Marked(q)
               u == [tk |-> "FEND", beg |-> 0, end |-> 0]
    <3>1. r = Ok(g)
      <4>1. r = CHOOSE x \in {Ok(h) : h \in {g}} : TRUE
        BY <2>2
      <4> HIDE DEF r, g, Ok
      <4>2. {Ok(h) : h \in {g}} = {Ok(g)}
        OBVIOUS
      <4> QED
        BY <4>1, <4>2
    <3>2. u \in Token /\ u.tk = "FEND"
      BY DEF Token, Marks
    <3>3. /\ g \in Lexers /\ Owns(g)
          /\ \/ g.lexed = "RUN" /\ g.tokens = Append(q.tokens, u)
             \/ g.lexed = "NOMEM" /\ g.tokens = q.tokens
      <4>1. g = Push(q, "FEND", 0, 0)
        BY DEF Marked
      <4>2. "FEND" \in Marks
        BY DEF Marks
      <4> HIDE DEF g
      <4> QED
        BY <1>5, <2>2, <4>1, <4>2, PushResult
    <3> HIDE DEF r, g, u, t
    <3>4. g = [tokens |-> g.tokens, ptr |-> g.ptr, room |-> g.room,
               mem |-> g.mem, lexed |-> g.lexed]
      BY <3>3 DEF Lexers
    <3>5. CASE g.lexed = "RUN"
      <4>1. r = [tokens |-> g.tokens, ptr |-> g.ptr, room |-> g.room,
                 mem |-> g.mem, lexed |-> "OK"]
        BY <3>1, <3>4, <3>5
      <4>2. r \in Lexers /\ Owns(r)
        BY <3>3, <3>5, <4>1 DEF Lexers, Owns, Results
      <4> QED
        BY <1>5, <2>2, <3>2, <3>3, <3>5, <4>1, <4>2
    <3>6. CASE g.lexed = "NOMEM"
      <4>1. r = g
        BY <3>1, <3>6
      <4> QED
        BY <1>5, <2>2, <3>3, <3>6, <4>1
    <3> QED
      BY <3>3, <3>5, <3>6
  <2> QED
    BY <2>1, <2>2
<1>8. t \in Token /\ t.tk = won /\ t.beg = prefix.beg /\ t.end = prefix.end
  BY <1>3, <1>4 DEF Token
<1> HIDE DEF r, t, F
<1>9. /\ tokens' \in Seq(Token) /\ array' \in [ptr : Nat, room : Nat]
      /\ lexed' \in Results /\ mem' \in Memory
      /\ ArrayOwned'
      /\ tokens' = r.tokens /\ lexed' = r.lexed
  BY <1>6, <1>7, BecomesResult
<1>10. ASSUME NEW tk \in Tks
       PROVE  /\ auto'[tk] \in Automaton
              /\ auto'[tk].state = auto[tk].state
  <2>1. auto'[tk] = [auto[tk] EXCEPT !.prev = "HUNGRY", !.curr = "REJECT"]
    BY <1>1 DEF Restart
  <2>2. auto[tk] \in Automaton
    BY DEF LexInv, LexTypeOK
  <2> QED
    BY <2>1, <2>2 DEF Automaton, Statuses
<1>11. LexTypeOK'
  <2>1. auto' = [tk \in Tks |-> [auto[tk] EXCEPT !.prev = "HUNGRY", !.curr = "REJECT"]]
    BY <1>1 DEF Restart
  <2>2. auto' \in [Tks -> Automaton]
    BY <1>10, <2>1
  <2> QED
    BY <1>1, <1>9, <2>2 DEF LexInv, LexTypeOK
<1>12. StatesKnown'
  BY <1>10 DEF LexInv, StatesKnown
<1>13. lexed' # "RUN"
  BY <1>7, <1>9
<1>14. NewToken
  <2>1. \/ tokens' = tokens
        \/ /\ \/ tokens' = Append(tokens, t) /\ lexed' # "OK"
              \/ /\ \E u \in Token : tokens' = Append(Append(tokens, t), u)
                 /\ lexed' = "OK"
           /\ t.tk = "COUNT" <=> lexed' = "UNKNOWN_TOKEN"
    BY <1>7, <1>8, <1>9
  <2>2. prefix.end <= Len(text) =>
          \A u \in Tks : Verdict(prefix.beg, prefix.end + 1)[u].curr = "REJECT"
    BY <1>1, <1>3
  <2>3. lexed' = "OK" => prefix.end = Len(text) + 1
    BY <1>3
  <2>4. t.tk # "COUNT" => t.end = prefix.end
    BY <1>8
  <2>5. t.tk = Winner(Verdict(prefix.beg, prefix.end), "curr") /\ t.beg = prefix.beg
    BY <1>4, <1>8
  <2> QED
    BY <1>1, <1>8, <2>1, <2>2, <2>3, <2>4, <2>5, CutFresh
<1>15. EndsWithToken
  <2>1. Append(tokens, t) # tokens
    BY <1>3
  <2>2. ASSUME NEW u
        PROVE  Append(Append(tokens, t), u) # tokens
    <3> DEFINE n == Len(tokens)
    <3>1. Len(Append(Append(tokens, t), u)) = n + 2 /\ n \in Nat
      BY <1>3
    <3> QED
      BY <3>1
  <2> QED
    BY <1>1, <1>7, <1>9, <2>1, <2>2 DEF EndsWithToken
<1>16. EndMarked'
  <2>1. SUFFICES ASSUME lexed' = "OK"
                 PROVE  tokens' # <<>> /\ tokens'[Len(tokens')].tk = "FEND"
    BY DEF EndMarked
  <2>2. PICK u \in Token : u.tk = "FEND" /\ tokens' = Append(Append(tokens, t), u)
    BY <1>7, <1>9, <2>1
  <2> DEFINE s == Append(tokens, t)
             x == Len(s)
  <2>3. s \in Seq(Token) /\ x \in Nat
    BY <1>3, <1>8
  <2> HIDE DEF x
  <2>4. Len(tokens') = x + 1 /\ tokens'[x + 1] = u
    BY <2>2, <2>3 DEF x
  <2> QED
    BY <2>2, <2>3, <2>4
<1> QED
  BY <1>9, <1>11, <1>12, <1>13, <1>14, <1>15, <1>16 DEF LexInv

LEMMA NextInv ==
  ASSUME LexInv, [LexNext]_<<lexVars, mem>>
  PROVE  LexInv' /\ NewToken /\ EndsWithToken /\ FirstToken
<1>1. CASE LexBegin
  BY <1>1, BeginStep
<1>2. CASE LexChar
  <2>1. PICK a \in {Advance(auto, SubSeq(text, prefix.end, prefix.end))} :
       \/ /\ \E tk \in Tks : a[tk].curr # "REJECT"
          /\ prefix' = [prefix EXCEPT !.end = @ + 1]
          /\ auto' = [tk \in Tks |-> [a[tk] EXCEPT !.prev = a[tk].curr]]
          /\ UNCHANGED <<tokens, array, lexed, mem>>
       \/ /\ \A tk \in Tks : a[tk].curr = "REJECT"
          /\ auto' = Restart(a)
          /\ LET won == Winner(auto, "prev")
                 end == prefix.end + IF won = "COUNT" THEN 1 ELSE 0
             IN  /\ \E m \in Faults(mem, 1) :
                      Becomes(m, Then(Push(Lexer(m), won, prefix.beg, end), LAMBDA r :
                                   IF won = "COUNT" THEN Unknown(r) ELSE r))
                 /\ prefix' = IF lexed' = "RUN" THEN [prefix EXCEPT !.beg = prefix.end]
                              ELSE prefix
    BY <1>2, Zenon DEF LexChar
  <2>2. lexed = "RUN" /\ tokens # <<>> /\ prefix.end <= Len(text) /\ UNCHANGED text
    BY <1>2 DEF LexChar
  <2>3. CASE /\ \E tk \in Tks : a[tk].curr # "REJECT"
             /\ prefix' = [prefix EXCEPT !.end = @ + 1]
             /\ auto' = [tk \in Tks |-> [a[tk] EXCEPT !.prev = a[tk].curr]]
             /\ UNCHANGED <<tokens, array, lexed, mem>>
    <3>1. LexInv'
      BY <2>2, <2>3, GrowStep
    <3> QED
      BY <2>3, <3>1 DEF NewToken, EndsWithToken, FirstToken
  <2>4. CASE /\ \A tk \in Tks : a[tk].curr = "REJECT"
             /\ auto' = Restart(a)
             /\ LET won == Winner(auto, "prev")
                    end == prefix.end + IF won = "COUNT" THEN 1 ELSE 0
                IN  /\ \E m \in Faults(mem, 1) :
                         Becomes(m, Then(Push(Lexer(m), won, prefix.beg, end), LAMBDA r :
                                      IF won = "COUNT" THEN Unknown(r) ELSE r))
                    /\ prefix' = IF lexed' = "RUN" THEN [prefix EXCEPT !.beg = prefix.end]
                                 ELSE prefix
    <3>1. a = Advance(auto, SubSeq(text, prefix.end, prefix.end))
      OBVIOUS
    <3>2. LexInv' /\ NewToken /\ EndsWithToken
      BY <2>2, <2>4, <3>1, CutStep, Zenon
    <3> QED
      BY <2>2, <3>2 DEF FirstToken
  <2> QED
    BY <2>1, <2>3, <2>4, Zenon
<1>3. CASE LexEnd
  <2>1. tokens # <<>>
    BY <1>3 DEF LexEnd
  <2> QED
    BY <1>3, <2>1, EndStep DEF FirstToken
<1>4. CASE UNCHANGED <<lexVars, mem>>
  <2>1. UNCHANGED <<text, prefix, auto, tokens, array, lexed, mem>>
    BY <1>4 DEF lexVars
  <2> QED
    BY <2>1 DEF LexInv, LexTypeOK, StatesKnown, ArrayOwned, EndMarked, Lexer, Adjacent, Start,
                Alive, FollowsRun, NewToken, EndsWithToken, FirstToken
<1> QED
  BY <1>1, <1>2, <1>3, <1>4 DEF LexNext

LEMMA AlwaysInv ==
  ASSUME NEW CONSTANT file, Len(file) \in Nat
  PROVE  LexSpec(file) => []LexInv
<1>1. LexInit(file) /\ mem \in {[Fresh EXCEPT !.fails = k] : k \in Int} => LexInv
  BY InitInv
<1>2. LexInv /\ [LexNext]_<<lexVars, mem>> => LexInv'
  BY NextInv
<1> QED
  BY <1>1, <1>2, PTL DEF LexSpec

\* Every token is what the automata say that start afresh where the token before
\* has ended: nothing is left over from one token to the next (lex: restart of
\* the statuses; the states that tk_* leave behind when they reject)
THEOREM TokensCorrect ==
  ASSUME NEW CONSTANT file, Len(file) \in Nat
  PROVE  LexSpec(file) => FreshTokens
<1>1. LexInv /\ [LexNext]_<<lexVars, mem>> => [NewToken]_tokens
  BY NextInv
<1> QED
  BY <1>1, AlwaysInv, PTL DEF LexSpec, FreshTokens, NewToken

\* No automaton is ever in a state that its switch has no case for: the
\* assert(0) of the tk_* functions is never reached
THEOREM StatesCorrect ==
  ASSUME NEW CONSTANT file, Len(file) \in Nat
  PROVE  LexSpec(file) => []StatesKnown
<1>1. LexInv => StatesKnown
  BY DEF LexInv
<1> QED
  BY <1>1, AlwaysInv, PTL

\* Whichever reallocation fails, push_token frees the array once and leaves no
\* pointer to it, and what is in the array fits
THEOREM ArrayCorrect ==
  ASSUME NEW CONSTANT file, Len(file) \in Nat
  PROVE  LexSpec(file) => []ArrayOwned
<1>1. LexInv => ArrayOwned
  BY DEF LexInv
<1> QED
  BY <1>1, AlwaysInv, PTL
===============================================================================
