------------------------------ MODULE TokenProofs ------------------------------
(***************************************************************************)
(* Theorems about the tokens, for every text: each automaton accepts its   *)
(* language and nothing else, so the tokens of an accepted text are the    *)
(* longest, and a text is refused only for a cause.                        *)
(***************************************************************************)
EXTENDS LexProofs, Tokens

-------------------------------------------------------------------------------
(***************************************************************************)
(* One automaton from one position                                         *)
(***************************************************************************)

\* Induction from b up to n, with a set in the place of a predicate
LEMMA Upward ==
  ASSUME NEW b \in Nat, NEW n \in Nat, NEW S,
         b \in S, \A e \in b..n : e \in S /\ e < n => e + 1 \in S
  PROVE  \A e \in b..n : e \in S
<1> DEFINE T == {e \in b..n : e \notin S}
<1>1. SUFFICES ASSUME T # {} PROVE FALSE
  OBVIOUS
<1>2. PICK x \in T : \A y \in T : x <= y
  <2>1. T \subseteq Nat
    OBVIOUS
  <2> HIDE DEF T
  <2> QED
    BY <1>1, <2>1, LeastElement
<1>3. x \in b..n /\ x # b
  OBVIOUS
<1>4. x - 1 \in b..n /\ x - 1 < n /\ (x - 1) + 1 = x
  BY <1>3
<1>5. x - 1 \in S
  BY <1>2, <1>4
<1> QED
  BY <1>4, <1>5

LEMMA RunStep ==
  ASSUME NEW s, Len(s) \in Nat, NEW tk,
         NEW b \in 1..(Len(s) + 1), NEW e \in b..Len(s)
  PROVE  Alone(s, tk, b)[e + 1]
           = IF Alone(s, tk, b)[e][2] = "REJECT" THEN Alone(s, tk, b)[e]
             ELSE Step(tk, Char(s, e), Alone(s, tk, b)[e][1])
<1> DEFINE run == Alone(s, tk, b)
           n == Len(s) + 1
<1>1. run = [i \in b..n |-> Ran(s, tk, b, run, i)]
  BY AloneRuns
<1>2. e + 1 \in b..n /\ e + 1 # b /\ (e + 1) - 1 = e
  OBVIOUS
<1> HIDE DEF run, n
<1>3. run[e + 1] = Ran(s, tk, b, run, e + 1)
  BY <1>1, <1>2
<1>4. run[e + 1] = IF run[e][2] = "REJECT" THEN run[e]
                   ELSE Step(tk, SubSeq(s, e, e), run[e][1])
  BY <1>2, <1>3 DEF Ran
<1> QED
  BY <1>4 DEF run, Char

\* The text from b up to e is the beginning of a string or comment and does not
\* end it
Within(tk, s, b, e) ==
  \/ Kinds[tk] = "STRL" /\ b < e /\ Char(s, b) = Quote /\ NoneIn(s, b + 1, e, {Quote})
  \/ Kinds[tk] = "LCOM" /\ b + 1 < e /\ Begins(s, b, "/", "/") /\ NoneIn(s, b + 2, e, Eol)
  \/ /\ Kinds[tk] = "BCOM" /\ b + 1 < e /\ Begins(s, b, "/", "*")
     /\ \A j \in b + 2..e - 1 : ~Closes(s, b + 2, j)

\* The text from b up to e is the first slash of a comment
Slash(tk, s, b, e) == Kinds[tk] \in {"LCOM", "BCOM"} /\ e = b + 1 /\ Char(s, b) = "/"

\* The text from b up to e is the beginning of a text that is fixed
Spelt(tk, s, b, e) ==
  /\ Kinds[tk] \notin Open
  /\ e - b <= Len(LiteralOf(tk))
  /\ \A i \in 1..(e - b) : Char(s, b + i - 1) = Char(LiteralOf(tk), i)

\* The state in which an automaton has accepted
Final(tk, b, e) ==
  CASE Kinds[tk] = "NMBR" -> 0
    [] Kinds[tk] \in {"NAME", "WSPC"} -> 1
    [] Kinds[tk] = "STRL" -> 2
    [] Kinds[tk] = "LCOM" -> 3
    [] Kinds[tk] = "BCOM" -> 4
    [] OTHER -> e - b

\* What automaton tk makes of the text from b up to e
Reads(tk, s, b, e, r) ==
  \/ InLanguage(tk, s, b, e) /\ r = <<Final(tk, b, e), "ACCEPT">>
  \/ /\ Within(tk, s, b, e)
     /\ r[2] = "HUNGRY"
     /\ r[1] = IF Kinds[tk] = "STRL" THEN 1
               ELSE IF Kinds[tk] = "BCOM" /\ OddStars(s, b + 2, e) THEN 3 ELSE 2
  \/ Slash(tk, s, b, e) /\ r = <<1, "HUNGRY">>
  \/ Spelt(tk, s, b, e) /\ e - b < Len(LiteralOf(tk)) /\ r = <<e - b, "HUNGRY">>
  \/ /\ ~InLanguage(tk, s, b, e) /\ ~Within(tk, s, b, e) /\ ~Slash(tk, s, b, e)
     /\ ~Spelt(tk, s, b, e)
     /\ r[2] = "REJECT"

\* One more character, or one less
LEMMA AllInStep ==
  ASSUME NEW s, NEW b \in Int, NEW e \in Int, b <= e, NEW C
  PROVE  AllIn(s, b, e + 1, C) <=> AllIn(s, b, e, C) /\ Char(s, e) \in C
<1>1. b..(e + 1) - 1 = (b..e - 1) \cup {e}
  OBVIOUS
<1> QED
  BY <1>1 DEF AllIn

LEMMA NoneInStep ==
  ASSUME NEW s, NEW b \in Int, NEW e \in Int, b <= e, NEW C
  PROVE  NoneIn(s, b, e + 1, C) <=> NoneIn(s, b, e, C) /\ Char(s, e) \notin C
<1>1. b..(e + 1) - 1 = (b..e - 1) \cup {e}
  OBVIOUS
<1> QED
  BY <1>1 DEF NoneIn

-------------------------------------------------------------------------------
(***************************************************************************)
(* Each kind, one character on                                             *)
(***************************************************************************)

LEMMA NameReads ==
  ASSUME NEW tk, Kinds[tk] = "NAME", NEW s, NEW b \in Nat, NEW e \in Nat, b < e,
         NEW r, Reads(tk, s, b, e, r)
  PROVE  Reads(tk, s, b, e + 1,
               IF r[2] = "REJECT" THEN r ELSE Step(tk, Char(s, e), r[1]))
<1>1. AllIn(s, b, e + 1, Wordly) <=> AllIn(s, b, e, Wordly) /\ Char(s, e) \in Wordly
  BY AllInStep
<1>2. \A x : InLanguage(tk, s, b, x)
        <=> b < x /\ Char(s, b) \notin Digit /\ AllIn(s, b, x, Wordly)
  BY DEF InLanguage
<1>3. \A x : ~Within(tk, s, b, x) /\ ~Slash(tk, s, b, x) /\ ~Spelt(tk, s, b, x)
  BY DEF Within, Slash, Spelt, Open
<1>4. \A c : Step(tk, c, 1) = IF c \in Wordly THEN <<1, "ACCEPT">> ELSE <<0, "REJECT">>
  BY DEF Step, TkName, Accept, Reject, Wordly
<1>5. CASE InLanguage(tk, s, b, e) /\ r = <<1, "ACCEPT">>
  BY <1>1, <1>2, <1>3, <1>4, <1>5 DEF Reads, Final
<1>6. CASE ~InLanguage(tk, s, b, e) /\ r[2] = "REJECT"
  BY <1>1, <1>2, <1>3, <1>6 DEF Reads
<1> QED
  BY <1>3, <1>5, <1>6 DEF Reads, Final

LEMMA NumberReads ==
  ASSUME NEW tk, Kinds[tk] \in {"NMBR", "WSPC"},
         NEW s, NEW b \in Nat, NEW e \in Nat, b < e,
         NEW r, Reads(tk, s, b, e, r)
  PROVE  Reads(tk, s, b, e + 1,
               IF r[2] = "REJECT" THEN r ELSE Step(tk, Char(s, e), r[1]))
<1> DEFINE C == IF Kinds[tk] = "NMBR" THEN Digit ELSE Wspace
           f == IF Kinds[tk] = "NMBR" THEN 0 ELSE 1
<1>1. AllIn(s, b, e + 1, C) <=> AllIn(s, b, e, C) /\ Char(s, e) \in C
  BY AllInStep
<1>2. \A x : InLanguage(tk, s, b, x) <=> b < x /\ AllIn(s, b, x, C)
  BY DEF InLanguage
<1>3. \A x : ~Within(tk, s, b, x) /\ ~Slash(tk, s, b, x) /\ ~Spelt(tk, s, b, x)
  BY DEF Within, Slash, Spelt, Open
<1>4. \A c : IF c \in C THEN Step(tk, c, f) = <<f, "ACCEPT">>
             ELSE Step(tk, c, f)[2] = "REJECT"
  BY DEF Step, TkNmbr, TkWspc, Accept, Reject
<1>5. \A x : Final(tk, b, x) = f
  BY DEF Final
<1> HIDE DEF C, f
<1>6. CASE InLanguage(tk, s, b, e) /\ r = <<f, "ACCEPT">>
  BY <1>1, <1>2, <1>3, <1>4, <1>5, <1>6 DEF Reads
<1>7. CASE ~InLanguage(tk, s, b, e) /\ r[2] = "REJECT"
  BY <1>1, <1>2, <1>3, <1>7 DEF Reads
<1> QED
  BY <1>3, <1>5, <1>6, <1>7 DEF Reads

LEMMA StringReads ==
  ASSUME NEW tk, Kinds[tk] = "STRL", NEW s, NEW b \in Nat, NEW e \in Nat, b < e,
         NEW r, Reads(tk, s, b, e, r)
  PROVE  Reads(tk, s, b, e + 1,
               IF r[2] = "REJECT" THEN r ELSE Step(tk, Char(s, e), r[1]))
<1> DEFINE q == Char(s, b) = Quote
<1>1. NoneIn(s, b + 1, e + 1, {Quote})
        <=> NoneIn(s, b + 1, e, {Quote}) /\ Char(s, e) # Quote
  <2>1. b + 1 \in Int /\ e \in Int /\ b + 1 <= e
    OBVIOUS
  <2>2. NoneIn(s, b + 1, e + 1, {Quote})
          <=> NoneIn(s, b + 1, e, {Quote}) /\ Char(s, e) \notin {Quote}
    BY <2>1, NoneInStep
  <2> QED
    BY <2>2
<1>2. InLanguage(tk, s, b, e + 1)
        <=> q /\ b + 1 < e + 1 /\ Char(s, e) = Quote /\ NoneIn(s, b + 1, e, {Quote})
  <2>1. (e + 1) - 1 = e /\ b < e + 1
    OBVIOUS
  <2> QED
    BY <2>1 DEF InLanguage
<1>3. InLanguage(tk, s, b, e)
        => Char(s, e - 1) = Quote /\ b + 1 < e
  BY DEF InLanguage
<1>4. /\ Within(tk, s, b, e) <=> q /\ NoneIn(s, b + 1, e, {Quote})
      /\ Within(tk, s, b, e + 1) <=> q /\ NoneIn(s, b + 1, e + 1, {Quote})
  BY DEF Within
<1>5. \A x : ~Slash(tk, s, b, x) /\ ~Spelt(tk, s, b, x)
  BY DEF Slash, Spelt, Open
<1>6. \A c : /\ Step(tk, c, 1) = IF c = Quote THEN <<2, "ACCEPT">> ELSE <<1, "HUNGRY">>
             /\ Step(tk, c, 2) = <<0, "REJECT">>
  BY DEF Step, TkStrl, Accept, Hungry, Reject
<1>7. \A x : Final(tk, b, x) = 2
  BY DEF Final
<1>8. InLanguage(tk, s, b, e) => ~NoneIn(s, b + 1, e, {Quote})
  BY <1>3 DEF NoneIn
<1>9. Reads(tk, s, b, e, r) <=>
        \/ InLanguage(tk, s, b, e) /\ r = <<2, "ACCEPT">>
        \/ Within(tk, s, b, e) /\ r[2] = "HUNGRY" /\ r[1] = 1
        \/ ~InLanguage(tk, s, b, e) /\ ~Within(tk, s, b, e) /\ r[2] = "REJECT"
  BY <1>5, <1>7 DEF Reads
<1>10. \A x : Reads(tk, s, b, e + 1, x) <=>
        \/ InLanguage(tk, s, b, e + 1) /\ x = <<2, "ACCEPT">>
        \/ Within(tk, s, b, e + 1) /\ x[2] = "HUNGRY" /\ x[1] = 1
        \/ ~InLanguage(tk, s, b, e + 1) /\ ~Within(tk, s, b, e + 1) /\ x[2] = "REJECT"
  BY <1>5, <1>7 DEF Reads
<1> HIDE DEF q
<1>11. CASE InLanguage(tk, s, b, e) /\ r = <<2, "ACCEPT">>
  BY <1>1, <1>2, <1>4, <1>6, <1>8, <1>10, <1>11
<1>12. CASE Within(tk, s, b, e) /\ r[2] = "HUNGRY" /\ r[1] = 1
  BY <1>1, <1>2, <1>4, <1>6, <1>10, <1>12
<1>13. CASE ~InLanguage(tk, s, b, e) /\ ~Within(tk, s, b, e) /\ r[2] = "REJECT"
  BY <1>1, <1>2, <1>4, <1>6, <1>10, <1>13
<1> QED
  BY <1>9, <1>11, <1>12, <1>13

LEMMA LineCommentReads ==
  ASSUME NEW tk, Kinds[tk] = "LCOM", NEW s, NEW b \in Nat, NEW e \in Nat, b < e,
         NEW r, Reads(tk, s, b, e, r)
  PROVE  Reads(tk, s, b, e + 1,
               IF r[2] = "REJECT" THEN r ELSE Step(tk, Char(s, e), r[1]))
<1> DEFINE q == Begins(s, b, "/", "/")
<1>1. b + 1 < e => (NoneIn(s, b + 2, e + 1, Eol)
                      <=> NoneIn(s, b + 2, e, Eol) /\ Char(s, e) \notin Eol)
  <2>1. b + 1 < e => b + 2 <= e
    OBVIOUS
  <2> QED
    BY <2>1, NoneInStep
<1>2. InLanguage(tk, s, b, e + 1)
        <=> q /\ b + 1 < e /\ Char(s, e) \in Eol /\ NoneIn(s, b + 2, e, Eol)
  <2>1. (e + 1) - 1 = e /\ b < e + 1 /\ (b + 2 < e + 1 <=> b + 1 < e)
    OBVIOUS
  <2> QED
    BY <2>1 DEF InLanguage
<1>3. InLanguage(tk, s, b, e) => Char(s, e - 1) \in Eol /\ b + 2 < e
  BY DEF InLanguage
<1>4. /\ Within(tk, s, b, e) <=> q /\ b + 1 < e /\ NoneIn(s, b + 2, e, Eol)
      /\ Within(tk, s, b, e + 1) <=> q /\ NoneIn(s, b + 2, e + 1, Eol)
  BY DEF Within
<1>5. \A x : ~Spelt(tk, s, b, x)
  BY DEF Spelt, Open
<1>6. /\ Slash(tk, s, b, e) <=> e = b + 1 /\ Char(s, b) = "/"
      /\ ~Slash(tk, s, b, e + 1)
  BY DEF Slash
<1>7. \A c :
        /\ Step(tk, c, 1) = IF c = "/" THEN <<2, "HUNGRY">> ELSE <<0, "REJECT">>
        /\ Step(tk, c, 2) = IF c \in Eol THEN <<3, "ACCEPT">> ELSE <<2, "HUNGRY">>
        /\ Step(tk, c, 3) = <<0, "REJECT">>
  BY DEF Step, TkLcom, Accept, Hungry, Reject, Eol
<1>8. InLanguage(tk, s, b, e) => ~NoneIn(s, b + 2, e, Eol)
  BY <1>3 DEF NoneIn
<1>9. e = b + 1 => /\ q <=> Char(s, b) = "/" /\ Char(s, e) = "/"
                   /\ NoneIn(s, b + 2, e + 1, Eol)
  BY DEF Begins, NoneIn
<1>10. b + 1 < e \/ e = b + 1
  OBVIOUS
<1>11. Reads(tk, s, b, e, r) <=>
        \/ InLanguage(tk, s, b, e) /\ r = <<3, "ACCEPT">>
        \/ Within(tk, s, b, e) /\ r[2] = "HUNGRY" /\ r[1] = 2
        \/ Slash(tk, s, b, e) /\ r = <<1, "HUNGRY">>
        \/ /\ ~InLanguage(tk, s, b, e) /\ ~Within(tk, s, b, e) /\ ~Slash(tk, s, b, e)
           /\ r[2] = "REJECT"
  BY <1>5 DEF Reads, Final
<1>12. \A x : Reads(tk, s, b, e + 1, x) <=>
        \/ InLanguage(tk, s, b, e + 1) /\ x = <<3, "ACCEPT">>
        \/ Within(tk, s, b, e + 1) /\ x[2] = "HUNGRY" /\ x[1] = 2
        \/ ~InLanguage(tk, s, b, e + 1) /\ ~Within(tk, s, b, e + 1) /\ x[2] = "REJECT"
  BY <1>5, <1>6 DEF Reads, Final
<1> HIDE DEF q
<1>13. CASE InLanguage(tk, s, b, e) /\ r = <<3, "ACCEPT">>
  BY <1>1, <1>2, <1>3, <1>4, <1>7, <1>8, <1>12, <1>13
<1>14. CASE Within(tk, s, b, e) /\ r[2] = "HUNGRY" /\ r[1] = 2
  BY <1>1, <1>2, <1>4, <1>7, <1>12, <1>14
<1>15. CASE Slash(tk, s, b, e) /\ r = <<1, "HUNGRY">>
  BY <1>2, <1>4, <1>6, <1>7, <1>9, <1>12, <1>15
<1>16. CASE /\ ~InLanguage(tk, s, b, e) /\ ~Within(tk, s, b, e) /\ ~Slash(tk, s, b, e)
            /\ r[2] = "REJECT"
  BY <1>1, <1>2, <1>4, <1>6, <1>9, <1>10, <1>12, <1>16
<1> QED
  BY <1>11, <1>13, <1>14, <1>15, <1>16

\* Of two numbers that follow one another one is odd
LEMMA Parity ==
  ASSUME NEW n \in Nat
  PROVE  (n + 1) % 2 = 1 <=> n % 2 # 1
OBVIOUS

\* A star more makes an even run of stars odd, and no run odd that was odd
LEMMA OddStep ==
  ASSUME NEW s, NEW b \in Nat, NEW j \in Nat, b <= j
  PROVE  OddStars(s, b, j + 1) <=> Char(s, j) = "*" /\ ~OddStars(s, b, j)
<1> DEFINE Star(i) == Char(s, i) = "*"
           Run(k, e) == /\ k \in b..e - 1
                        /\ \A i \in k..e - 1 : Star(i)
                        /\ k = b \/ ~Star(k - 1)
<1>1. \A e : OddStars(s, b, e) <=> \E k : Run(k, e) /\ (e - k) % 2 = 1
  BY DEF OddStars, AllIn
<1> HIDE DEF Star
<1>2. ASSUME OddStars(s, b, j + 1)
      PROVE  Star(j) /\ ~OddStars(s, b, j)
  <2>1. PICK k : Run(k, j + 1) /\ ((j + 1) - k) % 2 = 1
    BY <1>1, <1>2
  <2>2. k \in b..j /\ (j + 1) - 1 = j
    BY <2>1
  <2>3. Star(j)
    BY <2>1, <2>2
  <2>4. ASSUME NEW h, Run(h, j), (j - h) % 2 = 1
        PROVE  FALSE
    <3>1. h \in b..j - 1
      BY <2>4
    <3>2. CASE h < k
      <4>1. k # b /\ k - 1 \in h..j - 1
        BY <2>2, <3>1, <3>2
      <4> QED
        BY <2>1, <2>4, <4>1
    <3>3. CASE k < h
      <4>1. h # b /\ h - 1 \in k..(j + 1) - 1
        BY <2>2, <3>1, <3>3
      <4> QED
        BY <2>1, <2>4, <4>1
    <3>4. CASE h = k
      <4>1. j - h \in Nat /\ (j + 1) - k = (j - h) + 1
        BY <2>2, <3>1, <3>4
      <4> QED
        BY <2>1, <2>4, <4>1, Parity
    <3> QED
      BY <2>2, <3>1, <3>2, <3>3, <3>4
  <2> QED
    BY <1>1, <2>3, <2>4
<1>3. ASSUME Star(j), ~OddStars(s, b, j)
      PROVE  OddStars(s, b, j + 1)
  <2> DEFINE T == {k \in b..j : \A i \in k..j - 1 : Star(i)}
  <2>1. j \in T /\ T \subseteq Nat
    OBVIOUS
  <2>2. PICK k \in T : \A y \in T : k <= y
    BY <2>1, LeastElement
  <2>3. k \in b..j /\ \A i \in k..j - 1 : Star(i)
    OBVIOUS
  <2>4. k = b \/ ~Star(k - 1)
    <3>1. SUFFICES ASSUME k # b, Star(k - 1) PROVE FALSE
      OBVIOUS
    <3>2. k - 1 \in b..j /\ ~(k <= k - 1) /\ k - 1 \in Nat
      BY <2>3, <3>1
    <3>3. \A i \in (k - 1)..j - 1 : i = k - 1 \/ i \in k..j - 1
      BY <2>3
    <3>4. k - 1 \in T
      BY <2>3, <3>1, <3>2, <3>3
    <3> QED
      BY <2>2, <3>2, <3>4
  <2>5. Run(k, j + 1)
    <3>1. \A i \in k..(j + 1) - 1 : i = j \/ i \in k..j - 1
      BY <2>3
    <3>2. k \in b..(j + 1) - 1
      BY <2>3
    <3> QED
      BY <1>3, <2>3, <2>4, <3>1, <3>2
  <2>6. (j - k) % 2 # 1
    <3>1. CASE k = j
      BY <3>1
    <3>2. CASE k # j
      <4>1. Run(k, j)
        BY <2>3, <2>4, <3>2
      <4> QED
        BY <1>1, <1>3, <4>1
    <3> QED
      BY <3>1, <3>2
  <2>7. ((j + 1) - k) % 2 = 1
    <3>1. j - k \in Nat /\ (j + 1) - k = (j - k) + 1
      BY <2>3
    <3> QED
      BY <2>6, <3>1, Parity
  <2> QED
    BY <1>1, <2>5, <2>7
<1> QED
  BY <1>2, <1>3 DEF Star

LEMMA BlockCommentReads ==
  ASSUME NEW tk, Kinds[tk] = "BCOM", NEW s, NEW b \in Nat, NEW e \in Nat, b < e,
         NEW r, Reads(tk, s, b, e, r)
  PROVE  Reads(tk, s, b, e + 1,
               IF r[2] = "REJECT" THEN r ELSE Step(tk, Char(s, e), r[1]))
<1> DEFINE q == Begins(s, b, "/", "*")
           Shut(j) == Closes(s, b + 2, j)
           Not(x) == \A j \in b + 2..x - 1 : ~Shut(j)
           Odd(x) == OddStars(s, b + 2, x)
<1>1. b + 1 < e => (Not(e + 1) <=> Not(e) /\ ~Shut(e))
  <2>1. b + 1 < e => \A j : j \in b + 2..(e + 1) - 1 <=> j \in b + 2..e - 1 \/ j = e
    OBVIOUS
  <2> QED
    BY <2>1
<1>2. InLanguage(tk, s, b, e + 1) <=> q /\ b + 1 < e /\ Shut(e) /\ Not(e)
  <2>1. /\ (e + 1) - 1 = e /\ (e + 1) - 2 = e - 1
        /\ b < e + 1 /\ (b + 2 < e + 1 <=> b + 1 < e)
    OBVIOUS
  <2> QED
    BY <2>1 DEF InLanguage
<1>3. InLanguage(tk, s, b, e) => Shut(e - 1) /\ b + 2 < e
  BY DEF InLanguage
<1>4. /\ Within(tk, s, b, e) <=> q /\ b + 1 < e /\ Not(e)
      /\ Within(tk, s, b, e + 1) <=> q /\ Not(e + 1)
  BY DEF Within
<1>5. \A x : ~Spelt(tk, s, b, x)
  BY DEF Spelt, Open
<1>6. /\ Slash(tk, s, b, e) <=> e = b + 1 /\ Char(s, b) = "/"
      /\ ~Slash(tk, s, b, e + 1)
  BY DEF Slash
<1>7. \A c :
        /\ Step(tk, c, 1) = IF c = "*" THEN <<2, "HUNGRY">> ELSE <<0, "REJECT">>
        /\ Step(tk, c, 2) = <<IF c = "*" THEN 3 ELSE 2, "HUNGRY">>
        /\ Step(tk, c, 3) = IF c = "/" THEN <<4, "ACCEPT">> ELSE <<2, "HUNGRY">>
        /\ Step(tk, c, 4) = <<0, "REJECT">>
  BY DEF Step, TkBcom, Accept, Hungry, Reject
<1>8. InLanguage(tk, s, b, e) => ~Not(e)
  BY <1>3
<1>9. e = b + 1 => /\ q <=> Char(s, b) = "/" /\ Char(s, e) = "*"
                   /\ Not(e + 1) /\ ~Odd(e + 1)
  BY DEF Begins, OddStars
<1>10. b + 1 < e \/ e = b + 1
  OBVIOUS
<1>11. b + 1 < e => (Odd(e + 1) <=> Char(s, e) = "*" /\ ~Odd(e))
  <2>1. b + 1 < e => b + 2 \in Nat /\ b + 2 <= e
    OBVIOUS
  <2> QED
    BY <2>1, OddStep
<1>12. Shut(e) <=> Char(s, e) = "/" /\ Odd(e)
  BY DEF Closes
<1>13. Reads(tk, s, b, e, r) <=>
        \/ InLanguage(tk, s, b, e) /\ r = <<4, "ACCEPT">>
        \/ Within(tk, s, b, e) /\ r[2] = "HUNGRY" /\ r[1] = IF Odd(e) THEN 3 ELSE 2
        \/ Slash(tk, s, b, e) /\ r = <<1, "HUNGRY">>
        \/ /\ ~InLanguage(tk, s, b, e) /\ ~Within(tk, s, b, e) /\ ~Slash(tk, s, b, e)
           /\ r[2] = "REJECT"
  BY <1>5 DEF Reads, Final
<1>14. \A x : Reads(tk, s, b, e + 1, x) <=>
        \/ InLanguage(tk, s, b, e + 1) /\ x = <<4, "ACCEPT">>
        \/ Within(tk, s, b, e + 1) /\ x[2] = "HUNGRY" /\ x[1] = IF Odd(e + 1) THEN 3 ELSE 2
        \/ ~InLanguage(tk, s, b, e + 1) /\ ~Within(tk, s, b, e + 1) /\ x[2] = "REJECT"
  BY <1>5, <1>6 DEF Reads, Final
<1> HIDE DEF q, Shut, Not, Odd
<1>15. CASE InLanguage(tk, s, b, e) /\ r = <<4, "ACCEPT">>
  BY <1>1, <1>2, <1>3, <1>4, <1>7, <1>8, <1>14, <1>15
<1>16. CASE Within(tk, s, b, e) /\ r[2] = "HUNGRY" /\ r[1] = IF Odd(e) THEN 3 ELSE 2
  <2>1. r[2] # "REJECT" /\ q /\ b + 1 < e /\ Not(e)
    BY <1>4, <1>16
  <2>2. CASE Odd(e) /\ Char(s, e) = "/"
    BY <1>2, <1>7, <1>12, <1>14, <1>16, <2>1, <2>2
  <2>3. CASE Odd(e) /\ Char(s, e) # "/"
    BY <1>1, <1>4, <1>7, <1>11, <1>12, <1>14, <1>16, <2>1, <2>3
  <2>4. CASE ~Odd(e)
    BY <1>1, <1>4, <1>7, <1>11, <1>12, <1>14, <1>16, <2>1, <2>4
  <2> QED
    BY <2>2, <2>3, <2>4
<1>17. CASE Slash(tk, s, b, e) /\ r = <<1, "HUNGRY">>
  BY <1>2, <1>4, <1>6, <1>7, <1>9, <1>14, <1>17
<1>18. CASE /\ ~InLanguage(tk, s, b, e) /\ ~Within(tk, s, b, e) /\ ~Slash(tk, s, b, e)
            /\ r[2] = "REJECT"
  BY <1>1, <1>2, <1>4, <1>6, <1>9, <1>10, <1>14, <1>18
<1> QED
  BY <1>13, <1>15, <1>16, <1>17, <1>18

LEMMA LiteralReads ==
  ASSUME NEW tk \in Tks, Kinds[tk] \notin Open,
         NEW s, NEW b \in Nat, NEW e \in Nat, b < e,
         NEW r, Reads(tk, s, b, e, r)
  PROVE  Reads(tk, s, b, e + 1,
               IF r[2] = "REJECT" THEN r ELSE Step(tk, Char(s, e), r[1]))
<1> DEFINE lit == LiteralOf(tk)
           L == Len(lit)
           Same(x) == \A i \in 1..(x - b) : Char(s, b + i - 1) = Char(lit, i)
<1>1. L \in Nat
  BY LiteralsAssumption
<1> HIDE DEF L
<1>2. Same(e + 1) <=> Same(e) /\ Char(s, e) = Char(lit, e - b + 1)
  <2>1. \A i : i \in 1..((e + 1) - b) <=> i \in 1..(e - b) \/ i = e - b + 1
    OBVIOUS
  <2>2. b + (e - b + 1) - 1 = e
    OBVIOUS
  <2> QED
    BY <2>1, <2>2
<1>3. \A x \in {e, e + 1} :
        /\ InLanguage(tk, s, b, x) <=> x - b = L /\ Same(x)
        /\ ~Within(tk, s, b, x) /\ ~Slash(tk, s, b, x)
        /\ Spelt(tk, s, b, x) <=> x - b <= L /\ Same(x)
        /\ Final(tk, b, x) = x - b
  BY DEF InLanguage, Within, Slash, Spelt, Final, Open, L
<1>4. \A c : Step(tk, c, e - b)
        = IF e - b < L /\ c = Char(lit, e - b + 1)
          THEN IF e - b + 1 = L THEN <<e - b + 1, "ACCEPT">>
               ELSE <<e - b + 1, "HUNGRY">>
          ELSE <<0, "REJECT">>
  BY DEF Step, TkLiteral, Accept, Hungry, Reject, Open, Char, L
<1>5. /\ e - b \in Nat /\ (e + 1) - b = e - b + 1
      /\ e \in {e, e + 1} /\ e + 1 \in {e, e + 1}
  OBVIOUS
<1>6. \A x \in {e, e + 1} : \A y : Reads(tk, s, b, x, y) <=>
        \/ x - b = L /\ Same(x) /\ y = <<x - b, "ACCEPT">>
        \/ x - b < L /\ Same(x) /\ y = <<x - b, "HUNGRY">>
        \/ ~(x - b <= L /\ Same(x)) /\ y[2] = "REJECT"
  BY SMTT(30), <1>1, <1>3 DEF Reads, L
<1> HIDE DEF Same, lit
<1>7. CASE e - b = L /\ Same(e) /\ r = <<e - b, "ACCEPT">>
  BY <1>1, <1>4, <1>5, <1>6, <1>7
<1>8. CASE e - b < L /\ Same(e) /\ r = <<e - b, "HUNGRY">>
  BY <1>1, <1>2, <1>4, <1>5, <1>6, <1>8
<1>9. CASE ~(e - b <= L /\ Same(e)) /\ r[2] = "REJECT"
  BY <1>1, <1>2, <1>5, <1>6, <1>9
<1> QED
  BY <1>5, <1>6, <1>7, <1>8, <1>9

\* The first character
LEMMA FirstReads ==
  ASSUME NEW tk \in Tks, NEW s, NEW b \in Nat
  PROVE  Reads(tk, s, b, b + 1, Step(tk, Char(s, b), 0))
<1> DEFINE c == Char(s, b)
           k == Kinds[tk]
<1>1. \A C : AllIn(s, b, b + 1, C) <=> c \in C
  <2>1. b..(b + 1) - 1 = {b}
    OBVIOUS
  <2> QED
    BY <2>1 DEF AllIn
<1>0. b < b + 1 /\ c = Char(s, b)
  OBVIOUS
<1> HIDE DEF c
<1>2. CASE k = "NAME"
  <2>1. InLanguage(tk, s, b, b + 1) <=> c \notin Digit /\ c \in Wordly
    BY <1>0, <1>1, <1>2 DEF InLanguage
  <2>2. Step(tk, c, 0) = IF c \in Alpha \cup {"_"} THEN <<1, "ACCEPT">> ELSE <<0, "REJECT">>
    BY <1>2 DEF Step, TkName, Accept, Reject
  <2>3. c \in Alpha \cup {"_"} <=> c \notin Digit /\ c \in Wordly
    BY ZenonT(40) DEF Wordly, Alpha, Digit
  <2>4. ~Within(tk, s, b, b + 1) /\ ~Slash(tk, s, b, b + 1) /\ ~Spelt(tk, s, b, b + 1)
    BY <1>2 DEF Within, Slash, Spelt, Open
  <2> QED
    <3>1. CASE c \in Alpha \cup {"_"}
      BY <1>0, <1>2, <2>1, <2>2, <2>3, <3>1 DEF Reads, Final
    <3>2. CASE c \notin Alpha \cup {"_"}
      <4>0. Step(tk, c, 0) = <<0, "REJECT">>
        BY <2>2, <3>2, Zenon
      <4>1. Step(tk, c, 0)[2] = "REJECT"
        BY <4>0
      <4>2. ~InLanguage(tk, s, b, b + 1)
        BY <2>1, <2>3, <3>2
      <4> QED
        BY <1>0, <2>4, <4>1, <4>2 DEF Reads
    <3> QED
      BY <3>1, <3>2
<1>3. CASE k \in {"NMBR", "WSPC"}
  <2>1. /\ k = "NMBR" => (InLanguage(tk, s, b, b + 1) <=> c \in Digit)
        /\ k = "WSPC" => (InLanguage(tk, s, b, b + 1) <=> c \in Wspace)
    BY <1>0, <1>1, <1>3 DEF InLanguage
  <2>2. /\ k = "NMBR" =>
             Step(tk, c, 0) = IF c \in Digit THEN <<0, "ACCEPT">> ELSE <<0, "REJECT">>
        /\ k = "WSPC" =>
             Step(tk, c, 0) = IF c \in Wspace THEN <<1, "ACCEPT">> ELSE <<0, "REJECT">>
    BY <1>3 DEF Step, TkNmbr, TkWspc, Accept, Reject
  <2>3. ~Within(tk, s, b, b + 1) /\ ~Slash(tk, s, b, b + 1) /\ ~Spelt(tk, s, b, b + 1)
    BY <1>3 DEF Within, Slash, Spelt, Open
  <2> QED
    BY <1>0, <1>3, <2>1, <2>2, <2>3 DEF Reads, Final
<1>4. CASE k = "STRL"
  <2>1. ~InLanguage(tk, s, b, b + 1)
    BY <1>4 DEF InLanguage
  <2>2. Within(tk, s, b, b + 1) <=> c = Quote
    BY <1>0, <1>4 DEF Within, NoneIn
  <2>3. Step(tk, c, 0) = IF c = Quote THEN <<1, "HUNGRY">> ELSE <<0, "REJECT">>
    BY <1>4 DEF Step, TkStrl, Hungry, Reject
  <2>4. ~Slash(tk, s, b, b + 1) /\ ~Spelt(tk, s, b, b + 1)
    BY <1>4 DEF Slash, Spelt, Open
  <2> QED
    BY <1>0, <1>4, <2>1, <2>2, <2>3, <2>4 DEF Reads
<1>5. CASE k \in {"LCOM", "BCOM"}
  <2>1. ~InLanguage(tk, s, b, b + 1)
    BY <1>5 DEF InLanguage
  <2>2. Slash(tk, s, b, b + 1) <=> c = "/"
    BY <1>0, <1>5 DEF Slash
  <2>3. Step(tk, c, 0) = IF c = "/" THEN <<1, "HUNGRY">> ELSE <<0, "REJECT">>
    BY <1>5 DEF Step, TkLcom, TkBcom, Hungry, Reject
  <2>4. ~Within(tk, s, b, b + 1) /\ ~Spelt(tk, s, b, b + 1)
    BY <1>5 DEF Within, Spelt, Open
  <2> QED
    BY <1>0, <2>1, <2>2, <2>3, <2>4 DEF Reads
<1>6. CASE k \notin Open
  <2> DEFINE lit == LiteralOf(tk)
             L == Len(lit)
  <2>1. L \in Nat /\ L # 0
    BY <1>6, LiteralsAssumption
  <2> HIDE DEF L
  <2>2. (b + 1) - b = 1 /\ \A i \in 1..1 : i = 1 /\ b + i - 1 = b
    OBVIOUS
  <2>3. /\ InLanguage(tk, s, b, b + 1) <=> L = 1 /\ c = Char(lit, 1)
        /\ Spelt(tk, s, b, b + 1) <=> c = Char(lit, 1)
        /\ ~Within(tk, s, b, b + 1) /\ ~Slash(tk, s, b, b + 1)
        /\ Final(tk, b, b + 1) = 1
    <3>1. (\A i \in 1..((b + 1) - b) : Char(s, b + i - 1) = Char(lit, i))
            <=> c = Char(lit, 1)
      BY <1>0, <2>2
    <3>2. InLanguage(tk, s, b, b + 1)
            <=> (b + 1) - b = L /\ \A i \in 1..((b + 1) - b) :
                                    Char(s, b + i - 1) = Char(lit, i)
      BY <1>0, <1>6 DEF InLanguage, Open, L
    <3>3. Spelt(tk, s, b, b + 1)
            <=> (b + 1) - b <= L /\ \A i \in 1..((b + 1) - b) :
                                    Char(s, b + i - 1) = Char(lit, i)
      BY <1>6 DEF Spelt, L
    <3>4. ~Within(tk, s, b, b + 1) /\ ~Slash(tk, s, b, b + 1)
      BY <1>6 DEF Within, Slash, Open
    <3>5. Final(tk, b, b + 1) = 1
      BY <1>6, <2>2 DEF Final, Open
    <3> QED
      BY <2>1, <2>2, <3>1, <3>2, <3>3, <3>4, <3>5
  <2>4. Step(tk, c, 0) = IF c = Char(lit, 1)
                         THEN IF L = 1 THEN <<1, "ACCEPT">> ELSE <<1, "HUNGRY">>
                         ELSE <<0, "REJECT">>
    <3>1. Step(tk, c, 0) = TkLiteral(lit, c, 0)
      BY <1>6 DEF Step, Open
    <3>2. 0 + 1 = 1 /\ 0 < L
      BY <2>1
    <3>3. TkLiteral(lit, c, 0) = IF c = SubSeq(lit, 1, 1)
                                 THEN IF L = 1 THEN <<1, "ACCEPT">> ELSE <<1, "HUNGRY">>
                                 ELSE <<0, "REJECT">>
      BY <3>2 DEF TkLiteral, Accept, Hungry, Reject, L
    <3> QED
      BY <3>1, <3>3 DEF Char
  <2> QED
    <3>1. CASE c = Char(lit, 1) /\ L = 1
      <4>1. InLanguage(tk, s, b, b + 1) /\ Step(tk, c, 0) = <<1, "ACCEPT">>
        BY <2>3, <2>4, <3>1
      <4> QED
        BY <1>0, <2>3, <4>1 DEF Reads
    <3>2. CASE c = Char(lit, 1) /\ L # 1
      <4>1. Spelt(tk, s, b, b + 1) /\ Step(tk, c, 0) = <<1, "HUNGRY">>
        BY <2>3, <2>4, <3>2
      <4>2. (b + 1) - b < L
        BY <2>1, <2>2, <3>2
      <4> QED
        BY <1>0, <2>2, <4>1, <4>2 DEF Reads, L
    <3>3. CASE c # Char(lit, 1)
      <4>1. Step(tk, c, 0)[2] = "REJECT"
        BY <2>4, <3>3
      <4> QED
        BY <1>0, <2>3, <3>3, <4>1 DEF Reads
    <3> QED
      BY <3>1, <3>2, <3>3
<1> QED
  BY <1>2, <1>3, <1>4, <1>5, <1>6 DEF Open

\* What an automaton has made of the text so far
LEMMA AutomatonReads ==
  ASSUME NEW s, Len(s) \in Nat, NEW tk \in Tks, NEW b \in 1..Len(s)
  PROVE  \A e \in (b + 1)..(Len(s) + 1) : Reads(tk, s, b, e, Alone(s, tk, b)[e])
<1> DEFINE n == Len(s) + 1
           run == Alone(s, tk, b)
           S == {e \in (b + 1)..n : Reads(tk, s, b, e, run[e])}
<1>1. n \in Nat /\ b \in Nat /\ b + 1 \in Nat /\ b < n /\ b \in 1..n /\ b \in b..Len(s)
  OBVIOUS
<1>2. b + 1 \in S
  <2>1. run[b] = <<0, "HUNGRY">>
    BY <1>1, RunBegins
  <2>2. run[b + 1] = Step(tk, Char(s, b), 0)
    <3>1. run[b + 1] = IF run[b][2] = "REJECT" THEN run[b]
                       ELSE Step(tk, Char(s, b), run[b][1])
      BY <1>1, RunStep
    <3> QED
      BY <2>1, <3>1
  <2> QED
    BY <1>1, <2>2, FirstReads
<1>3. ASSUME NEW e \in (b + 1)..n, e \in S, e < n
      PROVE  e + 1 \in S
  <2>1. e \in b..Len(s) /\ e \in Nat /\ b < e /\ e + 1 \in (b + 1)..n
    BY <1>1, <1>3
  <2>2. run[e + 1] = IF run[e][2] = "REJECT" THEN run[e]
                     ELSE Step(tk, Char(s, e), run[e][1])
    BY <1>1, <2>1, RunStep
  <2>3. Reads(tk, s, b, e, run[e])
    BY <1>3
  <2> HIDE DEF run
  <2>4. Reads(tk, s, b, e + 1, IF run[e][2] = "REJECT" THEN run[e]
                               ELSE Step(tk, Char(s, e), run[e][1]))
    <3>1. CASE Kinds[tk] = "NAME"
      BY <1>1, <2>1, <2>3, <3>1, NameReads
    <3>2. CASE Kinds[tk] \in {"NMBR", "WSPC"}
      BY <1>1, <2>1, <2>3, <3>2, NumberReads
    <3>3. CASE Kinds[tk] = "STRL"
      BY <1>1, <2>1, <2>3, <3>3, StringReads
    <3>4. CASE Kinds[tk] = "LCOM"
      BY <1>1, <2>1, <2>3, <3>4, LineCommentReads
    <3>5. CASE Kinds[tk] = "BCOM"
      BY <1>1, <2>1, <2>3, <3>5, BlockCommentReads
    <3>6. CASE Kinds[tk] \notin Open
      BY <1>1, <2>1, <2>3, <3>6, LiteralReads
    <3> QED
      BY <3>1, <3>2, <3>3, <3>4, <3>5, <3>6 DEF Open
  <2> QED
    BY <2>1, <2>2, <2>4
<1> HIDE DEF S, n
<1>4. \A e \in (b + 1)..n : e \in S
  BY <1>1, <1>2, <1>3, Upward
<1> QED
  BY <1>4 DEF S, n

\* What is a token is complete
LEMMA Complete ==
  ASSUME NEW tk, NEW s, NEW b \in Nat, NEW e \in Nat, InLanguage(tk, s, b, e)
  PROVE  /\ ~Within(tk, s, b, e) /\ ~Slash(tk, s, b, e)
         /\ Kinds[tk] \notin Open => e - b = Len(LiteralOf(tk))
<1>1. CASE Kinds[tk] = "STRL"
  <2>1. e - 1 \in (b + 1)..(e - 1) /\ Char(s, e - 1) \in {Quote}
    BY <1>1 DEF InLanguage
  <2> QED
    BY <1>1, <2>1 DEF Within, Slash, NoneIn, Open
<1>2. CASE Kinds[tk] = "LCOM"
  <2>1. e - 1 \in (b + 2)..(e - 1) /\ Char(s, e - 1) \in Eol /\ e # b + 1
    BY <1>2 DEF InLanguage
  <2> QED
    BY <1>2, <2>1 DEF Within, Slash, NoneIn, Open
<1>3. CASE Kinds[tk] = "BCOM"
  <2>1. e - 1 \in (b + 2)..(e - 1) /\ Closes(s, b + 2, e - 1) /\ e # b + 1
    BY <1>3 DEF InLanguage
  <2> QED
    BY <1>3, <2>1 DEF Within, Slash, Open
<1>4. CASE Kinds[tk] \notin {"STRL", "LCOM", "BCOM"}
  BY <1>4 DEF InLanguage, Within, Slash, Open
<1> QED
  BY <1>1, <1>2, <1>3, <1>4

\* An automaton has accepted where what it has read is in its language, and only
\* there: no state or status is forgotten, none too many is taken for the end
THEOREM AcceptsLanguage ==
  ASSUME NEW s, Len(s) \in Nat, NEW tk \in Tks, NEW b \in 1..Len(s),
         NEW e \in (b + 1)..(Len(s) + 1)
  PROVE  Alone(s, tk, b)[e][2] = "ACCEPT" <=> InLanguage(tk, s, b, e)
<1> DEFINE r == Alone(s, tk, b)[e]
<1>1. Reads(tk, s, b, e, r)
  BY AutomatonReads
<1>2. InLanguage(tk, s, b, e) =>
        /\ ~Within(tk, s, b, e) /\ ~Slash(tk, s, b, e)
        /\ Kinds[tk] \notin Open => e - b = Len(LiteralOf(tk))
  BY Complete
<1> HIDE DEF r
<1>3. InLanguage(tk, s, b, e) => r = <<Final(tk, b, e), "ACCEPT">>
  BY <1>1, <1>2 DEF Reads, Spelt
<1>4. r[2] = "ACCEPT" => InLanguage(tk, s, b, e)
  BY <1>1 DEF Reads
<1> QED
  BY <1>3, <1>4 DEF r

\* What has rejected never accepts again
LEMMA RejectsForGood ==
  ASSUME NEW s, Len(s) \in Nat, NEW tk \in Tks, NEW b \in 1..Len(s),
         NEW e \in (b + 1)..(Len(s) + 1), Alone(s, tk, b)[e][2] = "REJECT"
  PROVE  \A x \in e..(Len(s) + 1) : ~InLanguage(tk, s, b, x)
<1> DEFINE n == Len(s) + 1
           run == Alone(s, tk, b)
           S == {x \in e..n : run[x][2] = "REJECT"}
<1>1. n \in Nat /\ e \in Nat /\ e \in e..n /\ b \in 1..n
  OBVIOUS
<1>2. e \in S
  BY <1>1
<1>3. ASSUME NEW x \in e..n, x \in S, x < n
      PROVE  x + 1 \in S
  <2>1. x \in b..Len(s) /\ x + 1 \in e..n
    BY <1>1, <1>3
  <2>2. run[x + 1] = run[x]
    BY <1>1, <1>3, <2>1, RunStep
  <2> QED
    BY <1>3, <2>1, <2>2
<1>4. \A x \in e..n : x \in S
  <2> HIDE DEF S, n
  <2> QED
    BY <1>1, <1>2, <1>3, Upward
<1>5. \A x \in e..n : x \in (b + 1)..n /\ run[x][2] = "REJECT"
  BY <1>4
<1> HIDE DEF run
<1> QED
  BY <1>5, AcceptsLanguage DEF run

-------------------------------------------------------------------------------
(***************************************************************************)
(* The tokens                                                              *)
(***************************************************************************)

\* A name is the first kind there is, and every kind is one
LEMMA KindsApart ==
  ASSUME NEW tk \in Tks
  PROVE  /\ Kinds[tk] = "NAME" => tk = 1
         /\ Kinds[tk] # "COUNT"
<1> DEFINE f == [i \in DOMAIN Literals |-> Literals[i][1]]
           g == <<"NAME", "NMBR", "STRL", "WSPC", "LCOM", "BCOM">>
           S == {f[i] : i \in DOMAIN Literals}
<1>1. Len(Literals) \in Nat /\ DOMAIN Literals = 1..Len(Literals)
  BY DEF Literals
<1>2. f \in Seq(S)
  BY <1>1
<1>3. \A i \in DOMAIN f : f[i] \notin {"NAME", "COUNT"}
  BY LiteralsAssumption
<1>4. g \in Seq(Open) /\ Len(g) = 6 /\ \A i \in 1..6 : g[i] = "NAME" => i = 1
  BY DEF Open
<1>5. \A i \in 1..6 : g[i] # "COUNT"
  OBVIOUS
<1> HIDE DEF f, g, S
<1>6. Kinds = g \o f
  BY DEF Kinds, f, g
<1>7. DOMAIN f = 1..Len(f) /\ Len(f) \in Nat /\ Len(g \o f) = 6 + Len(f)
  <2>1. DOMAIN f = 1..Len(f) /\ Len(f) \in Nat
    BY <1>2
  <2>2. f \in Seq(S \cup Open) /\ g \in Seq(S \cup Open)
    BY <1>2, <1>4
  <2>3. Len(g \o f) = Len(g) + Len(f)
    BY <2>2
  <2> QED
    BY <1>4, <2>1, <2>3
<1>8. tk \in 1..(6 + Len(f))
  BY <1>6, <1>7 DEF Tks
<1>9. CASE tk \in 1..6
  <2>1. Kinds[tk] = g[tk]
    BY <1>2, <1>4, <1>6, <1>7, <1>9
  <2> QED
    BY <1>4, <1>5, <1>9, <2>1
<1>10. CASE tk \notin 1..6
  <2>1. tk - 6 \in DOMAIN f
    BY <1>7, <1>8, <1>10
  <2>2. Kinds[tk] = f[tk - 6]
    BY <1>2, <1>4, <1>6, <1>7, <1>8, <1>10
  <2> QED
    BY <1>3, <2>1, <2>2
<1> QED
  BY <1>9, <1>10

\* What the automata say of a place is what the languages say of it
LEMMA VerdictLanguage ==
  ASSUME Len(text) \in Nat, NEW b \in 1..Len(text), NEW e \in (b + 1)..(Len(text) + 1),
         NEW tk \in Tks
  PROVE  /\ Verdict(b, e)[tk].curr = "ACCEPT" <=> InLanguage(tk, text, b, e)
         /\ Verdict(b, e)[tk].curr = "REJECT" =>
              \A x \in e..(Len(text) + 1) : ~InLanguage(tk, text, b, x)
<1>1. Verdict(b, e)[tk].curr = Alone(text, tk, b)[e][2]
  BY DEF Verdict
<1> QED
  BY <1>1, AcceptsLanguage, RejectsForGood

\* A token that is taken is of its kind, and is the longest there
LEMMA TakenLongest ==
  ASSUME Len(text) \in Nat, NEW b \in 1..Len(text), NEW e \in (b + 1)..(Len(text) + 1),
         NEW kind, kind # "COUNT", Taken(kind, b, e)
  PROVE  /\ kind \in KindsOf(text, b, e)
         /\ kind = "NAME" => KindsOf(text, b, e) = {"NAME"}
         /\ \A end \in e + 1..Len(text) + 1 : ~IsToken(text, b, end)
<1> DEFINE V == Verdict(b, e)
<1>1. \A u \in Tks : V[u]["curr"] = "ACCEPT" <=> InLanguage(u, text, b, e)
  BY VerdictLanguage
<1>2. e <= Len(text) => \A u \in Tks : Verdict(b, e + 1)[u].curr = "REJECT"
  BY DEF Taken
<1>3. kind = Winner(V, "curr")
  BY DEF Taken
<1> HIDE DEF V
<1>4. PICK tk \in Tks :
        /\ V[tk]["curr"] = "ACCEPT" /\ kind = Kinds[tk]
        /\ \A u \in Tks : V[u]["curr"] = "ACCEPT" => u <= tk
  BY <1>3, WinnerMark
<1>5. kind \in KindsOf(text, b, e)
  BY <1>1, <1>4 DEF KindsOf
<1>6. ASSUME kind = "NAME"
      PROVE  KindsOf(text, b, e) = {"NAME"}
  <2>1. tk = 1
    BY <1>4, <1>6, KindsApart
  <2>2. ASSUME NEW u \in Tks, InLanguage(u, text, b, e)
        PROVE  u = 1
    <3>1. u <= 1
      BY <1>1, <1>4, <2>1, <2>2
    <3>2. u \in Nat /\ u >= 1
      BY KindsLength DEF Tks
    <3> QED
      BY <3>1, <3>2
  <2>3. Kinds[1] = "NAME"
    BY <1>4, <1>6, <2>1
  <2> QED
    BY <1>5, <1>6, <2>2, <2>3 DEF KindsOf
<1>7. ASSUME NEW end \in e + 1..Len(text) + 1
      PROVE  ~IsToken(text, b, end)
  <2>1. e <= Len(text) /\ e + 1 \in (b + 1)..(Len(text) + 1)
        /\ end \in (e + 1)..(Len(text) + 1)
    OBVIOUS
  <2>2. \A u \in Tks : Verdict(b, e + 1)[u].curr = "REJECT"
    BY <1>2, <2>1
  <2> QED
    BY <2>1, <2>2, VerdictLanguage DEF IsToken
<1> QED
  BY <1>5, <1>6, <1>7

\* Inside a string or a comment any character goes on or ends it
LEMMA WithinGoesOn ==
  ASSUME NEW tk, NEW s, NEW b \in Nat, NEW e \in Nat, Within(tk, s, b, e)
  PROVE  Within(tk, s, b, e + 1) \/ InLanguage(tk, s, b, e + 1)
<1>1. (e + 1) - 1 = e /\ b < e + 1
  BY DEF Within
<1>2. CASE Kinds[tk] = "STRL"
  <2>1. b < e /\ Char(s, b) = Quote /\ NoneIn(s, b + 1, e, {Quote})
    BY <1>2 DEF Within
  <2>2. b + 1 \in Int /\ e \in Int /\ b + 1 <= e
    BY <2>1
  <2>3. NoneIn(s, b + 1, e + 1, {Quote})
          <=> NoneIn(s, b + 1, e, {Quote}) /\ Char(s, e) \notin {Quote}
    BY <2>2, NoneInStep
  <2>4. b < e + 1 /\ b + 1 < e + 1
    BY <2>1
  <2> QED
    BY <1>1, <1>2, <2>1, <2>3, <2>4 DEF Within, InLanguage
<1>3. CASE Kinds[tk] = "LCOM"
  <2>1. b + 1 < e /\ Begins(s, b, "/", "/") /\ NoneIn(s, b + 2, e, Eol)
    BY <1>3 DEF Within
  <2>2. b + 2 \in Int /\ e \in Int /\ b + 2 <= e
    BY <2>1
  <2>3. NoneIn(s, b + 2, e + 1, Eol)
          <=> NoneIn(s, b + 2, e, Eol) /\ Char(s, e) \notin Eol
    BY <2>2, NoneInStep
  <2>4. b + 1 < e + 1 /\ b + 2 < e + 1
    BY <2>1
  <2> QED
    BY <1>1, <1>3, <2>1, <2>3, <2>4 DEF Within, InLanguage
<1>4. CASE Kinds[tk] = "BCOM"
  <2>1. /\ b + 1 < e /\ Begins(s, b, "/", "*")
        /\ \A j \in b + 2..e - 1 : ~Closes(s, b + 2, j)
    BY <1>4 DEF Within
  <2>2. b + 1 < e + 1 /\ b + 2 < e + 1 /\ (e + 1) - 2 = e - 1
    BY <2>1
  <2>3. \A j \in b + 2..e : j = e \/ j \in b + 2..e - 1
    BY <2>1
  <2>4. CASE Closes(s, b + 2, e)
    BY <1>1, <1>4, <2>1, <2>2, <2>4 DEF InLanguage
  <2>5. CASE ~Closes(s, b + 2, e)
    BY <1>1, <1>4, <2>1, <2>2, <2>3, <2>5 DEF Within
  <2> QED
    BY <2>4, <2>5
<1> QED
  BY <1>2, <1>3, <1>4 DEF Within

\* What begins like a fixed token is a name or a fixed token if the beginning is
LEMMA SpeltSame ==
  ASSUME NEW u \in Tks, Kinds[u] \notin Open \ {"NAME"},
         NEW lit, NEW s, NEW b \in Nat, NEW k \in Nat \ {0},
         \A i \in 1..k : Char(s, b + i - 1) = Char(lit, i),
         InLanguage(u, lit, 1, k + 1)
  PROVE  InLanguage(u, s, b, b + k)
<1>1. 1 \in 1..k /\ b + 1 - 1 = b /\ b < b + k
      /\ (b + k) - b = k /\ (k + 1) - 1 = k /\ k \in Nat
  OBVIOUS
<1>2. CASE Kinds[u] = "NAME"
  <2>1. Char(lit, 1) \notin Digit /\ AllIn(lit, 1, k + 1, Wordly)
    BY <1>2 DEF InLanguage
  <2>2. Char(s, b) \notin Digit
    BY <1>1, <2>1
  <2>3. ASSUME NEW i \in b..(b + k) - 1
        PROVE  Char(s, i) \in Wordly
    <3>1. i - b + 1 \in 1..k /\ b + (i - b + 1) - 1 = i /\ i - b + 1 \in 1..(k + 1) - 1
      OBVIOUS
    <3>2. Char(s, i) = Char(lit, i - b + 1)
      BY <3>1
    <3>3. Char(lit, i - b + 1) \in Wordly
      BY <2>1, <3>1 DEF AllIn
    <3> QED
      BY <3>2, <3>3
  <2> QED
    BY <1>1, <1>2, <2>2, <2>3 DEF InLanguage, AllIn
<1>3. CASE Kinds[u] \notin Open
  <2>1. /\ (k + 1) - 1 = Len(LiteralOf(u))
        /\ \A i \in 1..(k + 1) - 1 : Char(lit, 1 + i - 1) = Char(LiteralOf(u), i)
    BY <1>3 DEF InLanguage, Open
  <2>2. ASSUME NEW i \in 1..k
        PROVE  Char(s, b + i - 1) = Char(LiteralOf(u), i)
    <3>1. i \in 1..(k + 1) - 1 /\ 1 + i - 1 = i
      OBVIOUS
    <3>2. Char(lit, i) = Char(LiteralOf(u), i)
      BY <2>1, <3>1
    <3> QED
      BY <3>2
  <2> QED
    BY <1>1, <1>3, <2>1, <2>2 DEF InLanguage, Open
<1> QED
  BY <1>2, <1>3

\* Where no token is taken, none begins, or one begins that is never closed
LEMMA TakenNone ==
  ASSUME Len(text) \in Nat, NEW b \in 1..(Len(text) + 1), NEW e \in b..(Len(text) + 1),
         Taken("COUNT", b, e)
  PROVE  Unclosed(text, b) \/ \A end \in b..Len(text) + 1 : ~IsToken(text, b, end)
<1> DEFINE V == Verdict(b, e)
<1>1. \A u \in Tks : V[u]["curr"] # "ACCEPT"
  <2>1. "COUNT" = Winner(V, "curr")
    BY DEF Taken
  <2> HIDE DEF V
  <2> QED
    BY <2>1, WinnerMark, KindsApart
<1>2. e <= Len(text) => \A u \in Tks : Verdict(b, e + 1)[u].curr = "REJECT"
  BY DEF Taken
<1>3. b < e => \E u \in Tks : V[u].curr # "REJECT"
  BY DEF Taken
<1> HIDE DEF V
<1>4. CASE b = e
  <2>1. ASSUME NEW end \in b..Len(text) + 1, NEW u \in Tks
        PROVE  ~InLanguage(u, text, b, end)
    <3>1. CASE end = b
      BY <3>1 DEF InLanguage
    <3>2. CASE end # b
      <4>1. b \in 1..Len(text) /\ b + 1 \in (b + 1)..(Len(text) + 1)
            /\ end \in (b + 1)..(Len(text) + 1)
        BY <3>2
      <4>2. Verdict(b, b + 1)[u].curr = "REJECT"
        BY <1>2, <1>4, <4>1
      <4> QED
        BY <4>1, <4>2, VerdictLanguage
    <3> QED
      BY <3>1, <3>2
  <2> QED
    BY <2>1 DEF IsToken
<1>5. CASE b # e
  <2>1. /\ b \in 1..Len(text) /\ e \in (b + 1)..(Len(text) + 1) /\ b < e
        /\ b \in Nat /\ e \in Nat
    BY <1>5
  <2>2. \A u \in Tks : ~InLanguage(u, text, b, e)
    <3>1. \A u \in Tks : V[u].curr = "ACCEPT" <=> InLanguage(u, text, b, e)
      BY <2>1, VerdictLanguage DEF V
    <3> QED
      BY <1>1, <3>1
  <2>3. PICK u \in Tks : V[u].curr # "REJECT"
    BY <1>3, <2>1
  <2> DEFINE r == Alone(text, u, b)[e]
  <2>4. Reads(u, text, b, e, r)
    BY <2>1, AutomatonReads
  <2>5. r[2] # "REJECT"
    BY <2>3 DEF V, Verdict
  <2> HIDE DEF r
  <2>6. \/ Within(u, text, b, e) \/ Slash(u, text, b, e)
        \/ Spelt(u, text, b, e) /\ e - b < Len(LiteralOf(u))
    BY <2>2, <2>4, <2>5 DEF Reads
  <2>7. ~Slash(u, text, b, e)
    <3>1. SUFFICES ASSUME Slash(u, text, b, e) PROVE FALSE
      OBVIOUS
    <3>2. PICK tk \in Tks : /\ Kinds[tk] \notin Open
                            /\ Len(LiteralOf(tk)) = 1 /\ Char(LiteralOf(tk), 1) = "/"
      BY LiteralsAssumption
    <3>3. e - b = 1 /\ Char(text, b) = "/" /\ b < e
      BY <2>1, <3>1 DEF Slash
    <3>4. \A i \in 1..e - b : i = 1 /\ b + i - 1 = b
      BY <3>3
    <3>5. \A i \in 1..e - b : Char(text, b + i - 1) = Char(LiteralOf(tk), i)
      BY <3>2, <3>3, <3>4
    <3>6. InLanguage(tk, text, b, e)
      BY <3>2, <3>3, <3>5 DEF InLanguage, Open
    <3> QED
      BY <2>2, <3>6
  <2>8. ~(Spelt(u, text, b, e) /\ e - b < Len(LiteralOf(u)))
    <3>1. SUFFICES ASSUME Spelt(u, text, b, e), e - b < Len(LiteralOf(u)) PROVE FALSE
      OBVIOUS
    <3> DEFINE lit == LiteralOf(u)
               k == e - b
    <3>2. /\ Kinds[u] \notin Open
          /\ \A i \in 1..k : Char(text, b + i - 1) = Char(lit, i)
      BY <3>1 DEF Spelt
    <3>3. k \in Nat \ {0} /\ b + k = e
      BY <2>1
    <3>4. k \in 1..Len(lit) - 1
      BY <3>1, <3>2, <3>3, LiteralsAssumption
    <3>5. PICK v \in Tks : /\ Kinds[v] \notin Open \ {"NAME"}
                           /\ InLanguage(v, lit, 1, k + 1)
      BY <3>2, <3>4, LiteralsAssumption
    <3> HIDE DEF lit, k
    <3>6. InLanguage(v, text, b, b + k)
      BY <2>1, <3>2, <3>3, <3>5, SpeltSame
    <3> QED
      BY <2>2, <3>3, <3>6
  <2>9. Within(u, text, b, e)
    BY <2>6, <2>7, <2>8
  <2>10. e = Len(text) + 1
    <3>1. SUFFICES ASSUME e <= Len(text) PROVE FALSE
      BY <2>1
    <3>2. e + 1 \in (b + 1)..(Len(text) + 1)
      BY <2>1, <3>1
    <3> DEFINE q == Alone(text, u, b)[e + 1]
    <3>3. Reads(u, text, b, e + 1, q)
      BY <2>1, <3>2, AutomatonReads
    <3>4. q[2] = "REJECT"
      BY <1>2, <3>1 DEF Verdict
    <3> HIDE DEF q
    <3>5. ~Within(u, text, b, e + 1) /\ ~InLanguage(u, text, b, e + 1)
      BY <3>3, <3>4 DEF Reads
    <3> QED
      BY <2>1, <2>9, <3>5, WithinGoesOn
  <2>11. Unclosed(text, b)
    <3>1. e - 1 = Len(text) /\ (b + 1 < e => b < Len(text)) /\ b <= Len(text)
      BY <2>1, <2>10
    <3> QED
      BY <2>9, <2>10, <3>1 DEF Within, Unclosed
  <2> QED
    BY <2>11
<1> QED
  BY <1>4, <1>5

\* While the lexer runs every token is the longest; it stops for a cause
TokensInv ==
  /\ lexed = "RUN" => \A i \in 2..Len(tokens) : Longest(i)
  /\ RefusedForCause

\* The lexer that has stopped stays where it is
LEMMA StaysPut ==
  ASSUME [LexNext]_<<lexVars, mem>>
  PROVE  /\ text' = text
         /\ lexed' # "RUN" => prefix' = prefix
         /\ lexed # "RUN" => lexed' = lexed /\ tokens' = tokens /\ prefix' = prefix
<1>1. CASE LexBegin
  BY <1>1 DEF LexBegin
<1>2. CASE LexChar
  BY <1>2, Zenon DEF LexChar
<1>3. CASE LexEnd
  BY <1>3 DEF LexEnd
<1>4. CASE UNCHANGED <<lexVars, mem>>
  BY <1>4 DEF lexVars
<1> QED
  BY <1>1, <1>2, <1>3, <1>4 DEF LexNext

\* A token that is added is the longest, or it is the one that is refused
LEMMA AddedLongest ==
  ASSUME LexInv, LexInv', TokensInv, lexed = "RUN", text' = text,
         tokens # <<>>, tokens' # tokens, NewToken
  PROVE  /\ lexed' \in {"RUN", "OK"} =>
              /\ Len(tokens') = Len(tokens) + IF lexed' = "OK" THEN 2 ELSE 1
              /\ \A i \in 2..Len(tokens) + 1 : Longest(i)'
              /\ lexed' = "OK" => tokens'[Len(tokens) + 1].end = Len(text) + 1
         /\ lexed' = "UNKNOWN_TOKEN" => Taken("COUNT", prefix.beg, prefix.end)
<1> DEFINE n == Len(tokens)
           t == tokens'[n + 1]
<1>1. /\ Len(tokens') = n + IF lexed' = "OK" THEN 2 ELSE 1
      /\ AddsFresh(t)
  BY DEF NewToken
<1>2. /\ \A i \in DOMAIN tokens : tokens'[i] = tokens[i]
      /\ t.beg = Start
      /\ t.tk = "COUNT" => Taken("COUNT", Start, prefix.end)
      /\ t.tk # "COUNT" => t.end > Start /\ Taken(t.tk, Start, t.end)
      /\ t.tk = "COUNT" <=> lexed' = "UNKNOWN_TOKEN"
      /\ lexed' = "OK" => t.end = Len(text) + 1
  BY <1>1 DEF AddsFresh
<1>3. /\ tokens \in Seq(Token) /\ tokens' \in Seq(Token)
      /\ Len(text) \in Nat /\ prefix.beg \in Nat /\ 1 <= prefix.beg
      /\ prefix'.beg \in Nat /\ prefix'.beg <= prefix'.end
      /\ prefix'.end <= Len(text) + 1 /\ prefix'.end \in Nat
      /\ Start = prefix.beg
      /\ lexed' = "RUN" => Adjacent'
  BY DEF LexInv, LexTypeOK, Adjacent
<1>4. n \in Nat /\ n >= 1 /\ DOMAIN tokens = 1..n
  BY <1>3
<1>5. ASSUME lexed' \in {"RUN", "OK"}
      PROVE  /\ t.end \in (prefix.beg + 1)..(Len(text) + 1)
             /\ t.tk # "COUNT" /\ Taken(t.tk, prefix.beg, t.end)
  <2>1. t \in Token
    <3>1. n + 1 \in 1..Len(tokens')
      BY <1>1, <1>4
    <3> QED
      BY <1>3, <3>1
  <2>2. lexed' = "RUN" => t.end = prefix'.beg
    <3>1. ASSUME lexed' = "RUN"
          PROVE  t.end = prefix'.beg
      <4>1. Len(tokens') = n + 1 /\ tokens' # <<>> /\ Len(tokens') # 1
        BY <1>1, <1>3, <1>4, <3>1
      <4>2. prefix'.beg = tokens'[Len(tokens')].end
        BY <1>3, <3>1, <4>1 DEF Adjacent, Start
      <4> QED
        BY <4>1, <4>2
    <3> QED
      BY <3>1
  <2>3. t.tk # "COUNT" /\ t.end > prefix.beg /\ Taken(t.tk, prefix.beg, t.end)
    BY <1>2, <1>3, <1>5
  <2>4. t.end \in Nat /\ t.end <= Len(text) + 1
    <3> HIDE DEF t
    <3> QED
      BY <1>2, <1>3, <1>5, <2>1, <2>2 DEF Token
  <2> HIDE DEF t
  <2> QED
    BY <1>3, <2>3, <2>4
<1>6. ASSUME lexed' \in {"RUN", "OK"}, NEW i \in {n + 1}
      PROVE  Longest(i)'
  <2>1. prefix.beg \in 1..Len(text)
    BY <1>3, <1>5, <1>6
  <2>2. /\ t.tk \in KindsOf(text, prefix.beg, t.end)
        /\ t.tk = "NAME" => KindsOf(text, prefix.beg, t.end) = {"NAME"}
        /\ \A end \in t.end + 1..Len(text) + 1 : ~IsToken(text, prefix.beg, end)
    <3> HIDE DEF t
    <3> QED
      BY <1>3, <1>5, <1>6, <2>1, TakenLongest
  <2>3. t.beg = IF i = 2 THEN 1 ELSE tokens'[i - 1].end
    <3>1. i - 1 = n /\ n \in DOMAIN tokens /\ (i = 2 <=> n = 1)
      BY <1>4
    <3> QED
      BY <1>2, <3>1 DEF Start
  <2>4. t.beg = prefix.beg
    BY <1>2, <1>3
  <2>5. tokens'[i] = t
    OBVIOUS
  <2> HIDE DEF t
  <2> QED
    BY <2>2, <2>3, <2>4, <2>5 DEF Longest
<1>7. ASSUME NEW i \in 2..n
      PROVE  Longest(i)'
  <2>1. i \in DOMAIN tokens /\ i - 1 \in DOMAIN tokens
    BY <1>4
  <2>2. tokens'[i] = tokens[i] /\ tokens'[i - 1] = tokens[i - 1]
    BY <1>2, <2>1
  <2>3. Longest(i)
    BY DEF TokensInv
  <2> QED
    BY <2>2, <2>3 DEF Longest
<1>8. \A i \in 2..n + 1 : i \in 2..n \/ i \in {n + 1}
  BY <1>4
<1> HIDE DEF t
<1> QED
  BY <1>1, <1>2, <1>3, <1>6, <1>7, <1>8 DEF t

LEMMA TokensStep ==
  ASSUME LexInv, TokensInv, [LexNext]_<<lexVars, mem>>
  PROVE  /\ TokensInv'
         /\ lexed' = "OK" /\ lexed # "OK" => Tokenized'
<1>1. LexInv' /\ NewToken /\ EndsWithToken /\ FirstToken
  BY NextInv
<1>2. /\ text' = text
      /\ lexed' # "RUN" => prefix' = prefix
      /\ lexed # "RUN" => lexed' = lexed /\ tokens' = tokens /\ prefix' = prefix
  BY StaysPut
<1>3. CASE lexed # "RUN"
  BY <1>2, <1>3 DEF TokensInv, RefusedForCause
<1>4. CASE lexed = "RUN" /\ tokens' = tokens
  <2>1. lexed' \notin {"OK", "UNKNOWN_TOKEN"}
    BY <1>1, <1>4 DEF EndsWithToken
  <2> QED
    BY <1>2, <1>4, <2>1 DEF TokensInv, RefusedForCause, Longest
<1>5. CASE lexed = "RUN" /\ tokens' # tokens /\ tokens = <<>>
  <2>1. lexed' \notin {"OK", "UNKNOWN_TOKEN"}
    BY <1>1, <1>5 DEF EndsWithToken
  <2>2. Len(tokens') = 1
    BY <1>1, <1>5 DEF FirstToken
  <2> QED
    BY <2>1, <2>2 DEF TokensInv, RefusedForCause
<1>6. CASE lexed = "RUN" /\ tokens' # tokens /\ tokens # <<>>
  <2>1. /\ lexed' \in {"RUN", "OK"} =>
              /\ Len(tokens') = Len(tokens) + IF lexed' = "OK" THEN 2 ELSE 1
              /\ \A i \in 2..Len(tokens) + 1 : Longest(i)'
              /\ lexed' = "OK" => tokens'[Len(tokens) + 1].end = Len(text) + 1
        /\ lexed' = "UNKNOWN_TOKEN" => Taken("COUNT", prefix.beg, prefix.end)
    BY <1>1, <1>2, <1>6, AddedLongest
  <2>2. Len(tokens) \in Nat /\ Len(text) \in Nat
        /\ prefix.beg \in 1..(Len(text) + 1) /\ prefix.end \in prefix.beg..(Len(text) + 1)
    BY DEF LexInv, LexTypeOK
  <2>3. RefusedForCause'
    <3>1. SUFFICES ASSUME lexed' = "UNKNOWN_TOKEN"
                   PROVE  \/ Unclosed(text, prefix.beg)
                          \/ \A end \in prefix.beg..Len(text) + 1 :
                               ~IsToken(text, prefix.beg, end)
      BY <1>2 DEF RefusedForCause
    <3> QED
      BY <2>1, <2>2, <3>1, TakenNone
  <2>4. TokensInv'
    BY <2>1, <2>2, <2>3 DEF TokensInv
  <2>5. ASSUME lexed' = "OK"
        PROVE  Tokenized'
    <3>1. Len(tokens') - 1 = Len(tokens) + 1
      BY <2>1, <2>2, <2>5
    <3> QED
      BY <1>2, <2>1, <2>5, <3>1 DEF Tokenized
  <2> QED
    BY <2>4, <2>5
<1> QED
  BY <1>3, <1>4, <1>5, <1>6

\* The tokens of a text that lex accepts are the text, each one the longest at its
\* place, whatever the text (lex: TK_COUNT, the last of the list wins)
THEOREM LongestCorrect ==
  ASSUME NEW CONSTANT file, Len(file) \in Nat
  PROVE  LexSpec(file) => LongestMatch
<1>1. LexInit(file) => TokensInv
  <2>1. ASSUME LexInit(file) PROVE Len(tokens) = 0 /\ lexed = "RUN"
    BY <2>1 DEF LexInit
  <2> QED
    BY <2>1 DEF TokensInv, RefusedForCause
<1>2. LexInv /\ TokensInv /\ [LexNext]_<<lexVars, mem>> => TokensInv'
  BY TokensStep
<1>3. LexInv /\ TokensInv /\ [LexNext]_<<lexVars, mem>>
        => [lexed' = "OK" /\ lexed # "OK" => Tokenized']_lexed
  BY TokensStep
<1> QED
  BY <1>1, <1>2, <1>3, AlwaysInv, PTL DEF LexSpec, LongestMatch

\* lex gives up only where no token begins, or one begins that is never closed
\* (LEX_UNKNOWN_TOKEN)
THEOREM RefusedCorrect ==
  ASSUME NEW CONSTANT file, Len(file) \in Nat
  PROVE  LexSpec(file) => []RefusedForCause
<1>1. LexInit(file) => TokensInv
  <2>1. ASSUME LexInit(file) PROVE Len(tokens) = 0 /\ lexed = "RUN"
    BY <2>1 DEF LexInit
  <2> QED
    BY <2>1 DEF TokensInv, RefusedForCause
<1>2. LexInv /\ TokensInv /\ [LexNext]_<<lexVars, mem>> => TokensInv'
  BY TokensStep
<1>3. TokensInv => RefusedForCause
  BY DEF TokensInv
<1> QED
  BY <1>1, <1>2, <1>3, AlwaysInv, PTL DEF LexSpec
===============================================================================
