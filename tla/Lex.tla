---------------------------------- MODULE Lex ----------------------------------
(***************************************************************************)
(* The lexer (lex.c): one automaton per kind of token, all run in parallel *)
(* over the text.  The prefix grows as long as some automaton has not      *)
(* rejected; then the last automaton of the list that had accepted gives   *)
(* the token, and all start again.                                         *)
(***************************************************************************)
EXTENDS Mem

VARIABLES
  text,       \* the mapped file, a string
  prefix,     \* the half-open range [beg, end) of text being matched
  auto,       \* state and previous and current status of each automaton
  tokens,     \* the tokens so far, with the range of each
  array,      \* the block of the array of tokens, and how many it has room for
  lexed,      \* "RUN", or what lex returned: "OK", "NOMEM", "UNKNOWN_TOKEN"
  mem         \* the memory; shared with the later phases

lexVars == <<text, prefix, auto, tokens, array, lexed>>

-----------------------------------------------------------------------------
Alpha ==
  {"a", "b", "c", "d", "e", "f", "g", "h", "i", "j", "k", "l", "m", "n", "o", "p", "q",
   "r", "s", "t", "u", "v", "w", "x", "y", "z", "A", "B", "C", "D", "E", "F", "G", "H",
   "I", "J", "K", "L", "M", "N", "O", "P", "Q", "R", "S", "T", "U", "V", "W", "X", "Y", "Z"}
Digit == {"0", "1", "2", "3", "4", "5", "6", "7", "8", "9"}
Wspace == {" ", "\t", "\r", "\n"}
Quote == "\""

\* The tokens whose text is fixed, in the order of the enumeration
Literals == <<
  <<"LPAR", "(">>, <<"RPAR", ")">>, <<"LBRA", "[">>, <<"RBRA", "]">>,
  <<"LBRC", "{">>, <<"RBRC", "}">>,
  <<"COND", "if">>, <<"ELIF", "elif">>, <<"ELSE", "else">>, <<"DOWH", "do">>,
  <<"WHIL", "while">>, <<"RETN", "return">>, <<"USEU", "use">>, <<"TYPE", "type">>,
  <<"ASSN", "=">>, <<"ASPL", "+=">>, <<"ASMI", "-=">>, <<"ASMU", "*=">>,
  <<"ASDI", "/=">>, <<"ASMO", "%=">>, <<"ASLS", "<<=">>, <<"ASRS", ">>=">>,
  <<"ASAN", "&=">>, <<"ASXO", "^=">>, <<"ASOR", "|=">>,
  <<"COLN", ":">>, <<"SCOP", "::">>, <<"ATSI", "@">>, <<"MEMB", ".">>,
  <<"AROW", "->">>, <<"EQUL", "==">>, <<"NEQL", "!=">>, <<"LTHN", "<">>,
  <<"GTHN", ">">>, <<"LTEQ", "<=">>, <<"GTEQ", ">=">>, <<"CONJ", "&&">>,
  <<"DISJ", "||">>, <<"PLUS", "+">>, <<"MINS", "-">>, <<"MULT", "*">>,
  <<"DIVI", "/">>, <<"MODU", "%">>, <<"LSHF", "<<">>, <<"RSHF", ">>">>,
  <<"AMPS", "&">>, <<"CARE", "^">>, <<"PIPE", "|">>, <<"COMA", ",">>,
  <<"CAST", "as">>, <<"QUES", "?">>,
  <<"EXCL", "!">>, <<"TILD", "~">>, <<"INCR", "++">>, <<"DECR", "--">>,
  <<"SZOF", "sizeof">>, <<"ALOF", "alignof">>,
  <<"WAIT", "wait">>, <<"WFOR", "for">>, <<"WUNT", "until">>, <<"WNOB", "noblock">>,
  <<"WMSE", "msec">>, <<"WSEC", "sec">>, <<"NOIN", "noint">>,
  <<"SCOL", ";">>,
  <<"CONS", "const">>, <<"EXPO", "exposed">>, <<"STAT", "static">> >>

\* The other six come first
Kinds == <<"NAME", "NMBR", "STRL", "WSPC", "LCOM", "BCOM">>
           \o [i \in DOMAIN Literals |-> Literals[i][1]]
Tks == 1 .. Len(Kinds)
LiteralOf(tk) == Literals[tk - 6][2]

-----------------------------------------------------------------------------
(***************************************************************************)
(* One step of an automaton in state s on the character c: the new state   *)
(* and the status                                                          *)
(***************************************************************************)
Accept(s) == <<s, "ACCEPT">>
Hungry(s) == <<s, "HUNGRY">>
Reject == <<0, "REJECT">>

TkLiteral(lit, c, s) ==
  IF s < Len(lit) /\ c = SubSeq(lit, s + 1, s + 1)
  THEN IF s + 1 = Len(lit) THEN Accept(s + 1) ELSE Hungry(s + 1)
  ELSE Reject

TkName(c, s) ==
  IF c \in Alpha \cup {"_"} \/ (s = 1 /\ c \in Digit) THEN Accept(1) ELSE Reject

TkNmbr(c, s) == IF c \in Digit THEN Accept(s) ELSE <<s, "REJECT">>

TkWspc(c, s) == IF c \in Wspace THEN Accept(1) ELSE Reject

\* Begin, inside, after the closing quote
TkStrl(c, s) ==
  CASE s = 0 -> IF c = Quote THEN Hungry(1) ELSE Reject
    [] s = 1 -> IF c = Quote THEN Accept(2) ELSE Hungry(1)
    [] s = 2 -> Reject

\* Begin, first slash, inside, after the end of the line
TkLcom(c, s) ==
  CASE s \in {0, 1} -> IF c = "/" THEN Hungry(s + 1) ELSE Reject
    [] s = 2 -> IF c \in {"\n", "\r"} THEN Accept(3) ELSE Hungry(2)
    [] s = 3 -> Reject

\* Begin, slash, inside, after a star inside, after the closing slash.  The
\* character that follows a star inside is never itself taken for that star.
TkBcom(c, s) ==
  CASE s = 0 -> IF c = "/" THEN Hungry(1) ELSE Reject
    [] s = 1 -> IF c = "*" THEN Hungry(2) ELSE Reject
    [] s = 2 -> Hungry(IF c = "*" THEN 3 ELSE 2)
    [] s = 3 -> IF c = "/" THEN Accept(4) ELSE Hungry(2)
    [] s = 4 -> Reject

Step(tk, c, s) ==
  CASE Kinds[tk] = "NAME" -> TkName(c, s)
    [] Kinds[tk] = "NMBR" -> TkNmbr(c, s)
    [] Kinds[tk] = "STRL" -> TkStrl(c, s)
    [] Kinds[tk] = "WSPC" -> TkWspc(c, s)
    [] Kinds[tk] = "LCOM" -> TkLcom(c, s)
    [] Kinds[tk] = "BCOM" -> TkBcom(c, s)
    [] OTHER -> TkLiteral(LiteralOf(tk), c, s)

-----------------------------------------------------------------------------
\* Variant: what was rejected stays so
Resume(a) == a

\* Every status as it is before the first character of a token
Restart(a) == [tk \in Tks |-> [a[tk] EXCEPT !.prev = "HUNGRY", !.curr = "REJECT"]]
Initial == [tk \in Tks |-> [state |-> 0, prev |-> "HUNGRY", curr |-> "REJECT"]]

\* Variant: once all have seen c
AdvanceAll(a, c) ==
  [tk \in Tks |->
     LET r == Step(tk, c, a[tk].state) IN [a[tk] EXCEPT !.state = r[1], !.curr = r[2]]]

\* The status of every automaton once the live ones have seen c
Advance(a, c) ==
  [tk \in Tks |->
     IF a[tk].prev = "REJECT" THEN a[tk]
     ELSE LET r == Step(tk, c, a[tk].state)
          IN  [a[tk] EXCEPT !.state = r[1], !.curr = r[2]]]

\* Variant: of the first
FirstWinner(a, when) ==
  LET W == {tk \in Tks : a[tk][when] = "ACCEPT"}
  IN  IF W = {} THEN "COUNT" ELSE Kinds[CHOOSE tk \in W : \A u \in W : tk <= u]

\* The kind of the last automaton whose status "when" is ACCEPT
Winner(a, when) ==
  LET W == {tk \in Tks : a[tk][when] = "ACCEPT"}
  IN  IF W = {} THEN "COUNT" ELSE Kinds[CHOOSE tk \in W : \A u \in W : u <= tk]

\* push_token: what follows from pushing the token [beg, end) of kind tk
Push(r, tk, beg, end) ==
  LET t == [tk |-> tk, beg |-> beg, end |-> end]
      room == (IF r.room = 0 THEN 1 ELSE r.room) * 8
  IN  IF Len(r.tokens) < r.room
      THEN [r EXCEPT !.tokens = Append(@, t)]
      ELSE Then(Realloc(r.mem, r.ptr), LAMBDA g :
             IF g.ptr # 0
             THEN [r EXCEPT !.tokens = Append(@, t), !.ptr = g.ptr, !.room = room, !.mem = g]
             ELSE [r EXCEPT !.ptr = 0, !.room = room, !.mem = Free(g, r.ptr),
                            !.lexed = "NOMEM"])

\* The last token is no token: lex gives up
Unknown(r) == IF r.lexed = "RUN" THEN [r EXCEPT !.lexed = "UNKNOWN_TOKEN"] ELSE r

\* Variant: no marker
Unmarked(r) == r

\* The marker of the end of the file
Marked(r) == Push(r, "FEND", 0, 0)

\* What the lexer has so far, in the memory m; the step from it to r
Lexer(m) ==
  [tokens |-> tokens, ptr |-> array.ptr, room |-> array.room, mem |-> m, lexed |-> lexed]

Becomes(m, r) ==
  /\ Hit(m, r.mem)
  /\ tokens' = r.tokens /\ array' = [ptr |-> r.ptr, room |-> r.room]
  /\ mem' = r.mem /\ lexed' = r.lexed

-----------------------------------------------------------------------------
LexInit(file) ==
  /\ text = file
  /\ prefix = [beg |-> 1, end |-> 1] /\ auto = Initial
  /\ tokens = <<>> /\ array = [ptr |-> 0, room |-> 0] /\ lexed = "RUN"

\* The marker of the beginning of the file
LexBegin ==
  /\ lexed = "RUN" /\ tokens = <<>>
  /\ \E m \in Faults(mem, 1) : Becomes(m, Push(Lexer(m), "FBEG", 0, 0))
  /\ UNCHANGED <<text, prefix, auto>>

\* One turn of the loop: the character belongs to the token, or the token has
\* ended before it
LexChar ==
  /\ lexed = "RUN" /\ tokens # <<>> /\ prefix.end <= Len(text)
  /\ \E a \in {Advance(auto, SubSeq(text, prefix.end, prefix.end))} :
       \/ /\ \E tk \in Tks : a[tk].curr # "REJECT"
          /\ prefix' = [prefix EXCEPT !.end = @ + 1]
          /\ auto' = [tk \in Tks |-> [a[tk] EXCEPT !.prev = a[tk].curr]]
          /\ UNCHANGED <<tokens, array, lexed, mem>>
       \/ /\ \A tk \in Tks : a[tk].curr = "REJECT"
          /\ auto' = Restart(a)
          /\ LET won == Winner(auto, "prev")
                 end == prefix.end + IF won = "COUNT" THEN 1 ELSE 0
             IN  /\ \E m \in Faults(mem, 1) :
                      Becomes(m, Then(Push(Lexer(m), won, prefix.beg, end), LAMBDA r :
                                   IF won = "COUNT" THEN Unknown(r) ELSE r))
                 /\ prefix' = IF lexed' = "RUN" THEN [prefix EXCEPT !.beg = prefix.end]
                              ELSE prefix
  /\ UNCHANGED text

\* The text has ended: so must the token; then the marker of the end
LexEnd ==
  /\ lexed = "RUN" /\ tokens # <<>> /\ prefix.end > Len(text)
  /\ auto' = Restart(auto)
  /\ LET won == Winner(auto, "curr")
     IN  \E m \in Faults(mem, 2) :
           Becomes(m,
             Then(Push(Lexer(m), won, prefix.beg, prefix.end), LAMBDA r :
               IF won = "COUNT" \/ r.lexed # "RUN" THEN Unknown(r)
               ELSE Then(Marked(r), LAMBDA q :
                      IF q.lexed = "RUN" THEN [q EXCEPT !.lexed = "OK"] ELSE q)))
  /\ UNCHANGED <<text, prefix>>

LexNext == LexBegin \/ LexChar \/ LexEnd

-----------------------------------------------------------------------------
(***************************************************************************)
(* What the loop is for                                                    *)
(***************************************************************************)
\* The automaton tk by itself, started on the text s at position b: its state and
\* status before each position from there on
Alone(s, tk, b) ==
  LET run[e \in b .. Len(s) + 1] ==
        LET before == run[e - 1]
        IN  IF e = b THEN <<0, "HUNGRY">>
            ELSE IF before[2] = "REJECT" THEN before
            ELSE Step(tk, SubSeq(s, e - 1, e - 1), before[1])
  IN  run

\* What the automata, each by itself, say of the text from b up to e
Verdict(b, e) == [tk \in Tks |-> [curr |-> Alone(text, tk, b)[e][2]]]

\* The text from b on is taken up to e as a token of kind tk, or as none: there
\* is an automaton that goes that far and none that goes further
Taken(tk, b, e) ==
  /\ tk = Winner(Verdict(b, e), "curr")
  /\ b < e => \E u \in Tks : Verdict(b, e)[u].curr # "REJECT"
  /\ e <= Len(text) => \A u \in Tks : Verdict(b, e + 1)[u].curr = "REJECT"

\* Where the token that comes next must begin
Start == IF Len(tokens) = 1 THEN 1 ELSE tokens[Len(tokens)].end

\* A step that adds a token t: it is what the automata say that have seen nothing
\* but its own characters
AddsFresh(t) ==
  /\ \A i \in DOMAIN tokens : tokens'[i] = tokens[i]
  /\ t.beg = Start
  /\ IF t.tk = "COUNT" THEN Taken("COUNT", Start, prefix.end)
     ELSE t.end > Start /\ Taken(t.tk, Start, t.end)
  /\ t.tk = "COUNT" <=> lexed' = "UNKNOWN_TOKEN"
  /\ lexed' = "OK" => t.end = Len(text) + 1

\* A token begins where the one before has ended and nothing is left over in the
\* states and statuses from the tokens before.  The tokens there are stay; the
\* last one, which the marker of the end follows, ends where the text does; a
\* text is refused where there is none.
FreshTokens ==
  [][tokens' # tokens /\ tokens # <<>> =>
       /\ Len(tokens') = Len(tokens) + IF lexed' = "OK" THEN 2 ELSE 1
       /\ AddsFresh(tokens'[Len(tokens) + 1])]_tokens

===============================================================================
