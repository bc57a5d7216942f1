-------------------------------- MODULE Tokens ---------------------------------
(***************************************************************************)
(* The language of each kind of token, said without automata, and what the *)
(* lexer makes of a text, said with these languages alone.                 *)
(***************************************************************************)
EXTENDS Lex

\* The kinds whose text is not fixed
Open == {"NAME", "NMBR", "STRL", "WSPC", "LCOM", "BCOM"}

Eol == {"\n", "\r"}
Wordly == Alpha \cup Digit \cup {"_"}

Char(s, i) == SubSeq(s, i, i)

\* The text from b up to e has characters of C only, or none of C
AllIn(s, b, e, C) == \A i \in b .. e - 1 : Char(s, i) \in C
NoneIn(s, b, e, C) == \A i \in b .. e - 1 : Char(s, i) \notin C

Begins(s, b, c, d) == Char(s, b) = c /\ Char(s, b + 1) = d

\* Before position j ends a run of stars of odd length, in the body of a block
\* comment that begins at b: the comment takes its stars two at a time
OddStars(s, b, j) ==
  \E k \in b .. j - 1 :
    /\ AllIn(s, k, j, {"*"}) /\ (k = b \/ Char(s, k - 1) # "*")
    /\ (j - k) % 2 = 1

\* Where a block comment with a body from b on is closed
Closes(s, b, j) == Char(s, j) = "/" /\ OddStars(s, b, j)

\* The text s from b up to e is a token that automaton tk is for
InLanguage(tk, s, b, e) ==
  /\ b < e
  /\ CASE Kinds[tk] = "NAME" -> Char(s, b) \notin Digit /\ AllIn(s, b, e, Wordly)
       [] Kinds[tk] = "NMBR" -> AllIn(s, b, e, Digit)
       [] Kinds[tk] = "WSPC" -> AllIn(s, b, e, Wspace)
       [] Kinds[tk] = "STRL" ->
            /\ b + 1 < e /\ Char(s, b) = Quote /\ Char(s, e - 1) = Quote
            /\ NoneIn(s, b + 1, e - 1, {Quote})
       [] Kinds[tk] = "LCOM" ->
            /\ b + 2 < e /\ Begins(s, b, "/", "/") /\ Char(s, e - 1) \in Eol
            /\ NoneIn(s, b + 2, e - 1, Eol)
       [] Kinds[tk] = "BCOM" ->
            /\ b + 2 < e /\ Begins(s, b, "/", "*") /\ Closes(s, b + 2, e - 1)
            /\ \A j \in b + 2 .. e - 2 : ~Closes(s, b + 2, j)
       [] OTHER ->
            /\ e - b = Len(LiteralOf(tk))
            /\ \A i \in 1 .. e - b : Char(s, b + i - 1) = Char(LiteralOf(tk), i)

\* What is known of the names and the spelling of the fixed tokens.  None is
\* called a name or the lack of a token.  None is empty; what an automaton has
\* read of one that is not complete is a name or a fixed token itself, so nothing
\* is lost when the rest does not come; and so is the first slash of a comment.
ASSUME LiteralsAssumption ==
  /\ \A i \in DOMAIN Literals : Literals[i][1] \notin {"NAME", "COUNT"}
  /\ \A tk \in Tks : Kinds[tk] \notin Open =>
       /\ Len(LiteralOf(tk)) \in Nat \ {0}
       /\ \A k \in 1 .. Len(LiteralOf(tk)) - 1 :
            \E u \in Tks : /\ Kinds[u] \notin Open \ {"NAME"}
                           /\ InLanguage(u, LiteralOf(tk), 1, k + 1)
  /\ \E tk \in Tks : /\ Kinds[tk] \notin Open
                     /\ Len(LiteralOf(tk)) = 1 /\ Char(LiteralOf(tk), 1) = "/"

\* The kinds of token that the text s from b up to e is, and whether it is any
KindsOf(s, b, e) == {Kinds[tk] : tk \in {u \in Tks : InLanguage(u, s, b, e)}}
IsToken(s, b, e) == \E tk \in Tks : InLanguage(tk, s, b, e)

\* A string or a comment begins at b and is never closed
Unclosed(s, b) ==
  \/ /\ b <= Len(s) /\ Char(s, b) = Quote
     /\ NoneIn(s, b + 1, Len(s) + 1, {Quote})
  \/ /\ b < Len(s) /\ Begins(s, b, "/", "/")
     /\ NoneIn(s, b + 2, Len(s) + 1, Eol)
  \/ /\ b < Len(s) /\ Begins(s, b, "/", "*")
     /\ \A j \in b + 2 .. Len(s) : ~Closes(s, b + 2, j)

-----------------------------------------------------------------------------
(***************************************************************************)
(* Properties                                                              *)
(***************************************************************************)
\* Token i begins where the one before has ended, is what it is called, a name
\* only where it is nothing else, and could not have been longer
Longest(i) ==
  LET token == tokens[i]
      kinds == KindsOf(text, token.beg, token.end)
  IN  /\ token.beg = IF i = 2 THEN 1 ELSE tokens[i - 1].end
      /\ token.tk \in kinds /\ (token.tk = "NAME" => kinds = {"NAME"})
      /\ \A end \in token.end + 1 .. Len(text) + 1 : ~IsToken(text, token.beg, end)

\* The tokens between the two markers are the whole text
Tokenized ==
  /\ \A i \in 2 .. Len(tokens) - 1 : Longest(i)
  /\ tokens[Len(tokens) - 1].end = Len(text) + 1

\* The tokens of an accepted text are the text itself, cut so that each token is
\* the longest there is at its place; where a keyword and a name fit, it is the
\* keyword
LongestMatch == [][lexed' = "OK" /\ lexed # "OK" => Tokenized']_lexed

\* A text is refused only where a character begins no token at all, or a string
\* or a comment is not closed: no text is refused because the lexer gave up a
\* shorter token for a longer one that then did not come
RefusedForCause ==
  lexed = "UNKNOWN_TOKEN" =>
    \/ Unclosed(text, prefix.beg)
    \/ \A end \in prefix.beg .. Len(text) + 1 : ~IsToken(text, prefix.beg, end)

===============================================================================
