--------------------------------- MODULE Parse ---------------------------------
(***************************************************************************)
(* The parser (parse.c): shift and reduce over a stack of parse nodes.     *)
(* After every shift or reduction the rules are tried in the order of the  *)
(* table against the top of the stack; the token ahead decides whether the *)
(* first one that matches is reduced or another token is shifted instead.  *)
(***************************************************************************)
EXTENDS Lex

VARIABLES
  idx,      \* the next token
  stack,    \* the nodes, the block that holds them and its room
  parsed,   \* "RUN", or what parse returned: "OK", "NOMEM", "REJECT"
  tree      \* the root returned

parseVars == <<idx, stack, parsed, tree>>

-----------------------------------------------------------------------------
(***************************************************************************)
(* The grammar.  A term is a token, a nonterminal or a nonterminal that    *)
(* may occur any number of times.                                          *)
(***************************************************************************)
t(tk) == <<"t", tk>>
n(nt) == <<"n", nt>>
m(nt) == <<"m", nt>>
Rule(nt, terms) == [lhs |-> nt, rhs |-> terms]

StatementRules == <<
  Rule("Unit", <<t("FBEG"), m("Stmt"), t("FEND")>>),
  Rule("Stmt", <<t("WAIT"), n("Expr"), t("WFOR"), n("Expr"), t("SCOL")>>),
  Rule("Stmt", <<t("WAIT"), n("Expr"), t("WFOR"), n("Expr"), t("WNOB"), t("SCOL")>>),
  Rule("Stmt", <<t("WAIT"), n("Expr"), t("WUNT"), n("Expr"), t("SCOL")>>),
  Rule("Stmt", <<t("WAIT"), n("Expr"), t("WUNT"), n("Expr"), t("WNOB"), t("SCOL")>>),
  Rule("Stmt", <<t("WAIT"), n("Expr"), t("SCOL")>>),
  Rule("Stmt", <<t("WAIT"), n("Expr"), t("WNOB"), t("SCOL")>>),
  Rule("Stmt", <<t("RETN"), n("Expr"), t("SCOL")>>),
  Rule("Stmt", <<t("RETN"), t("SCOL")>>),
  Rule("Stmt", <<t("USEU"), n("Expr"), t("SCOL")>>),
  Rule("Stmt", <<t("EXPO"), t("TYPE"), n("Expr"), t("SCOL")>>),
  Rule("Stmt", <<t("TYPE"), n("Expr"), t("SCOL")>>),
  Rule("Ctrl", <<n("Cond"), m("Elif")>>),
  Rule("Ctrl", <<n("Cond"), m("Elif"), n("Else")>>),
  Rule("Ctrl", <<n("Dowh")>>),
  Rule("Ctrl", <<n("Whil")>>),
  Rule("Cond", <<t("COND"), n("Expr"), t("LBRC"), m("Stmt"), t("RBRC")>>),
  Rule("Elif", <<t("ELIF"), n("Expr"), t("LBRC"), m("Stmt"), t("RBRC")>>),
  Rule("Else", <<t("ELSE"), t("LBRC"), m("Stmt"), t("RBRC")>>),
  Rule("Dowh", <<t("DOWH"), t("LBRC"), m("Stmt"), t("RBRC"), t("WHIL"), n("Expr"), t("SCOL")>>),
  Rule("Whil", <<t("WHIL"), n("Expr"), t("LBRC"), m("Stmt"), t("RBRC")>>),
  Rule("Stmt", <<m("Qual"), n("Expr"), t("SCOL")>>),
  Rule("Stmt", <<n("Ctrl")>>),
  Rule("Stmt", <<n("Func")>>),
  Rule("Func", <<m("Qual"), n("Expr"), t("LBRC"), m("Stmt"), t("RBRC")>>),
  Rule("Stmt", <<t("NOIN"), t("LBRC"), m("Stmt"), t("RBRC")>>),
  Rule("Stmt", <<t("LBRC"), m("Stmt"), t("RBRC")>>),
  Rule("Qual", <<t("CONS")>>),
  Rule("Qual", <<t("EXPO")>>),
  Rule("Qual", <<t("STAT")>>) >>

AssignOps == <<"ASSN", "ASPL", "ASMI", "ASMU", "ASDI", "ASMO", "ASLS", "ASRS", "ASAN",
               "ASXO", "ASOR">>
BinaryOps == AssignOps \o
  <<"COLN", "SCOP", "ATSI", "MEMB", "AROW", "EQUL", "NEQL", "LTHN", "GTHN", "LTEQ", "GTEQ",
    "CONJ", "DISJ", "PLUS", "MINS", "MULT", "DIVI", "MODU", "LSHF", "RSHF", "AMPS", "CARE",
    "PIPE", "COMA", "CAST">>
UnaryOps == <<"PLUS", "MINS", "EXCL", "TILD", "MULT", "AMPS", "CARE", "INCR", "DECR", "SZOF",
              "ALOF">>

Each(ops, rule(_)) == [i \in DOMAIN ops |-> rule(ops[i])]

ExpressionRules ==
  Each(<<"NAME", "NMBR", "STRL">>, LAMBDA tk : Rule("Atom", <<t(tk)>>)) \o
  Each(<<"Atom", "Fexp", "Pexp", "Texp", "Bexp", "Uexp", "Xexp", "Wexp", "Aexp">>,
       LAMBDA nt : Rule("Expr", <<n(nt)>>)) \o
  << Rule("Fexp", <<n("Expr"), t("LPAR"), n("Expr"), t("RPAR")>>),
     Rule("Fexp", <<n("Expr"), t("LPAR"), t("RPAR")>>),
     Rule("Pexp", <<t("LPAR"), n("Expr"), t("RPAR")>>),
     Rule("Texp", <<n("Expr"), t("QUES"), n("Expr"), t("COLN"), n("Expr")>>) >> \o
  Each(BinaryOps, LAMBDA op : Rule("Bexp", <<n("Expr"), t(op), n("Expr")>>)) \o
  Each(UnaryOps, LAMBDA op : Rule("Uexp", <<t(op), n("Expr")>>)) \o
  Each(<<"INCR", "DECR">>, LAMBDA op : Rule("Xexp", <<n("Expr"), t(op)>>)) \o
  Each(<<"WMSE", "WSEC">>, LAMBDA op : Rule("Wexp", <<n("Expr"), t(op)>>)) \o
  << Rule("Aexp", <<n("Expr"), t("LBRA"), n("Expr"), t("RBRA")>>),
     Rule("Stmt", <<t("LBRA"), n("Expr"), t("RBRA")>>) >>

grammar == StatementRules \o ExpressionRules

IsAssn(tk) == \E i \in DOMAIN AssignOps : AssignOps[i] = tk

\* The level of each operator: the lower, the tighter it binds
precedence == [tk \in {BinaryOps[i] : i \in DOMAIN BinaryOps} \cup {"QUES"} |->
  CASE IsAssn(tk) -> 14
    [] tk = "SCOP" -> 0
    [] tk \in {"COLN", "MEMB", "AROW"} -> 1
    [] tk \in {"ATSI", "CAST"} -> 2
    [] tk \in {"MULT", "DIVI", "MODU"} -> 3
    [] tk \in {"PLUS", "MINS"} -> 4
    [] tk \in {"LSHF", "RSHF"} -> 5
    [] tk \in {"LTHN", "GTHN", "LTEQ", "GTEQ"} -> 6
    [] tk \in {"EQUL", "NEQL"} -> 7
    [] tk = "AMPS" -> 8
    [] tk = "CARE" -> 9
    [] tk = "PIPE" -> 10
    [] tk = "CONJ" -> 11
    [] tk = "DISJ" -> 12
    [] tk = "QUES" -> 13
    [] tk = "COMA" -> 15]

-----------------------------------------------------------------------------
(***************************************************************************)
(* Matching                                                                *)
(***************************************************************************)
IsLeaf(node) == node.kids = <<>>

TermEq(term, node) == (term[1] = "t") = IsLeaf(node) /\ term[2] = node.sym

\* The term may occur any number of times
Repeats(term) == term[1] = "m"

\* match_rule: how many nodes stay below the match of the rule, or -1.  At
\* c = <<k, i, again>> the terms 1..k are still to be matched against the nodes
\* 1..i, from the right; again says that term k + 1 repeats and has just matched.
Below(rule, nodes) ==
  LET rhs == rule.rhs
      from[c \in (0 .. Len(rhs)) \X (0 .. Len(nodes)) \X BOOLEAN] ==
        LET k == c[1]
            i == c[2]
            more == c[3] /\ i > 0 /\ TermEq(rhs[k + 1], nodes[i])
        IN  IF k = 0 THEN IF more THEN from[<<0, i - 1, TRUE>>] ELSE i
            ELSE IF i = 0 THEN -1
            ELSE IF TermEq(rhs[k], nodes[i]) THEN from[<<k - 1, i - 1, Repeats(rhs[k])>>]
            ELSE IF more THEN from[<<k, i - 1, TRUE>>]
            ELSE IF Repeats(rhs[k]) THEN from[<<k - 1, i, FALSE>>]
            ELSE -1
  IN  from[<<Len(rhs), Len(nodes), FALSE>>]

\* The rules that can match with sym on top of the stack
Symbols == {grammar[r].lhs : r \in DOMAIN grammar} \cup
           {Kinds[i] : i \in DOMAIN Kinds} \cup {"FBEG", "FEND", "COUNT", "beyond"}
Ending == [sym \in Symbols |->
             {r \in DOMAIN grammar : Last(grammar[r].rhs)[2] = sym \/ Last(grammar[r].rhs)[1] = "m"}]

\* The first rule that matches, 0 if none does
FirstRule(nodes) ==
  IF nodes = <<>> THEN 0
  ELSE LET R == {r \in Ending[Last(nodes).sym] : Below(grammar[r], nodes) >= 0}
       IN  IF R = {} THEN 0 ELSE CHOOSE r \in R : \A q \in R : r <= q

-----------------------------------------------------------------------------
(***************************************************************************)
(* The token ahead                                                         *)
(***************************************************************************)
SkipToken(tk) == tk \in {"WSPC", "LCOM", "BCOM"}

\* Past the whitespace and the comments
Ahead(i) ==
  CHOOSE j \in i .. Len(tokens) + 1 :
    /\ j <= Len(tokens) => ~SkipToken(tokens[j].tk)
    /\ \A k \in i .. j - 1 : SkipToken(tokens[k].tk)

TkAt(i) == IF i <= Len(tokens) THEN tokens[i].tk ELSE "beyond"

\* Variant: all operators associate to the right
BexpShiftsEqual(op, ahead) ==
  IF ahead \in DOMAIN precedence THEN precedence[op] >= precedence[ahead]
  ELSE ahead \in {"LPAR", "LBRA", "INCR", "DECR"} /\ op \notin {"SCOP", "MEMB", "AROW"}

\* Whether the operator op waits for the operand that the token ahead makes larger
BexpShifts(op, ahead) ==
  IF ahead \in DOMAIN precedence
  THEN \/ precedence[op] > precedence[ahead]
       \/ precedence[op] = precedence[ahead] /\ (IsAssn(op) \/ op \in {"COLN", "COMA", "SCOP"})
  ELSE ahead \in {"LPAR", "LBRA", "INCR", "DECR"} /\ op \notin {"SCOP", "MEMB", "AROW"}

ShouldShiftPre(rule, ahead) ==
  LET last == rule.rhs[Len(rule.rhs)]
  IN  CASE rule.lhs = "Bexp" -> BexpShifts(rule.rhs[2][2], ahead)
        [] rule.lhs = "Uexp" ->
             ahead \in {"LPAR", "LBRA", "SCOP", "COLN", "MEMB", "AROW", "ATSI", "INCR", "DECR"}
        [] rule.lhs = "Texp" -> ~(IsAssn(ahead) \/ ahead \in {"COMA", "RPAR", "RBRA", "SCOL"})
        [] rule.lhs = "Stmt" -> last = t("RBRC") /\ ahead = "WHIL"
        [] rule.lhs = "Qual" -> last = t("EXPO") /\ ahead = "TYPE"
        [] OTHER -> FALSE

ShouldShiftPost(rule, ahead) == rule.lhs \in {"Cond", "Elif"} /\ ahead \in {"ELIF", "ELSE"}

-----------------------------------------------------------------------------
(***************************************************************************)
(* The stack and its memory.  The blocks of an inner node are those it owns *)
(* itself, the nodes below it and the array of pointers to them, and those *)
(* of the nodes below it.                                                  *)
(***************************************************************************)
Leaf(i) == [sym |-> TkAt(i), at |-> i, kids |-> <<>>, blocks |-> {}]

\* destroy_node
DestroyNode(g, node) == FreeAll(g, node.blocks)

\* Variant: the nodes of the stack are forgotten
DropStack(p, result) ==
  [p EXCEPT !.mem = Free(p.mem, p.ptr), !.nodes = <<>>, !.ptr = 0, !.room = 0, !.parsed = result]

\* destroy_stack, after which parse returns "result"
DestroyStack(p, result) ==
  [p EXCEPT !.mem = Free(Fold(DestroyNode, p.mem, p.nodes), p.ptr),
            !.nodes = <<>>, !.ptr = 0, !.room = 0, !.parsed = result]

\* Variant: one more than there is room for
HasRoomFull(p) == Len(p.nodes) <= p.room

HasRoom(p) == Len(p.nodes) < p.room

\* shift: token i, after which i + 1 is next
Shift(p, i) ==
  LET q == [p EXCEPT !.nodes = Append(@, Leaf(i)), !.idx = i + 1]
  IN  IF p.parsed # "RUN" THEN p
      ELSE IF HasRoom(p) THEN q
      ELSE Then(Realloc(p.mem, p.ptr), LAMBDA g :
             IF g.ptr = 0 THEN DestroyStack([p EXCEPT !.mem = g], "NOMEM")
             ELSE [q EXCEPT !.mem = g, !.ptr = g.ptr,
                            !.room = (IF p.room = 0 THEN 1 ELSE p.room) * 8])

\* Variant: one node too many goes
KeptLess(nodes, below) == SubSeq(nodes, 1, below - 1)

\* What stays on the stack below a reduction
Kept(nodes, below) == SubSeq(nodes, 1, below)

\* Variant: the first one is left out
TopLess(nodes, below) == SubSeq(nodes, below + 2, Len(nodes))

\* The nodes that a reduction takes
Top(nodes, below) == SubSeq(nodes, below + 1, Len(nodes))

\* The node made of kids, which owns two blocks more than they do
Inner(nt, kids, own) ==
  [sym |-> nt, at |-> 0, kids |-> kids,
   blocks |-> own \cup UNION {kids[i].blocks : i \in DOMAIN kids}]

\* reduce: all nodes but the lowest "below" become the children of one
Reduce(p, rule, below) ==
  Then(Alloc(p.mem), LAMBDA g :
    IF g.ptr = 0 THEN DestroyStack([p EXCEPT !.mem = g], "NOMEM")
    ELSE Then(Alloc(g), LAMBDA h :
           IF h.ptr = 0 THEN DestroyStack([p EXCEPT !.mem = Free(h, g.ptr)], "NOMEM")
           ELSE [p EXCEPT !.mem = h,
                   !.nodes = Append(Kept(@, below),
                               Inner(rule.lhs, Top(@, below), {g.ptr, h.ptr}))]))

Parser(g) ==
  [nodes |-> stack.nodes, ptr |-> stack.ptr, room |-> stack.room, idx |-> idx,
   mem |-> g, parsed |-> parsed]

ParserBecomes(g, p) ==
  /\ Hit(g, p.mem)
  /\ stack' = [nodes |-> p.nodes, ptr |-> p.ptr, room |-> p.room]
  /\ idx' = p.idx /\ mem' = p.mem /\ parsed' = p.parsed

-----------------------------------------------------------------------------
ParseInit ==
  /\ idx = 1 /\ stack = [nodes |-> <<>>, ptr |-> 0, room |-> 0]
  /\ parsed = "RUN" /\ tree = <<>>

\* Rule r matches: one turn of the loop over the grammar
TryReduce(r) ==
  /\ r # 0
  /\ LET rule == grammar[r]
         next == IF rule.lhs = "Unit" THEN idx ELSE Ahead(idx)
         ahead == TkAt(next)
     IN  \E g \in Faults(mem, 3) :
           ParserBecomes(g,
             IF rule.lhs # "Unit" /\ ShouldShiftPre(rule, ahead)
             THEN Shift(Parser(g), next)
             ELSE Then(Reduce([Parser(g) EXCEPT !.idx = next], rule,
                              Below(rule, stack.nodes)), LAMBDA p :
                    IF ShouldShiftPost(rule, ahead) THEN Shift(p, next) ELSE p))
  /\ UNCHANGED tree

\* No rule matches: the next token that is not skipped is shifted
ShiftNext(r) ==
  /\ r = 0 /\ Ahead(idx) <= Len(tokens)
  /\ \E g \in Faults(mem, 1) : ParserBecomes(g, Shift(Parser(g), Ahead(idx)))
  /\ UNCHANGED tree

\* Variant: what is left on the stack is left to nobody
FinishUnit(r) ==
  /\ r = 0 /\ Ahead(idx) > Len(tokens)
  /\ Len(stack.nodes) = 1 /\ ~IsLeaf(stack.nodes[1]) /\ stack.nodes[1].sym = "Unit"
  /\ tree' = stack.nodes
  /\ ParserBecomes(mem, DestroyStack([Parser(mem) EXCEPT !.nodes = <<>>], "OK"))

\* No rule matches and there is no token left
Finish(r) ==
  /\ r = 0 /\ Ahead(idx) > Len(tokens)
  /\ LET root == stack.nodes[1]
         p == Parser(mem)
     IN  IF Len(stack.nodes) = 1 /\ ~IsLeaf(root) /\ root.sym = "Unit"
         THEN /\ tree' = <<root>>
              /\ ParserBecomes(mem, DestroyStack([p EXCEPT !.nodes = <<>>], "OK"))
         ELSE /\ ParserBecomes(mem, DestroyStack(p, "REJECT"))
              /\ UNCHANGED tree

ParseNext ==
  /\ parsed = "RUN"
  /\ \E r \in {FirstRule(stack.nodes)} : TryReduce(r) \/ ShiftNext(r) \/ Finish(r)

===============================================================================
