-------------------------------- MODULE Written --------------------------------
(***************************************************************************)
(* What a program means, said without a parser: abstract trees together    *)
(* with the way they are written down.  The properties of Parse compare    *)
(* the two.                                                                *)
(***************************************************************************)
EXTENDS Derivation, Tokens

CONSTANT
  MiddleLevel   \* the loosest operator that may stand between ? and :

VARIABLE
  wrote         \* the statements of which text is the spelling, if it is one

-----------------------------------------------------------------------------
(***************************************************************************)
(* Expressions: <<"atom">>, <<"bin", op, a, b>>, <<"pre", op, a>>,         *)
(* <<"post", op, a>>, <<"call", f, arguments>>, <<"index", a, b>>,         *)
(* <<"cond", a, b, c>>, <<"time", op, a>>.  Levels are those of C.         *)
(***************************************************************************)
CLevels == << {"MULT", "DIVI", "MODU"}, {"PLUS", "MINS"}, {"LSHF", "RSHF"},
              {"LTHN", "GTHN", "LTEQ", "GTEQ"}, {"EQUL", "NEQL"}, {"AMPS"}, {"CARE"},
              {"PIPE"}, {"CONJ"}, {"DISJ"} >>

Level(e) ==
  CASE e[1] = "atom" -> 0
    [] e[1] \in {"post", "call", "index"} -> 1
    [] e[1] = "pre" -> 2
    [] e[1] = "cond" -> 13
    [] e[1] = "time" -> 16
    [] e[1] = "bin" ->
         CASE e[2] \in {"MEMB", "AROW"} -> 1
           [] IsAssn(e[2]) -> 14
           [] e[2] = "COMA" -> 15
           [] OTHER -> 2 + CHOOSE i \in DOMAIN CLevels : e[2] \in CLevels[i]

Lit(kind) == (CHOOSE l \in {Literals[i] : i \in DOMAIN Literals} : l[1] = kind)[2]

\* e as it is written with as few parentheses as C needs
RECURSIVE Spell(_)
Spell(e) ==
  LET In(f, max) == IF Level(f) <= max THEN Spell(f) ELSE "(" \o Spell(f) \o ")"
      own == Level(e)
  IN  CASE e[1] = "atom" -> "a"
        [] e[1] = "pre" -> Lit(e[2]) \o " " \o In(e[3], 2)
        [] e[1] = "post" -> In(e[3], 1) \o Lit(e[2])
        [] e[1] = "time" -> In(e[3], 15) \o " " \o Lit(e[2])
        [] e[1] = "call" -> In(e[2], 1) \o "(" \o (IF e[3] = <<>> THEN "" ELSE Spell(e[3][1])) \o ")"
        [] e[1] = "index" -> In(e[2], 1) \o "[" \o Spell(e[3]) \o "]"
        [] e[1] = "cond" ->
             In(e[2], 12) \o "?" \o In(e[3], MiddleLevel) \o ":" \o In(e[4], 13)
        [] e[1] = "bin" ->
             LET left == IF own = 14 THEN 2 ELSE IF own = 15 THEN 14 ELSE own
                 right == IF own \in {14, 15} THEN own ELSE own - 1
             IN  In(e[3], left) \o " " \o Lit(e[2]) \o " " \o In(e[4], right)

-----------------------------------------------------------------------------
(***************************************************************************)
(* Statements: <<"expr", qualifiers, e>>, <<"wait", e, how, f, noblock>>,  *)
(* <<"return", e>>, <<"use", e>>, <<"type", exposed, e>>, <<"label", e>>,  *)
(* <<"block", ss>>, <<"noint", ss>>, <<"while", e, ss>>, <<"do", ss, e>>,  *)
(* <<"if", e, ss, elifs, else>>, <<"func", qualifiers, e, ss>>; an optional *)
(* part is a sequence of at most one element.                              *)
(***************************************************************************)
Words(strings) == FoldLeft(LAMBDA s, w : s \o w \o " ", "", strings)
Option(seq, string(_)) == IF seq = <<>> THEN "" ELSE string(seq[1])

RECURSIVE SpellStmt(_)
SpellStmt(s) ==
  LET Body(ss) == "{" \o Words([i \in DOMAIN ss |-> SpellStmt(ss[i])]) \o "}"
      Quals(qs) == Words([i \in DOMAIN qs |-> Lit(qs[i])])
      Elifs(es) == Words([i \in DOMAIN es |-> "elif " \o Spell(es[i][1]) \o Body(es[i][2])])
  IN  CASE s[1] = "expr" -> Quals(s[2]) \o Spell(s[3]) \o ";"
        [] s[1] = "wait" -> "wait " \o Spell(s[2])
             \o Option(s[3], LAMBDA how : " " \o Lit(how) \o " " \o Spell(s[4][1]))
             \o (IF s[5] THEN " noblock;" ELSE ";")
        [] s[1] = "return" -> "return" \o Option(s[2], LAMBDA e : " " \o Spell(e)) \o ";"
        [] s[1] = "use" -> "use " \o Spell(s[2]) \o ";"
        [] s[1] = "type" -> (IF s[2] THEN "exposed type " ELSE "type ") \o Spell(s[3]) \o ";"
        [] s[1] = "label" -> "[" \o Spell(s[2]) \o "]"
        [] s[1] = "block" -> Body(s[2])
        [] s[1] = "noint" -> "noint" \o Body(s[2])
        [] s[1] = "while" -> "while " \o Spell(s[2]) \o Body(s[3])
        [] s[1] = "do" -> "do" \o Body(s[2]) \o "while " \o Spell(s[3]) \o ";"
        [] s[1] = "if" -> "if " \o Spell(s[2]) \o Body(s[3]) \o Elifs(s[4])
                            \o Option(s[5], LAMBDA ss : "else" \o Body(ss))
        [] s[1] = "func" -> Quals(s[2]) \o Spell(s[3]) \o Body(s[4])

SpellUnit(ss) == Words([i \in DOMAIN ss |-> SpellStmt(ss[i])])

-----------------------------------------------------------------------------
(***************************************************************************)
(* The abstract tree that a parse tree stands for                          *)
(***************************************************************************)
RECURSIVE Expr(_)
Expr(x) ==
  LET k == x.kids
      sub(i) == Expr(k[i])
  IN  CASE x.sym = "Expr" -> sub(1)
        [] x.sym = "Pexp" -> sub(2)
        [] x.sym = "Atom" -> <<"atom">>
        [] x.sym = "Bexp" -> <<"bin", k[2].sym, sub(1), sub(3)>>
        [] x.sym = "Uexp" -> <<"pre", k[1].sym, sub(2)>>
        [] x.sym = "Xexp" -> <<"post", k[2].sym, sub(1)>>
        [] x.sym = "Wexp" -> <<"time", k[2].sym, sub(1)>>
        [] x.sym = "Fexp" -> <<"call", sub(1), IF Len(k) = 4 THEN <<sub(3)>> ELSE <<>>>>
        [] x.sym = "Aexp" -> <<"index", sub(1), sub(3)>>
        [] x.sym = "Texp" -> <<"cond", sub(1), sub(3), sub(5)>>

Are(kids, sym) == SelectSeq(kids, LAMBDA x : x.sym = sym)

RECURSIVE Stmt(_)
Stmt(x) ==
  LET k == x.kids
      stmts(ks) == LET ss == Are(ks, "Stmt") IN [i \in DOMAIN ss |-> Stmt(ss[i])]
      quals(ks) == LET qs == Are(ks, "Qual") IN [i \in DOMAIN qs |-> qs[i].kids[1].sym]
      exprs(ks) == LET es == Are(ks, "Expr") IN [i \in DOMAIN es |-> Expr(es[i])]
  IN  CASE k[1].sym = "WAIT" ->
             <<"wait", exprs(k)[1], IF k[3].sym \in {"WFOR", "WUNT"} THEN <<k[3].sym>> ELSE <<>>,
               Tail(exprs(k)), k[Len(k) - 1].sym = "WNOB">>
        [] k[1].sym = "RETN" -> <<"return", exprs(k)>>
        [] k[1].sym = "USEU" -> <<"use", exprs(k)[1]>>
        [] k[1].sym \in {"EXPO", "TYPE"} -> <<"type", k[1].sym = "EXPO", exprs(k)[1]>>
        [] k[1].sym = "LBRA" -> <<"label", exprs(k)[1]>>
        [] k[1].sym = "LBRC" -> <<"block", stmts(k)>>
        [] k[1].sym = "NOIN" -> <<"noint", stmts(k)>>
        [] k[1].sym \in {"Qual", "Expr"} -> <<"expr", quals(k), exprs(k)[1]>>
        [] k[1].sym = "Func" ->
             LET f == k[1].kids IN <<"func", quals(f), exprs(f)[1], stmts(f)>>
        [] k[1].sym = "Ctrl" ->
             LET c == k[1].kids[1].kids
                 elifs == Are(k[1].kids, "Elif")
                 else == Are(k[1].kids, "Else")
             IN  CASE c[1].sym = "WHIL" -> <<"while", exprs(c)[1], stmts(c)>>
                   [] c[1].sym = "DOWH" -> <<"do", stmts(c), exprs(c)[1]>>
                   [] c[1].sym = "COND" ->
                        <<"if", exprs(c)[1], stmts(c),
                          [i \in DOMAIN elifs |->
                             <<exprs(elifs[i].kids)[1], stmts(elifs[i].kids)>>],
                          [i \in DOMAIN else |-> stmts(else[i].kids)]>>

Unit(root) == LET ss == Are(root.kids, "Stmt") IN [i \in DOMAIN ss |-> Stmt(ss[i])]

-----------------------------------------------------------------------------
(***************************************************************************)
(* Properties                                                              *)
(***************************************************************************)
\* A program that is written as C would write its expressions is accepted, and
\* the tree is the one that was meant: precedence, associativity, the part of a
\* statement each expression is, the elif and else that belong to an if
TreeAsWritten ==
  wrote # <<>> /\ parsed \in {"OK", "REJECT"} => tree # <<>> /\ Unit(tree[1]) = wrote

===============================================================================
