--------------------------------- MODULE Front ---------------------------------
(***************************************************************************)
(* The compiler from the file to the object code and back to nothing, and  *)
(* what it promises: that it says what is wrong with a program and never   *)
(* breaks over it, that it runs only what it has understood, and that what *)
(* the names and labels in it refer to is what a reader would think.       *)
(***************************************************************************)
EXTENDS Driver, Written

FrontNext == DriverNext /\ UNCHANGED wrote

-----------------------------------------------------------------------------
(***************************************************************************)
(* Memory and failure                                                      *)
(***************************************************************************)
\* Two mistakes of a program that the compiler does not survive.  The name or the
\* label after ".", "->", "@" or "::" could not be made, a time for instance, and
\* the type checker reads through the pointer to it (type.c:894, 912, 958) ...
RECURSIVE NamelessOperand(_)
NamelessOperand(node) ==
  /\ node.an # "NULL"
  /\ \/ /\ node.an = "Bexp" /\ node.op \in {"MEMB", "AROW", "ATSI", "SCOP"}
        /\ \E i \in DOMAIN node.kids : node.kids[i].an = "NULL"
     \/ \E i \in DOMAIN node.kids : NamelessOperand(node.kids[i])

\* ... and an enum is given an enum declared before as its type (ast.c:647)
DeclaresEnum(b, e) ==
  /\ b < e /\ tokens[b].tk = "TYPE" /\ tokens[e].tk = "SCOL"
  /\ \A i \in b .. e - 1 : tokens[i].tk # "SCOL"
  /\ \E i \in b .. e : tokens[i].tk = "NAME" /\ Word(i) = "enum"

FirstName(b) == CHOOSE i \in DOMAIN tokens :
  /\ b < i /\ tokens[i].tk = "NAME"
  /\ \A j \in b .. i - 1 : tokens[j].tk # "NAME"

EnumOfEnum ==
  \E b, c \in DOMAIN tokens :
    /\ b < c
    /\ \E e \in b .. c : DeclaresEnum(b, e)
    /\ \E e \in c .. Len(tokens) :
         /\ DeclaresEnum(c, e)
         /\ \E i \in c .. e :
              /\ tokens[i].tk = "NAME" /\ Word(i) = Word(FirstName(b))
              /\ \A j \in i .. e : tokens[j].tk # "RPAR"

\* Whatever the program, whichever allocation fails, and with the holes that errors
\* leave in the tree: no step frees a block that is not allocated, fails an
\* assertion of ast.c, scope.c or type.c or reads through a pointer to a node that
\* was never made, but for the type checker on a nameless operand and the tree
\* builder on an enum of an enum.
OnlyTwoMistakesBreakIt ==
  [][mem'.wrong /\ ~mem.wrong =>
       \/ pc = "check" /\ NamelessOperand(ast)
       \/ pc = "ast" /\ EnumOfEnum]_vars

\* The nodes that were given up before they were whole
RECURSIVE Unfinished(_)
Unfinished(node) ==
  CASE node.an = "NULL" -> <<>>
    [] node.an = "VOID" -> <<node>>
    [] OTHER -> Fold(LAMBDA s, kid : s \o Unfinished(kid), <<>>, node.kids)

\* When main returns the file is closed and every block has been freed, whatever
\* the errors of the program and whichever allocation has failed.  Excepted is
\* what a function or a wait had already filled in when it was given up, its
\* parameters (ast.c:865) or the quaint that is waited for: ast_destroy frees an
\* unfinished node and nothing below it, so these blocks, and no others, are lost.
ReleasedAtExit ==
  pc = "out_exit" =>
    LET lost == Fold(LAMBDA g, node : AstDestroy(g, [node EXCEPT !.an = "FUNC", !.id = 0]),
                     mem, Unfinished(ast))
    IN  held = {} /\ lost.live = {}

\* Once an allocation has failed, no error of another kind and no later success
\* hides it: the program is not run
FaultStops == mem.fails \in 1 .. mem.n => pc # "exec" /\ status = "FAILURE"

\* main returns, whatever the file.  The compiler is one thread; nothing but the
\* end of main stops it.
Terminates == <>(pc = "out_exit")

-----------------------------------------------------------------------------
(***************************************************************************)
(* What code generation is given                                           *)
(***************************************************************************)
\* A node that gen_stmt and gen_expr know, and all below it
RECURSIVE Known(_)
Known(node) ==
  /\ node.an \notin {"NULL", "VOID", "UNIT", "USEU", "TYPE", "FUNC"}
  /\ \A i \in DOMAIN node.kids : Known(node.kids[i])

\* Errors are collected over several phases, over a tree with holes where they
\* were found; the tree that code generation is given has none, and nothing in it
\* is where it must not be
ReadyForCodegen ==
  pc = "codegen" =>
    \A i \in DOMAIN ast.kids :
      LET stmt == ast.kids[i]
      IN  /\ stmt.an \in {"USEU", "TYPE", "DECL", "FUNC"}
          /\ \A j \in DOMAIN stmt.kids : Known(stmt.kids[j])

-----------------------------------------------------------------------------
(***************************************************************************)
(* Names and labels, read off the text                                     *)
(***************************************************************************)
Count(tk, i, j) == Cardinality({k \in i .. j : tokens[k].tk = tk})

\* The block that token i stands in is closed before token j
ClosedBefore(i, j) ==
  \E k \in i + 1 .. j : Count("RBRC", i + 1, k) > Count("LBRC", i + 1, k)

\* The local declarations at or below a node, each with the token from which
\* its block is open
RECURSIVE Locals(_)
Locals(node) ==
  LET brace(i) == CHOOSE j \in i .. Len(tokens) :
                    tokens[j].tk = "LBRC" /\ Count("LBRC", i, j) = 1
      own == CASE node.an = "DECL" -> {[at |-> node.names[i], from |-> node.names[i]] :
                                       i \in DOMAIN node.names}
               [] node.an = "FUNC" -> {[at |-> node.names[i], from |-> brace(node.names[i])] :
                                       i \in 2 .. Len(node.names)}
               [] OTHER -> {}
  IN  own \cup UNION {Locals(node.kids[i]) : i \in DOMAIN node.kids}

\* The last declaration of the name before its use whose block is still open; if
\* there is none, that of the unit, or a builtin
MeantBy(use, locals, globals) ==
  LET same == {d \in locals : Word(d.at) = Word(use) /\ d.at < use /\ ~ClosedBefore(d.from, use)}
      at == IF same # {} THEN {d.at : d \in same}
            ELSE {0} \cup {d \in globals : Word(d) = Word(use)}
  IN  CHOOSE d \in at : \A e \in at : e <= d

\* Each name of an accepted program refers to the declaration that a reader finds
\* going back from it, out of the blocks it stands in: a name in an inner block
\* hides the outer one from there on, a condition sees nothing of the block it
\* governs
NamesAsMeant ==
  pc = "codegen" =>
    LET funcs == {i \in DOMAIN ast.kids : ast.kids[i].an = "FUNC"}
        decls == {i \in DOMAIN ast.kids : ast.kids[i].an = "DECL"}
        locals == UNION {Locals(ast.kids[i]) : i \in funcs}
        globals == {ast.kids[i].names[1] : i \in funcs} \cup
                   UNION {{ast.kids[i].names[j] : j \in DOMAIN ast.kids[i].names} : i \in decls}
    IN  \A r \in refs : r.to.obj # "WLAB" => r.to.at = MeantBy(r.at, locals, globals)

\* The labels an accepted program sets and those it waits for: in one function
\* the same name is the same number and different names are different numbers,
\* and what is waited for is set somewhere in the function that is named
LabelsAsMeant ==
  pc = "codegen" =>
    LET labels == {r \in refs : r.to.obj = "WLAB"}
        sets == {r \in labels : tokens[r.at - 1].tk = "LBRA"}
        funcs == {ast.kids[i].names[1] : i \in {j \in DOMAIN ast.kids : ast.kids[j].an = "FUNC"}}
    IN  /\ \A r, s \in labels :
             r.to.func = s.to.func => (Word(r.at) = Word(s.at)) = (r.to.id = s.to.id)
        /\ \A r \in sets : r.to.func < r.at /\ ~\E f \in funcs : r.to.func < f /\ f < r.at
        /\ \A r \in labels \ sets : \E s \in sets : s.to = r.to

=============================================================================
