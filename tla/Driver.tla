--------------------------------- MODULE Driver --------------------------------
(***************************************************************************)
(* The driver (main.c): one phase after the other, and the chain of labels *)
(* that releases what the phases left.  The phases are Lex, Parse, Ast and *)
(* Scope; what code generation and execution do is in Gen, Machine and     *)
(* Qvm, here they count by what they allocate and how they end.            *)
(***************************************************************************)
EXTENDS Scope

VARIABLES
  pc,       \* where main is: a phase, or the label of a release
  held,     \* what of "fd" and "map" is open
  object,   \* the blocks of the instructions and of the strings
  status    \* exit_status

driverVars == <<pc, held, object, status>>

vars == <<lexVars, parseVars, astVars, scopeVars, driverVars, mem>>

-----------------------------------------------------------------------------
DriverInit ==
  /\ pc = "open" /\ held = {} /\ object = [insns |-> 0, strings |-> 0] /\ status = "FAILURE"
  /\ ast = Nil /\ symtab = NoTypes /\ built = "none"
  /\ scoped = "none" /\ checked = "none" /\ refs = {}

\* The file is opened and mapped: it cannot be opened, fstat or mmap fails or it
\* is empty, or all is well
OpenFile ==
  /\ pc = "open"
  /\ \/ pc' = "out_exit" /\ UNCHANGED held
     \/ pc' = "out_close" /\ held' = {"fd"}
     \/ pc' = "lex" /\ held' = {"fd", "map"} /\ text # ""
  /\ UNCHANGED <<lexVars, parseVars, astVars, scopeVars, object, status, mem>>

\* One step of a phase; where it goes from there once the phase has a result
LexStep ==
  /\ pc = "lex" /\ LexNext
  /\ pc' = CASE lexed' = "RUN" -> "lex"
             [] lexed' = "OK" -> "parse"
             [] OTHER -> "out_destroy_tokens"
  /\ UNCHANGED <<parseVars, astVars, scopeVars, held, object, status>>

ParseStep ==
  /\ pc = "parse" /\ ParseNext
  /\ pc' = CASE parsed' = "RUN" -> "parse"
             [] parsed' = "OK" -> "ast"
             [] OTHER -> "out_destroy_tokens"
  /\ UNCHANGED <<lexVars, astVars, scopeVars, held, object, status>>

\* An invalid tree is still checked, so that all errors are told at once
AstStep ==
  /\ pc = "ast" /\ Build
  /\ pc' = IF built' = "NOMEM" THEN "out_destroy_ast" ELSE "scope"
  /\ UNCHANGED <<lexVars, parseVars, scopeVars, held, object, status>>

ScopeStep ==
  /\ pc = "scope" /\ MakeScopes
  /\ pc' = IF scoped' = "NOMEM" THEN "out_destroy_ast" ELSE "check"
  /\ UNCHANGED <<lexVars, parseVars, symtab, built, checked, refs, held, object, status>>

\* Variant: what the type checker says is enough
TypesOnly(errors) == errors[3] # "OK"

\* Whether one of ast_error, scope_error and type_check_error is set
Rejected(errors) == \E i \in DOMAIN errors : errors[i] # "OK"

CheckStep ==
  /\ pc = "check" /\ CheckTypes
  /\ pc' = IF Rejected(<<built, scoped, checked'>>) THEN "out_destroy_ast" ELSE "codegen"
  /\ UNCHANGED <<lexVars, parseVars, astVars, scoped, held, object, status>>

\* codegen_obj_create: first there is nothing, then instructions, then strings
\* if the program has any
CodegenStep ==
  /\ pc = "codegen"
  /\ \E strings \in 0 .. 1 : \E g \in Faults(mem, 1 + strings) :
       LET i == Alloc(g)
           s == IF strings = 1 /\ i.ptr # 0 THEN Alloc(i) ELSE [i EXCEPT !.ptr = 0]
           failed == i.ptr = 0 \/ (strings = 1 /\ s.ptr = 0)
       IN  /\ Hit(g, s) /\ mem' = s
           /\ object' = [insns |-> i.ptr, strings |-> s.ptr]
           /\ pc' = IF failed THEN "out_destroy_obj" ELSE "release"
  /\ UNCHANGED <<lexVars, parseVars, astVars, scopeVars, held, status>>

\* Variant: the tree is destroyed and remembered
KeepAst(g, root) == <<AstDestroy(g, root), root>>

\* ast_destroy(ast), ast = NULL
DropAst(g, root) == <<AstDestroy(g, root), Nil>>

\* Everything but the object is given back before the program runs, and
\* forgotten, because the labels follow
Release ==
  /\ pc = "release" /\ pc' = "exec"
  /\ LET dropped == DropAst(SymtabClear(mem, symtab), ast)
     IN  mem' = Free(dropped[1], array.ptr) /\ ast' = dropped[2]
  /\ symtab' = NoTypes /\ array' = [array EXCEPT !.ptr = 0] /\ held' = {}
  /\ UNCHANGED <<text, prefix, auto, tokens, lexed, parseVars, built, scopeVars, object, status>>

\* The program runs and ends in one way or another
Exec ==
  /\ pc = "exec" /\ pc' = "out_destroy_obj" /\ status' \in {"SUCCESS", "FAILURE"}
  /\ UNCHANGED <<lexVars, parseVars, astVars, scopeVars, held, object, mem>>

OutDestroyObj ==
  /\ pc = "out_destroy_obj" /\ pc' = "out_destroy_ast"
  /\ mem' = Free(Free(mem, object.strings), object.insns)
  /\ UNCHANGED <<lexVars, parseVars, astVars, scopeVars, held, object, status>>

OutDestroyAst ==
  /\ pc = "out_destroy_ast" /\ pc' = "out_destroy_tokens"
  /\ mem' = AstDestroy(SymtabClear(mem, symtab), ast) /\ symtab' = NoTypes
  /\ UNCHANGED <<lexVars, parseVars, ast, built, scopeVars, held, object, status>>

\* free(tokens), and munmap unless mapped is NULL
OutDestroyTokens ==
  /\ pc = "out_destroy_tokens" /\ pc' = "out_close"
  /\ mem' = Free(mem, array.ptr) /\ held' = held \ {"map"}
  /\ UNCHANGED <<lexVars, parseVars, astVars, scopeVars, object, status>>

\* close unless fd is -1
OutClose ==
  /\ pc = "out_close" /\ pc' = "out_exit" /\ held' = held \ {"fd"}
  /\ UNCHANGED <<lexVars, parseVars, astVars, scopeVars, object, status, mem>>

DriverNext ==
  \/ OpenFile \/ LexStep \/ ParseStep \/ AstStep \/ ScopeStep \/ CheckStep \/ CodegenStep
  \/ Release \/ Exec \/ OutDestroyObj \/ OutDestroyAst \/ OutDestroyTokens \/ OutClose

=============================================================================
