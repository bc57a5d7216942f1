--------------------------------- MODULE Scope ---------------------------------
(***************************************************************************)
(* Scopes (scope.c) and what the type checker looks up in them (type.c):   *)
(* the objects of each block, the labels of each function, which object a  *)
(* name refers to and which label a "::" refers to.  The types themselves  *)
(* are left out: whether all of them fit is a choice.                      *)
(***************************************************************************)
EXTENDS Ast, FiniteSets

VARIABLES
  scoped,    \* "none", or what scope_build returned: "OK", "NOMEM", "DUPLICATED"
  checked,   \* "none", or what type_check_ast returned: "OK", "INVALID"
  refs       \* what the names and labels in the program refer to

scopeVars == <<scoped, checked, refs>>

-----------------------------------------------------------------------------
(***************************************************************************)
(* Building.  The world has the memory, the error, the labels of the       *)
(* current function (outer_func) and the node built.                       *)
(***************************************************************************)
\* An object: its name, its kind, the token that declares it and the first name
\* of that declaration
Object(kind, at, first) == [name |-> Word(at), obj |-> kind, at |-> at, first |-> first]

Builtins ==
  LET names == <<"null", "true", "false", "|", "monotime", "malloc", "calloc", "realloc", "free",
                 "ps", "pu8", "pi8", "pu16", "pi16", "pu32", "pi32", "pu64", "pi64", "pnl",
                 "exit">>
  IN  [i \in DOMAIN names |-> [name |-> names[i], obj |-> IF i <= 3 THEN "BCON" ELSE "BFUN",
                               at |-> 0, first |-> 0]]

Declares(stmt, kind) ==
  IF stmt.an # "DECL" THEN <<>>
  ELSE [i \in DOMAIN stmt.names |-> Object(kind, stmt.names[i], stmt.names[1])]

Declared(stmts, kind) == Fold(LAMBDA s, stmt : s \o Declares(stmt, kind), <<>>, stmts)

\* find_duplicates: of objects with one name none is left
FindDuplicates(objs) ==
  [i \in DOMAIN objs |->
     IF \E j \in DOMAIN objs : j # i /\ objs[j].name = objs[i].name
     THEN [objs[i] EXCEPT !.obj = "DUPL"] ELSE objs[i]]

Duplicated(objs) ==
  IF \E i \in DOMAIN objs : objs[i].obj = "DUPL" THEN "DUPLICATED" ELSE "OK"

\* aggr_error of scope.c
AggrScope(error, current) ==
  CASE error = "OK" -> current
    [] error = "NOMEM" -> "NOMEM"
    [] error = "DUPLICATED" -> IF current = "NOMEM" THEN "NOMEM" ELSE "DUPLICATED"

\* add_func_wlab
AddFuncWlab(w, stmt) ==
  Then(Realloc(w.mem, w.labs.ptr), LAMBDA g :
    IF g.ptr = 0
    THEN [w EXCEPT !.mem = Free(g, w.labs.ptr), !.labs = [ptr |-> 0, names |-> <<>>],
                   !.err = AggrScope(@, "NOMEM"), !.out.kids = Append(@, stmt)]
    ELSE [w EXCEPT !.mem = g, !.labs = [ptr |-> g.ptr, names |-> Append(@.names, Word(stmt.names[1]))],
                   !.out.kids = Append(@, stmt)])

\* qsort by name: equal names next to each other.  In which order different
\* names come makes no difference.
Sorted(names) ==
  Fold(LAMBDA s, word : IF word \in {s[i] : i \in DOMAIN s} THEN s
                        ELSE s \o SelectSeq(names, LAMBDA o : o = word), <<>>, names)

\* Variant: the number is never increased
SameNumber(names) == [i \in DOMAIN names |-> [name |-> names[i], id |-> 1]]

\* identify_wlabs: a new number where a new name begins
IdentifyWlabs(names) ==
  [i \in DOMAIN names |->
     [name |-> names[i],
      id |-> Cardinality({j \in 1 .. i : j = 1 \/ names[j] # names[j - 1]})]]

\* scope_build_inner
RECURSIVE ScopeInner(_, _)

\* Each statement of the node in out in its turn; what is no block stays as it is
ScopeStmt(w, stmt) ==
  IF stmt.an = "WLAB" THEN AddFuncWlab(w, stmt)
  ELSE IF stmt.an = "NULL" THEN [w EXCEPT !.out.kids = Append(@, stmt)]
  ELSE Then(ScopeInner([w EXCEPT !.err = "OK"], stmt), LAMBDA v :
         [Put(v, w.out, "kids") EXCEPT !.err = AggrScope(w.err, v.err)])

\* The node with a scope, its objects and its statements
ScopeBlock(w, node, objs) ==
  Fill([w EXCEPT !.out = node], LAMBDA v, id :
    Then([v EXCEPT !.out = [node EXCEPT !.blocks = Append(@, id), !.kids = <<>>,
                                        !.scope = FindDuplicates(objs)]], LAMBDA u :
      Then(Fold(ScopeStmt, u, node.kids), LAMBDA a :
        [a EXCEPT !.err = AggrScope(@, Duplicated(u.out.scope))])))

ScopeFunc(w, node) ==
  LET params == [i \in 1 .. Len(node.names) - 1 |-> Object("PARM", node.names[i + 1], 0)]
  IN  Then(ScopeBlock([w EXCEPT !.labs = [ptr |-> 0, names |-> <<>>]], node,
                      params \o Declared(node.kids, "AVAR")), LAMBDA v :
        [v EXCEPT !.out.wlabs = IdentifyWlabs(Sorted(v.labs.names)),
                  !.out.blocks = Append(@, v.labs.ptr)])

\* The blocks of an if must be there, except that of the else
ScopeCond(w, node) ==
  Fold(LAMBDA v, i :
         ScopeStmt([v EXCEPT !.mem = Assert_(@, i % 2 = 1 \/ node.kids[i].an # "NULL")],
                   node.kids[i]),
       [w EXCEPT !.out = [node EXCEPT !.kids = <<>>]], [i \in DOMAIN node.kids |-> i])

ScopeInner(w, node) ==
  CASE node.an = "FUNC" -> ScopeFunc(w, node)
    [] node.an \in {"BLOK", "NOIN", "WHIL", "DOWH"} ->
         ScopeBlock(w, node, Declared(node.kids, "AVAR"))
    [] node.an = "COND" -> ScopeCond(w, node)
    [] OTHER -> [w EXCEPT !.out = node]

\* scope_build: only functions are looked into
ScopeBuild(g, root) ==
  LET objs == Builtins
              \o Fold(LAMBDA s, stmt :
                        s \o IF stmt.an = "FUNC"
                             THEN <<Object("FUNC", stmt.names[1], 0)>>
                             ELSE Declares(stmt, "GVAR"), <<>>, root.kids)
      w == [mem |-> g, err |-> "OK", labs |-> [ptr |-> 0, names |-> <<>>], out |-> root]
      keep(v, stmt) == [v EXCEPT !.out.kids = Append(@, stmt)]
  IN  Fill(w, LAMBDA v, id :
        Then([v EXCEPT !.out = [root EXCEPT !.blocks = <<id>>, !.kids = <<>>,
                                            !.scope = FindDuplicates(objs)]], LAMBDA u :
          Then(Fold(LAMBDA a, s : IF s.an = "FUNC" THEN ScopeStmt(a, s) ELSE keep(a, s),
                    u, root.kids), LAMBDA a :
            [a EXCEPT !.err = AggrScope(@, Duplicated(u.out.scope))])))

-----------------------------------------------------------------------------
(***************************************************************************)
(* Looking up                                                              *)
(***************************************************************************)
None == [obj |-> "NONE"]         \* not found
Missing == [obj |-> "MISSING"]   \* read through NULL

Of(objs, word) == {objs[i] : i \in {j \in DOMAIN objs : objs[j].name = word}}

\* Variant: wherever it is declared
FindAnywhere(chain, at) ==
  LET found(i) == {o \in Of(chain[i], Word(at)) : o.obj # "DUPL"}
      hits == {i \in DOMAIN chain : found(i) # {}}
      nearest == CHOOSE i \in hits : \A j \in hits : i <= j
  IN  IF hits = {} THEN None ELSE CHOOSE o \in found(nearest) : TRUE

\* scope_find_object: the chain goes from the inner to the outer scope.  The
\* objects of a scope are sorted and searched by bisection, which finds what is
\* there.
FindObject(chain, at) ==
  LET found(i) == {o \in Of(chain[i], Word(at)) : o.obj # "DUPL"}
      hits == {i \in DOMAIN chain : found(i) # {}}
      nearest == CHOOSE i \in hits : \A j \in hits : i <= j
      obj == CHOOSE o \in found(nearest) : TRUE
  IN  IF hits = {} \/ (obj.obj = "AVAR" /\ at <= obj.first) THEN None ELSE obj

\* scope_find_wlab: the label l of a function
FindWlab(func, l) ==
  LET found == Of(func.wlabs, Word(l))
  IN  IF found = {} THEN None
      ELSE [obj |-> "WLAB", func |-> func.names[1], id |-> (CHOOSE o \in found : TRUE).id]

\* f::l, where f is looked up in the scope of the unit
FindScoped(f, l) ==
  LET found == FindObject(<<ast.scope>>, f)
  IN  IF found.obj # "FUNC" THEN None
      ELSE LET i == CHOOSE k \in DOMAIN ast.kids :
                      ast.kids[k].an = "FUNC" /\ ast.kids[k].names[1] = found.at
           IN  FindWlab(ast.kids[i], l)

Ref(at, to) == {[at |-> at, to |-> to]}

\* The node e is what follows "until" or "@"
LabelRef(e) ==
  IF ~(e.an = "Bexp" /\ e.op = "SCOP") THEN Ref(e.at, None)
  ELSE IF e.kids[1].an = "NULL" \/ (Len(e.kids) = 2 /\ e.kids[2].an = "NULL")
  THEN Ref(e.at, Missing)
  ELSE IF Len(e.kids) < 2 \/ e.kids[1].an # "NAME" \/ e.kids[2].an # "NAME"
  THEN Ref(e.at, None)
  ELSE Ref(e.kids[2].at, FindScoped(e.kids[1].at, e.kids[2].at))

\* type_from_expr: what the names in the expression e refer to
RECURSIVE Uses(_, _)
Uses(e, chain) ==
  LET all == UNION {Uses(e.kids[i], chain) : i \in DOMAIN e.kids}
      lhs == Uses(e.kids[1], chain)
      norhs == Len(e.kids) = 2 /\ e.kids[2].an = "NULL"
  IN  CASE e.an \in {"NULL", "VOID"} -> Ref(0, None)
        [] e.an = "NAME" -> Ref(e.at, FindObject(chain, e.at))
        [] e.an = "Bexp" /\ e.op = "SCOP" ->
             IF norhs \/ e.kids[1].an = "NULL" THEN Ref(e.at, Missing) ELSE {}
        [] e.an = "Bexp" /\ e.op \in {"MEMB", "AROW"} ->
             lhs \cup IF norhs THEN Ref(e.at, Missing) ELSE {}
        [] e.an = "Bexp" /\ e.op = "ATSI" ->
             lhs \cup IF Len(e.kids) < 2 THEN {}
                      ELSE IF norhs THEN Ref(e.at, Missing)
                      ELSE IF e.kids[2].an = "NAME" /\ Word(e.kids[2].at) \in {"start", "end"}
                      THEN {} ELSE LabelRef(e.kids[2])
        [] e.an = "Bexp" /\ e.op \in {"CAST", "COLN"} ->
             lhs \cup IF e.types = <<>> THEN Ref(e.at, None) ELSE {}
        [] OTHER -> all

-----------------------------------------------------------------------------
(***************************************************************************)
(* The walk of the type checker                                            *)
(***************************************************************************)
\* check_retn: a value is returned exactly where there is a type for it
CheckRetn(stmt, chain, func) ==
  IF (stmt.kids # <<>>) # (func.op = "RETN") THEN Ref(stmt.at, None)
  ELSE UNION {Uses(stmt.kids[i], chain) : i \in DOMAIN stmt.kids}

CheckWait(stmt, chain) ==
  Uses(stmt.kids[1], chain) \cup
    CASE stmt.op = "WFOR" -> Uses(stmt.kids[2], chain)
      [] stmt.op = "WUNT" -> LabelRef(stmt.kids[2])
      [] OTHER -> {}

\* identify_wlab: the label must be there
IdentifyWlab(stmt, func) ==
  LET found == FindWlab(func, stmt.names[1])
  IN  Ref(stmt.names[1], IF found = None THEN Missing ELSE found)

RECURSIVE CheckBlock(_, _, _)

\* One statement of a block whose scope is the first of the chain.  The
\* conditions of if, while and do belong to that scope, not to the block they
\* govern.
CheckStmt(stmt, chain, func) ==
  CASE stmt.an \in {"NULL", "VOID", "USEU", "TYPE", "FUNC"} -> {}
    [] stmt.an = "DECL" -> UNION {Uses(stmt.kids[i], chain) : i \in DOMAIN stmt.kids}
    [] stmt.an = "COND" ->
         UNION {LET kid == stmt.kids[i]
                    else == i = Len(stmt.kids) /\ i % 2 = 1
                IN  CASE i % 2 = 0 \/ (else /\ kid.an # "NULL") -> CheckBlock(kid, chain, func)
                      [] else /\ kid.an = "NULL" -> {}
                      [] OTHER -> Uses(kid, chain) : i \in DOMAIN stmt.kids}
    [] stmt.an \in {"BLOK", "NOIN", "WHIL", "DOWH"} ->
         CheckBlock(stmt, chain, func) \cup
           CASE stmt.an = "WHIL" -> Uses(stmt.kids[1], chain)
             [] stmt.an = "DOWH" -> Uses(Last(stmt.kids), chain)
             [] OTHER -> {}
    [] stmt.an = "RETN" -> CheckRetn(stmt, chain, func)
    [] stmt.an = "WAIT" -> CheckWait(stmt, chain)
    [] stmt.an = "WLAB" -> IdentifyWlab(stmt, func)
    [] OTHER -> Uses(stmt, chain)

CheckBlock(node, chain, func) ==
  LET stmts == CASE node.an = "WHIL" -> Tail(node.kids)
                 [] node.an = "DOWH" -> Front(node.kids)
                 [] OTHER -> node.kids
  IN  IF node.an = "NULL" THEN Ref(0, Missing)
      ELSE UNION {CheckStmt(stmts[i], <<node.scope>> \o chain, func) : i \in DOMAIN stmts}

\* type_check_ast; an expression is no statement of the unit
CheckUnit(root) ==
  UNION {LET stmt == root.kids[i]
         IN  CASE stmt.an = "DECL" -> CheckStmt(stmt, <<root.scope>>, stmt)
               [] stmt.an = "FUNC" -> CheckBlock(stmt, <<root.scope>>, stmt)
               [] stmt.an \in {"NULL", "VOID", "USEU", "TYPE", "BLOK", "NOIN", "COND", "WHIL",
                               "DOWH", "RETN", "WAIT", "WLAB"} -> {}
               [] OTHER -> Ref(stmt.at, None) : i \in DOMAIN root.kids}

-----------------------------------------------------------------------------
MakeScopes ==
  /\ scoped = "none"
  /\ \E g \in Faults(mem, MaxCalls) : \E w \in {ScopeBuild(g, ast)} :
       /\ Hit(g, w.mem)
       /\ ast' = w.out /\ mem' = w.mem /\ scoped' = w.err

\* Every name and label found; "typed": every type fits
CheckTypes ==
  /\ checked = "none"
  /\ refs' = CheckUnit(ast)
  /\ mem' = Assert_(mem, \A r \in refs' : r.to # Missing)
  /\ \E typed \in BOOLEAN :
       checked' = IF typed /\ \A r \in refs' : r.to \notin {None, Missing} THEN "OK" ELSE "INVALID"

=============================================================================
