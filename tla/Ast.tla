---------------------------------- MODULE Ast ----------------------------------
(***************************************************************************)
(* The syntax tree (ast.c) and the types written in it (type.c): what      *)
(* ast_build makes of a parse tree, with every allocation it makes and     *)
(* every path on which it gives up.                                        *)
(*                                                                         *)
(* Each function takes the world w, with the memory, the table of named    *)
(* types, the stack of contexts, the error and what the function fills in  *)
(* (out), and gives the world after it.                                    *)
(***************************************************************************)
EXTENDS Parse

VARIABLES
  ast,      \* the root, Nil if there is none
  symtab,   \* the types declared so far, and the block that holds them
  built     \* "none", or what ast_build returned: "OK", "NOMEM", "INVALID"

astVars == <<ast, symtab, built>>

-----------------------------------------------------------------------------
(***************************************************************************)
(* Reading the parse tree.  An x is an Expr unless said otherwise.         *)
(***************************************************************************)
Is(x, sym) == x.kids[1].sym = sym
IsAtom(x, tk) == Is(x, "Atom") /\ x.kids[1].kids[1].sym = tk
IsBexp(x, op) == Is(x, "Bexp") /\ x.kids[1].kids[2].sym = op
Lhs(x) == x.kids[1].kids[1]
Rhs(x) == x.kids[1].kids[3]

\* The token of an atom, and how it is spelled
Leaf1(x) == x.kids[1].kids[1].at
Word(at) == SubSeq(text, tokens[at].beg, tokens[at].end - 1)

\* The argument of a call, if it has one
Args(x) == IF Len(x.kids[1].kids) = 4 THEN <<x.kids[1].kids[3]>> ELSE <<>>

\* The terms of a list
RECURSIVE Items(_)
Items(x) == IF IsBexp(x, "COMA") THEN <<Lhs(x)>> \o Items(Rhs(x)) ELSE <<x>>

Distinct(ats) == \A i, j \in DOMAIN ats : Word(ats[i]) = Word(ats[j]) => i = j

KidsOf(x, sym) == SelectSeq(x.kids, LAMBDA y : y.sym = sym)
Quals(x) == LET qs == KidsOf(x, "Qual") IN [i \in DOMAIN qs |-> qs[i].kids[1].sym]

RECURSIVE LTok(_)
LTok(x) == IF IsLeaf(x) THEN x.at ELSE LTok(x.kids[1])

-----------------------------------------------------------------------------
(***************************************************************************)
(* The world                                                               *)
(***************************************************************************)
Failed(w, error) == [w EXCEPT !.err = error]

\* The value v.out becomes one more of the "field" of outer
Put(v, outer, field) == [v EXCEPT !.out = [outer EXCEPT ![field] = Append(@, v.out)]]

\* calloc; "with" goes on with the block
Fill(w, with(_, _)) ==
  CHOOSE r \in {IF g.ptr = 0 THEN Failed([w EXCEPT !.mem = g], "NOMEM")
                ELSE with([w EXCEPT !.mem = g], g.ptr) : g \in {Alloc(w.mem)}} : TRUE

\* Go on unless something has failed
Try(w, next(_)) ==
  CHOOSE r \in {IF v.err = "OK" THEN next(v) ELSE v : v \in {w}} : TRUE

\* Variant: the last result counts
Latest(error, current) == current

\* aggr_error: no memory is the worst
Aggr(error, current) ==
  CASE error = "OK" -> current
    [] error = "NOMEM" -> "NOMEM"
    [] error = "INVALID" -> IF current = "NOMEM" THEN "NOMEM" ELSE "INVALID"

-----------------------------------------------------------------------------
(***************************************************************************)
(* Types: the subtype or return type, the array of members, parameters or  *)
(* values, and the types of the members or parameters                      *)
(***************************************************************************)
Type(kind, id) == [t |-> kind, id |-> id, sub |-> <<>>, arr |-> 0, parts |-> <<>>]

TypeNames ==
  [byte |-> "U8", u8 |-> "U8", sbyte |-> "I8", i8 |-> "I8", ushort |-> "U16", u16 |-> "U16",
   short |-> "I16", i16 |-> "I16", uint |-> "U32", u32 |-> "U32", int |-> "I32", i32 |-> "I32",
   ulong |-> "U64", u64 |-> "U64", long |-> "I64", i64 |-> "I64", usize |-> "USIZE",
   ssize |-> "SSIZE", uptr |-> "UPTR", iptr |-> "IPTR", enum |-> "ENUM", ptr |-> "PTR",
   vptr |-> "VPTR", fptr |-> "FPTR", quaint |-> "QUAINT", struct |-> "STRUCT", union |-> "UNION"]

TypeMatch(word) == IF word \in DOMAIN TypeNames THEN TypeNames[word] ELSE "VOID"

Compound == {"PTR", "FPTR", "QUAINT", "STRUCT", "UNION", "ENUM"}

RECURSIVE TypeFree(_, _)
TypeFree(g, ty) == Free(Free(Fold(TypeFree, g, ty.sub \o ty.parts), ty.arr), ty.id)

RECURSIVE TypeCopy(_, _, _)
TypeCopy(w, src, id) ==
  LET Copy(v, s, field) ==
        Try(v, LAMBDA u : Fill(u, LAMBDA a, new :
          Then(TypeCopy(a, s, new), LAMBDA c : Put(c, u.out, field))))
      Array(v) ==
        Try(v, LAMBDA u : IF src.arr = 0 THEN u
                          ELSE Fill(u, LAMBDA a, new : [a EXCEPT !.out.arr = new]))
      sub == Fold(LAMBDA v, s : Copy(v, s, "sub"), [w EXCEPT !.out = Type(src.t, id)], src.sub)
  IN  Fold(LAMBDA v, s : Copy(v, s, "parts"), Array(sub), src.parts)

SymtabFind(tab, word) == {e \in {tab.entries[i] : i \in DOMAIN tab.entries} : e.name = word}

\* type_symtab_clear
NoTypes == [ptr |-> 0, room |-> 0, entries |-> <<>>]
SymtabClear(g, tab) ==
  Free(Fold(LAMBDA h, e : TypeFree(h, e.type), g, tab.entries), tab.ptr)

\* type_symtab_insert, and the type is freed if it cannot be entered
SymtabInsert(w, word, type) ==
  LET entered(v) == [v EXCEPT !.tab.entries = Append(@, [name |-> word, type |-> type])]
      tab == w.tab
  IN  IF SymtabFind(tab, word) # {}
      THEN Failed([w EXCEPT !.mem = TypeFree(@, type)], "INVALID")
      ELSE IF Len(tab.entries) < tab.room THEN entered(w)
      ELSE Then(Realloc(w.mem, tab.ptr), LAMBDA g :
             IF g.ptr = 0
             THEN Failed([w EXCEPT !.mem = TypeFree(SymtabClear(g, tab), type), !.tab = NoTypes],
                         "NOMEM")
             ELSE entered([w EXCEPT !.mem = g, !.tab.ptr = g.ptr,
                                    !.tab.room = (IF tab.room = 0 THEN 1 ELSE tab.room) * 8]))

-----------------------------------------------------------------------------
(***************************************************************************)
(* Type specifications: the type with block id is filled in                *)
(***************************************************************************)
RECURSIVE Typespec(_, _, _)

\* name: type, one of a list
Pair(w, x) ==
  Try(w, LAMBDA v :
    IF ~IsBexp(x, "COLN") \/ ~IsAtom(Lhs(x), "NAME") THEN Failed(v, "INVALID")
    ELSE Fill(v, LAMBDA a, id :
      Then(Typespec(a, Rhs(x), id), LAMBDA u :
        IF u.err # "OK" THEN [u EXCEPT !.mem = TypeFree(@, u.out), !.out = v.out]
        ELSE Then(Realloc(u.mem, v.out.arr), LAMBDA g :
               IF g.ptr = 0
               THEN Failed([v EXCEPT !.mem = TypeFree(g, u.out)], "NOMEM")
               ELSE [v EXCEPT !.mem = g,
                       !.out = [names |-> Append(@.names, Leaf1(Lhs(x))), arr |-> g.ptr,
                                parts |-> Append(@.parts, u.out)]]))))

NoPairs == [names |-> <<>>, arr |-> 0, parts |-> <<>>]

NameTypePairs(w, x) ==
  Then(Fold(Pair, [w EXCEPT !.out = NoPairs], Items(x)), LAMBDA v :
    IF v.err = "OK" /\ Distinct(v.out.names) THEN v
    ELSE [v EXCEPT !.mem = Free(Fold(TypeFree, @, v.out.parts), v.out.arr), !.out = NoPairs,
                   !.err = IF @ = "OK" THEN "INVALID" ELSE @])

\* The members or the parameters of the type outer
Parts(w, outer, args) ==
  IF args = <<>> THEN [w EXCEPT !.out = outer]
  ELSE Then(NameTypePairs(w, args[1]), LAMBDA v :
         [v EXCEPT !.out = [outer EXCEPT !.arr = v.out.arr, !.parts = v.out.parts]])

\* The subtype or the return type of the type outer; without args it is void
Subtype(w, outer, args) ==
  Fill([w EXCEPT !.out = outer], LAMBDA v, id :
    Then(IF args = <<>> THEN [v EXCEPT !.out = Type("VOID", id)] ELSE Typespec(v, args[1], id),
         LAMBDA u : Put(u, outer, "sub")))

\* The token that names the type in "name" and in "name[number]"
PriType(x) ==
  CASE IsAtom(x, "NAME") -> <<Leaf1(x)>>
    [] Is(x, "Aexp") /\ IsAtom(Lhs(x), "NAME") /\ IsAtom(Rhs(x), "NMBR") -> <<Leaf1(Lhs(x))>>
    [] OTHER -> <<>>

\* resolve_type
ResolveType(w, at, id) ==
  LET found == SymtabFind(w.tab, Word(at))
  IN  IF found = {} THEN Failed([w EXCEPT !.out = Type("VOID", id)], "INVALID")
      ELSE TypeCopy(w, (CHOOSE e \in found : TRUE).type, id)

Typespec(w, x, id) ==
  LET sym == x.kids[1].sym
      from == CASE sym \in {"Atom", "Aexp"} -> PriType(x)
                [] sym = "Fexp" -> PriType(Lhs(x))
                [] IsBexp(x, "COLN") /\ Is(Lhs(x), "Fexp") -> PriType(Lhs(Lhs(x)))
                [] OTHER -> <<>>
      kind == IF from = <<>> THEN "VOID" ELSE TypeMatch(Word(from[1]))
      outer == Type(kind, id)
      invalid == Failed([w EXCEPT !.out = outer], "INVALID")
  IN  CASE from = <<>> -> invalid
        [] from # <<>> /\ sym \in {"Atom", "Aexp"} ->
             IF kind \in Compound THEN invalid
             ELSE IF kind = "VOID" THEN ResolveType(w, from[1], id)
             ELSE [w EXCEPT !.out = outer]
        [] from # <<>> /\ sym = "Fexp" ->
             IF kind = "QUAINT" \/ (kind = "PTR" /\ Args(x) # <<>>) THEN Subtype(w, outer, Args(x))
             ELSE IF kind = "FPTR" \/ (kind \in {"STRUCT", "UNION"} /\ Args(x) # <<>>)
             THEN Parts(w, outer, Args(x))
             ELSE invalid
        [] from # <<>> /\ sym = "Bexp" ->
             IF kind = "FPTR"
             THEN Try(Parts(w, outer, Args(Lhs(x))), LAMBDA v : Subtype(v, v.out, <<Rhs(x)>>))
             ELSE invalid

\* typespec_appears_enum
RECURSIVE AppearsEnum(_)
AppearsEnum(x) ==
  \/ Is(x, "Fexp") /\ IsAtom(Lhs(x), "NAME") /\ Word(Leaf1(Lhs(x))) = "enum"
  \/ IsBexp(x, "COLN") /\ AppearsEnum(Lhs(x))

\* What type_is_integral and type_is_unsigned are both true of, and what of it
\* enum_boundary_from_type has a boundary for.  An enum of the model never has
\* so many values that it crosses it.
UnsignedTypes == {"U8", "U16", "U32", "U64", "USIZE", "UPTR", "ENUM"}
BoundedTypes == UnsignedTypes \ {"ENUM"}

\* validate_typespec_enum, the explicit type first
ExplicitType(w, x) ==
  IF ~Is(x, "Bexp") THEN w
  ELSE Fill(w, LAMBDA v, id :
         Then(Typespec(v, Rhs(x), id), LAMBDA u :
           LET freed == [u EXCEPT !.mem = TypeFree(@, u.out)]
           IN  IF u.err = "OK" /\ u.out.t \notin UnsignedTypes THEN Failed(freed, "INVALID")
               ELSE freed))

EnumValue(w, x) ==
  Try(w, LAMBDA v :
    IF ~IsAtom(x, "NAME") THEN Failed(v, "INVALID")
    ELSE Then(Realloc(v.mem, v.out.arr), LAMBDA g :
           IF g.ptr = 0 THEN Failed([v EXCEPT !.mem = g], "NOMEM")
           ELSE [v EXCEPT !.mem = g, !.out.arr = g.ptr,
                          !.out.names = Append(@, Leaf1(x))]))

TypespecEnum(w, x, id) ==
  LET args == Args(IF Is(x, "Bexp") THEN Lhs(x) ELSE x)
      void(v) == [v EXCEPT !.out = Type("VOID", id)]
  IN  Then(ExplicitType(w, x), LAMBDA v :
        IF v.err # "OK" THEN void(v)
        ELSE IF args = <<>> THEN Failed(void(v), "INVALID")
        ELSE Then(Fold(EnumValue, [v EXCEPT !.out = NoPairs], Items(args[1])), LAMBDA u :
               IF u.err = "OK" /\ Distinct(u.out.names)
               THEN [u EXCEPT !.out = [Type("ENUM", id) EXCEPT !.arr = u.out.arr],
                              !.mem = Assert_(@, Is(x, "Bexp") => v.out.t \in BoundedTypes)]
               ELSE void([u EXCEPT !.mem = Free(@, u.out.arr),
                                   !.err = IF @ = "OK" THEN "INVALID" ELSE @])))

-----------------------------------------------------------------------------
(***************************************************************************)
(* Nodes.  A node is VOID until it is whole; an expression has its kind    *)
(* from the start.  It owns the children, the types and the blocks.        *)
(***************************************************************************)
AstNode(an, id, x) ==
  [an |-> an, id |-> id, at |-> LTok(x), op |-> "", names |-> <<>>,
   kids |-> <<>>, types |-> <<>>, blocks |-> <<>>, scope |-> <<>>, wlabs |-> <<>>]

Nil == [an |-> "NULL", id |-> 0]

RECURSIVE AstDestroy(_, _)
AstDestroy(g, node) ==
  IF node.an = "NULL" THEN g
  ELSE IF node.an = "VOID" THEN Free(g, node.id)
  ELSE Then(Fold(AstDestroy, g, node.kids), LAMBDA h :
         Free(Fold(Free, Fold(TypeFree, h, node.types), node.blocks), node.id))

\* alloc_node and set_node; "fill" goes on with the node in out
NewNode(w, an, x, fill(_)) ==
  CHOOSE r \in {IF g.ptr = 0 THEN Failed([w EXCEPT !.mem = g, !.out = Nil], "NOMEM")
                ELSE fill([w EXCEPT !.mem = g, !.out = AstNode(an, g.ptr, x)]) :
                g \in {Alloc(w.mem)}} : TRUE

\* No node at all
NoNode(w) == Failed([w EXCEPT !.out = Nil], "INVALID")

-----------------------------------------------------------------------------
(***************************************************************************)
(* Expressions                                                             *)
(***************************************************************************)
\* Which children of the inner node y are operands, and which of these are types
Operands(y) ==
  CASE y.sym \in {"Bexp", "Aexp"} -> <<1, 3>>
    [] y.sym = "Uexp" -> <<2>>
    [] y.sym = "Fexp" -> IF Len(y.kids) = 4 THEN <<1, 3>> ELSE <<1>>
    [] y.sym = "Xexp" -> <<1>>
    [] y.sym = "Texp" -> <<1, 3, 5>>
    [] y.sym = "Atom" -> <<>>

Operator(y) ==
  CASE y.sym \in {"Bexp", "Xexp"} -> y.kids[2].sym
    [] y.sym = "Uexp" -> y.kids[1].sym
    [] OTHER -> ""

IsTypeOperand(y, i) ==
  \/ Operator(y) \in {"CAST", "COLN"} /\ i = 3
  \/ Operator(y) \in {"SZOF", "ALOF"}

\* The type that follows "as" or sizeof
OperandType(w, x) ==
  Fill(w, LAMBDA v, id :
    Then(Typespec(v, x, id), LAMBDA u :
      IF u.err = "OK" THEN Put(u, w.out, "types")
      ELSE [u EXCEPT !.mem = TypeFree(@, u.out), !.out = w.out]))

RECURSIVE ValidateExpr(_, _)
ValidateExpr(w, y) ==
  LET Operand(v, i) ==
        Try(v, LAMBDA u :
          IF IsTypeOperand(y, i) THEN OperandType(u, y.kids[i])
          ELSE Then(ValidateExpr(u, y.kids[i]), LAMBDA c : Put(c, u.out, "kids")))
  IN  CASE y.sym = "Expr" -> ValidateExpr(w, y.kids[1])
        [] y.sym = "Pexp" -> ValidateExpr(w, y.kids[2])
        [] y.sym = "Wexp" -> NoNode(w)
        [] OTHER ->
             NewNode(w, IF y.sym = "Atom" THEN y.kids[1].sym ELSE y.sym, y, LAMBDA v :
               Fold(Operand, [v EXCEPT !.out.op = Operator(y)], Operands(y)))

\* Variant of Held: what has been made of it is left
HeldLost(w, x) ==
  Then(ValidateExpr(w, x), LAMBDA v :
    IF v.err = "OK" THEN Put(v, w.out, "kids") ELSE [v EXCEPT !.out = w.out])

\* An expression of a node that is not yet whole; if it fails, it is destroyed
Held(w, x) ==
  Then(ValidateExpr(w, x), LAMBDA v :
    IF v.err = "OK" THEN Put(v, w.out, "kids")
    ELSE [v EXCEPT !.mem = AstDestroy(@, v.out), !.out = w.out])

-----------------------------------------------------------------------------
(***************************************************************************)
(* Declarations                                                            *)
(***************************************************************************)
Repeated(qs) == \E i, j \in DOMAIN qs : i # j /\ qs[i] = qs[j]

\* The loop of validate_decl_or_expr: the names, then the type and the
\* initial value.  It stops where x is no declaration.
RECURSIVE DeclNames(_, _)
DeclNames(w, x) ==
  LET assigns == IsBexp(x, "ASSN")
      y == IF assigns THEN Lhs(x) ELSE x
      op == y.kids[1].kids[2].sym
      named(g) == [w EXCEPT !.mem = g, !.out.arr = g.ptr, !.out.names = Append(@, Leaf1(Lhs(y)))]
  IN  IF ~Is(y, "Bexp") \/ (assigns /\ op # "COLN") \/ ~IsAtom(Lhs(y), "NAME") THEN w
      ELSE Then(Realloc(w.mem, w.out.arr), LAMBDA g :
             IF g.ptr = 0
             THEN Failed([w EXCEPT !.mem = Free(g, w.out.arr), !.out.arr = 0], "NOMEM")
             ELSE CASE op = "COMA" -> DeclNames(named(g), Rhs(y))
                    [] op = "COLN" ->
                         [named(g) EXCEPT !.out.spec = <<Rhs(y)>>,
                                          !.out.init = IF assigns THEN <<Rhs(x)>> ELSE <<>>]
                    [] OTHER -> named(g))

\* A declaration whose names, type and initial value have been told apart as d
ValidateDecl(w, d, stmt) ==
  LET unnamed(v) == [v EXCEPT !.mem = Free(@, d.arr)]
      drop(v, type) == [unnamed(v) EXCEPT !.mem = TypeFree(@, type)]
      whole(v, type) == [v EXCEPT !.out.an = "DECL", !.out.names = d.names,
                                  !.out.types = <<type>>, !.out.blocks = <<d.arr>>]
      node(v, type) ==
        Then(NewNode(v, "VOID", stmt, LAMBDA u : Fold(Held, u, d.init)), LAMBDA u :
          IF u.err = "OK" THEN whole(u, type) ELSE drop(u, type))
  IN  Then(Alloc(w.mem), LAMBDA g :
        IF g.ptr = 0 THEN Failed(unnamed([w EXCEPT !.mem = g, !.out = Nil]), "NOMEM")
        ELSE Then(Typespec([w EXCEPT !.mem = g], d.spec[1], g.ptr), LAMBDA v :
               IF v.err # "OK" THEN [drop(v, v.out) EXCEPT !.out = Nil]
               ELSE IF ~Distinct(d.names) THEN NoNode(drop(v, v.out))
               ELSE node(v, v.out)))

ValidateDeclOrExpr(w, stmt) ==
  LET qs == Quals(stmt)
      x == stmt.kids[Len(qs) + 1]
      misplaced == IF Last(w.ctx) = "UNIT" THEN "STAT" ELSE "EXPO"
      none == [names |-> <<>>, arr |-> 0, spec |-> <<>>, init |-> <<>>]
  IN  IF Repeated(qs) \/ \E i \in DOMAIN qs : qs[i] = misplaced THEN NoNode(w)
      ELSE Then(DeclNames([w EXCEPT !.out = none], x), LAMBDA v :
             IF v.err # "OK" THEN [v EXCEPT !.out = Nil]
             ELSE IF v.out.spec # <<>> THEN ValidateDecl(v, v.out, stmt)
             ELSE Then([v EXCEPT !.mem = Free(@, v.out.arr), !.out = Nil], LAMBDA u :
                    IF qs # <<>> THEN NoNode(u) ELSE ValidateExpr(u, x)))

-----------------------------------------------------------------------------
(***************************************************************************)
(* Statements                                                              *)
(***************************************************************************)
RECURSIVE ValidateStmt(_, _)
RECURSIVE Child(_, _)

\* What x makes becomes a child of the node in out, even if it is nothing; the
\* errors add up.  What is neither expression nor statement is the block of an
\* if, elif or else.
Child(w, x) ==
  LET make(v) ==
        CASE x.sym = "Expr" -> ValidateExpr(v, x)
          [] x.sym = "Stmt" -> ValidateStmt(v, x)
          [] OTHER -> NewNode(v, "BLOK", x, LAMBDA u : Fold(Child, u, KidsOf(x, "Stmt")))
  IN  Then(make([w EXCEPT !.err = "OK"]), LAMBDA v :
        [Put(v, w.out, "kids") EXCEPT !.err = Aggr(w.err, v.err)])

\* wlab
ValidateWlab(w, x) ==
  IF ~IsAtom(x.kids[2], "NAME") THEN NoNode(w)
  ELSE NewNode(w, "WLAB", x, LAMBDA v : [v EXCEPT !.out.names = <<Leaf1(x.kids[2])>>])

ValidateUseu(w, x) ==
  LET y == x.kids[2]
  IN  IF \/ IsAtom(y, "STRL")
         \/ IsBexp(y, "CAST") /\ IsAtom(Lhs(y), "STRL") /\ IsAtom(Rhs(y), "NAME")
      THEN NewNode(w, "USEU", x, LAMBDA v : v)
      ELSE NoNode(w)

ValidateType(w, x) ==
  LET y == KidsOf(x, "Expr")[1]
      spec(v, id) == IF AppearsEnum(Rhs(y)) THEN TypespecEnum(v, Rhs(y), id)
                     ELSE Typespec(v, Rhs(y), id)
      enter(v) == IF v.err = "OK" THEN SymtabInsert(v, Word(Leaf1(Lhs(y))), v.out)
                  ELSE [v EXCEPT !.mem = TypeFree(@, v.out)]
  IN  IF ~IsBexp(y, "COLN") \/ ~IsAtom(Lhs(y), "NAME") THEN NoNode(w)
      ELSE NewNode(w, "VOID", x, LAMBDA v :
             Fill(v, LAMBDA a, id :
               Then(Then(spec(a, id), enter), LAMBDA u :
                 [u EXCEPT !.out = [v.out EXCEPT !.an = IF u.err = "OK" THEN "TYPE" ELSE "VOID"]])))

\* return, and wait with what follows "for" and "until"
ValidateRetnOrWait(w, x) ==
  LET exprs == KidsOf(x, "Expr")
      timed == x.kids[3].sym = "WFOR"
      held == [i \in DOMAIN exprs |->
                 IF i = 2 /\ timed /\ Is(exprs[i], "Wexp") THEN Lhs(exprs[i]) ELSE exprs[i]]
  IN  NewNode(w, "VOID", x, LAMBDA v :
        Try(Fold(LAMBDA u, e : Try(u, LAMBDA a : Held(a, e)), v, held), LAMBDA u :
          [u EXCEPT !.out.an = x.kids[1].sym,
                    !.out.op = IF Len(exprs) = 2 THEN x.kids[3].sym ELSE ""]))

\* What has statements in it: validate_blok, validate_cond, validate_whil and
\* validate_dowh.  The children are in the order of the text; those of an if are
\* condition and block, again for each elif, then the block of the else.
ValidateBlock(w, x) ==
  LET y == IF Is(x, "Ctrl") THEN x.kids[1].kids[1] ELSE x
      kinds == [LBRC |-> "BLOK", NOIN |-> "NOIN", WHIL |-> "WHIL", DOWH |-> "DOWH", COND |-> "COND"]
      branches == Fold(LAMBDA s, c : s \o KidsOf(c, "Expr") \o <<c>>, <<>>, x.kids[1].kids)
  IN  NewNode(w, kinds[y.kids[1].sym], x, LAMBDA v :
        Fold(Child, v, IF y.sym = "Cond" THEN branches
                       ELSE SelectSeq(y.kids, LAMBDA k : k.sym \in {"Expr", "Stmt"})))

\* name, name(parameters), each with or without ": type".  What is filled in
\* before an error is lost with the node, which stays VOID.
ValidateFunc(w, x) ==
  LET qs == Quals(x)
      sig == x.kids[Len(qs) + 1]
      returns == IsBexp(sig, "COLN")
      head == IF returns THEN Lhs(sig) ELSE sig
      call == Is(head, "Fexp")
      name == IF call THEN Lhs(head) ELSE head
      rettype(v, node) ==
        IF ~returns THEN [v EXCEPT !.out = node]
        ELSE OperandType([v EXCEPT !.out = [node EXCEPT !.op = "RETN"]], Rhs(sig))
      params(v) ==
        IF call /\ Args(head) # <<>>
        THEN Then(NameTypePairs(v, Args(head)[1]), LAMBDA u :
               IF u.err # "OK" THEN [u EXCEPT !.out = v.out]
               ELSE rettype(u, [v.out EXCEPT !.names = @ \o u.out.names, !.types = u.out.parts,
                                             !.blocks = <<u.out.arr>>]))
        ELSE rettype(v, v.out)
  IN  IF Repeated(qs) \/ \E i \in DOMAIN qs : qs[i] # "EXPO" THEN NoNode(w)
      ELSE NewNode(w, "VOID", x, LAMBDA v :
             IF ~IsAtom(name, "NAME") THEN Failed(v, "INVALID")
             ELSE Try(params([v EXCEPT !.out.names = <<Leaf1(name)>>]), LAMBDA u :
                    Fold(Child, [u EXCEPT !.out.an = "FUNC"], KidsOf(x, "Stmt"))))

-----------------------------------------------------------------------------
(***************************************************************************)
(* Contexts                                                                *)
(***************************************************************************)
MaxContexts == 3

\* push_context for each of ctxs, do, pop_context
Within(w, ctxs, do(_)) ==
  Then(do([w EXCEPT !.ctx = @ \o ctxs,
                    !.mem = Assert_(@, Len(w.ctx) + Len(ctxs) <= MaxContexts)]),
       LAMBDA v : [v EXCEPT !.ctx = w.ctx])

UnitOnly == {"USEU", "EXPO", "TYPE", "Func"}
Anywhere == {"Qual", "Expr"}

ValidateStmt(w, x) ==
  LET first == x.kids[1].sym
      unit == Last(w.ctx) = "UNIT"
  IN  CASE first \notin Anywhere /\ unit # (first \in UnitOnly) -> NoNode(w)
        [] first \in Anywhere -> ValidateDeclOrExpr(w, x)
        [] first = "USEU" /\ unit -> ValidateUseu(w, x)
        [] first \in {"EXPO", "TYPE"} /\ unit -> ValidateType(w, x)
        [] first = "Func" /\ unit -> Within(w, <<"FUNC">>, LAMBDA v : ValidateFunc(v, x.kids[1]))
        [] first \in {"WAIT", "RETN"} /\ ~unit -> ValidateRetnOrWait(w, x)
        [] first = "LBRA" /\ ~unit -> ValidateWlab(w, x)
        [] first \in {"LBRC", "NOIN", "Ctrl"} /\ ~unit ->
             Within(w, IF Last(w.ctx) = "BLOCK" THEN <<>> ELSE <<"BLOCK">>,
                    LAMBDA v : ValidateBlock(v, x))

\* ast_build
AstBuild(g, tab, root) ==
  LET w == [mem |-> g, tab |-> tab, ctx |-> <<>>, err |-> "OK", out |-> Nil]
  IN  NewNode(w, "UNIT", root, LAMBDA v : Within(v, <<"UNIT">>, LAMBDA u : Fold(Child, u, KidsOf(root, "Stmt"))))

\* ast_build and parse_tree_destroy
Build ==
  /\ built = "none"
  /\ \E g \in Faults(mem, MaxCalls) : \E w \in {AstBuild(g, symtab, tree[1])} :
       /\ Hit(g, w.mem)
       /\ ast' = w.out /\ symtab' = w.tab /\ built' = w.err
       /\ mem' = DestroyNode(w.mem, tree[1])

=============================================================================
