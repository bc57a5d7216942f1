---------------------------------- MODULE Gen ----------------------------------
(***************************************************************************)
(* Code generation for statements, control flow, calls and quaints         *)
(* (codegen.c): the layout of a function's frame, the temporaries, the     *)
(* jumps patched once their target is known.  Which operand an lvalue is   *)
(* given is the subject of module Lower; here a variable is a plain name.  *)
(*                                                                         *)
(* A program has global variables and functions.  A node is a record whose *)
(* field "an" is its kind; the fields the type checker fills in are the sizes.   *)
(* The number of a name or of a function stands for its address.           *)
(***************************************************************************)
EXTENDS Eval

CONSTANT
  Null,      \* the pointer to nothing
  Bfuns      \* the built-in functions: sizes of parameters and value

INSTANCE Htab

AlignUp(n, a) == ((n + a - 1) \div a) * a

-----------------------------------------------------------------------------
(***************************************************************************)
(* Frame layouts                                                           *)
(***************************************************************************)

\* The blocks below a statement whose declarations belong to the same frame
SubBlocks(s) ==
  CASE s.an \in {"BLOK", "NOIN", "WHIL", "DOWH"} -> <<s>>
    [] s.an = "COND" -> <<s.if_block>> \o [i \in DOMAIN s.elif |-> s.elif[i].block]
                          \o (IF s.else_block = Null THEN <<>> ELSE <<s.else_block>>)
    [] OTHER -> <<>>

\* count_block_decls: how many names the table of a function is made for
RECURSIVE CountBlockDecls(_)
CountBlockDecls(node) ==
  (IF node.an = "FUNC" THEN Len(node.params) ELSE 0) +
  Fold(LAMBDA n, s :
             n + (IF s.an = "DECL" THEN Len(s.names) ELSE 0)
               + Fold(LAMBDA m, b : m + CountBlockDecls(b), 0, SubBlocks(s)),
           0, node.stmts)

\* Variant: parameters are packed
LayoutParamPacked(tag, param) ==
  [tag EXCEPT
     !.layout = HtabInsert(@, param.key, [off |-> tag.frame, size |-> param.size]),
     !.frame = @ + param.size]

\* create_frame_layout, the parameters: each one starts where PUSH puts it
LayoutParam(tag, param) ==
  [tag EXCEPT
     !.layout = HtabInsert(@, param.key, [off |-> tag.frame, size |-> param.size]),
     !.frame = AlignUp(@ + param.size, 8)]

\* Variant: local variables are not aligned
LayoutNameUnaligned(tag, decl, key) ==
  [tag EXCEPT
     !.layout = HtabInsert(@, key, [off |-> tag.frame, size |-> decl.size]),
     !.frame = @ + decl.size]

\* ... the names of a declaration
LayoutName(tag, decl, key) ==
  LET off == AlignUp(tag.frame, decl.align)
  IN [tag EXCEPT
        !.layout = HtabInsert(@, key, [off |-> off, size |-> decl.size]),
        !.frame = off + decl.size]

\* ... and the blocks inside: nothing shares its place with anything else
RECURSIVE LayoutBlock(_, _)
LayoutBlock(tag, node) ==
  Fold(LAMBDA t, s :
             IF s.an = "DECL"
               THEN Fold(LAMBDA u, key : LayoutName(u, s, key), t, s.names)
               ELSE Fold(LayoutBlock, t, SubBlocks(s)),
           tag, node.stmts)

CreateFrameLayout(func) ==
  Then(Fold(LayoutParam,
            [frame |-> 0, args |-> 0, layout |-> HtabCreate(CountBlockDecls(func))],
            func.params), LAMBDA params :
  Then(LayoutBlock([params EXCEPT !.args = params.frame], func), LAMBDA whole :
    [whole EXCEPT !.frame = AlignUp(@, 8)]))

\* create_global_and_frame_layouts: the functions by the address of their
\* node, and the global variables by their names
FuncLayouts(prog) ==
  Fold(LAMBDA t, func : HtabInsert(t, func.key, CreateFrameLayout(func)),
           HtabCreate(Len(prog.funcs)), prog.funcs)

GlobalLayout(prog) ==
  Fold(LAMBDA t, decl :
             Fold(LAMBDA u, key : LayoutName(u, decl, key), t, decl.names),
           [frame |-> 0, layout |->
              HtabCreate(Fold(LAMBDA n, d : n + Len(d.names), 0, prog.globals))],
           prog.globals)

-----------------------------------------------------------------------------
(***************************************************************************)
(* Operands and instructions.  The generator's state is                    *)
(*   code  the instructions so far; ip is their number                     *)
(*   temp, peak  where the next temporary goes, and how far any has gone   *)
(*   res   the operand the last expression has left                        *)
(***************************************************************************)
Imm(val, size) == [opd |-> "imm", off |-> 0, size |-> size, val |-> val]

At(where, ofs) == [opd |-> where, off |-> ofs.off, size |-> ofs.size, val |-> 0]

TempAt(off, size) == [opd |-> "temp", off |-> off, size |-> size, val |-> 0]

\* The operand nobody has set
NoOpd == Imm(0, 1)

Insn(op, dst, a, b) == [op |-> op, dst |-> dst, a |-> a, b |-> b, loc |-> 0]

Ip(g) == Len(g.code)

Emit(g, insn) == [g EXCEPT !.code = Append(@, insn)]

\* Variant: the peak is taken before the temporary
NewTempLatePeak(g, size) ==
  Then(AlignUp(g.temp, IF size <= 8 THEN size ELSE 8), LAMBDA off :
    [g EXCEPT !.temp = off + size,
              !.peak = IF off > @ THEN off ELSE @,
              !.res = TempAt(off, size)])

\* OPD_TEMP
NewTemp(g, size) ==
  Then(AlignUp(g.temp, IF size <= 8 THEN size ELSE 8), LAMBDA off :
    [g EXCEPT !.temp = off + size,
              !.peak = IF off + size > @ THEN off + size ELSE @,
              !.res = TempAt(off, size)])

\* An instruction whose result is a new temporary
EmitTo(g, op, size, a, b) ==
  Then(NewTemp(g, size), LAMBDA t : Emit(t, Insn(op, t.res, a, b)))

\* o->insns[at].jmp.loc = loc
Patch(g, at, loc) == [g EXCEPT !.code[at + 1].loc = loc]

-----------------------------------------------------------------------------
(***************************************************************************)
(* Expressions.  c is what a function's code is generated with: its frame  *)
(* layout and the program's global variables.                              *)
(***************************************************************************)

\* gen_name: a variable, a built-in function or a function, whose address is
\* not known yet (an immediate of size zero)
GenName(c, e, g) ==
  [g EXCEPT !.res =
     CASE e.obj = "GVAR" -> At("glob", HtabGet(c.globals, e.key))
       [] e.obj \in {"AVAR", "PARM"} -> At("auto", HtabGet(c.layout, e.key))
       [] e.obj = "BFUN" -> Imm(e.key, 8)
       [] e.obj = "FUNC" -> Imm(e.key, 0)]

\* The arguments of a call: what the commas at the top of the list separate
RECURSIVE Args(_)
Args(list) ==
  CASE list = Null -> <<>>
    [] list # Null /\ list.an = "COMA" -> <<list.lhs>> \o Args(list.rhs)
    [] OTHER -> <<list>>

RECURSIVE GenExpr(_, _, _)

\* An argument is pushed as soon as it has been computed
GenArgs(c, list, g) ==
  Fold(LAMBDA h, arg :
         Then(GenExpr(c, arg, h), LAMBDA v :
           Emit(v, Insn("PUSH", NoOpd, v.res, NoOpd))),
       g, Args(list))

\* gen_fexp: the return address is patched into the PUSHR when the place of
\* the call is known
GenCall(c, e, g) ==
  Then(NewTemp(g, 8), LAMBDA t :
  Then(GenArgs(c, e.rhs, Emit(t, Insn("PUSHR", t.res, NoOpd, NoOpd))), LAMBDA a :
  Then(GenExpr(c, e.lhs, a), LAMBDA f :
  Then(Patch(f, Ip(t), Ip(f)), LAMBDA p :
    IF e.size > 0
      THEN EmitTo(p, "CALLV", e.size, f.res, t.res)
      ELSE [Emit(p, Insn("CALL", NoOpd, f.res, t.res)) EXCEPT !.res = NoOpd]))))

\* gen_uexp_tild: the quaint of a call, and the quaint of a value
GenQuaint(c, e, g) ==
  Then(NewTemp(g, 8), LAMBDA d :
    IF e.rhs.an = "FEXP"
      THEN Then(NewTemp(d, 8), LAMBDA s :
           Then(GenArgs(c, e.rhs.rhs, Emit(s, Insn("GETSP", s.res, NoOpd, NoOpd))), LAMBDA a :
           Then(GenExpr(c, e.rhs.lhs, a), LAMBDA f :
             [Emit(f, Insn("QNT", d.res, f.res, s.res)) EXCEPT !.res = d.res])))
      ELSE Then(GenExpr(c, e.rhs, d), LAMBDA v :
             [Emit(v, Insn("QNTV", d.res, v.res, NoOpd)) EXCEPT !.res = d.res]))

\* gen_bexp_conj and gen_bexp_disj: the temporary is set before the jump over
\* the right-hand side
GenShort(c, e, g) ==
  LET conj == e.an = "CONJ"
      skip(a) == Insn(IF conj THEN "JZ" ELSE "JNZ", NoOpd, a, NoOpd)
      last(d) == Insn(IF conj THEN "AND" ELSE "OR", d,
                      Imm(IF conj THEN 1 ELSE 0, e.size), d)
  IN Then(GenExpr(c, e.lhs, g), LAMBDA l :
     Then(NewTemp(l, e.size), LAMBDA d :
     Then(Emit(Emit(d, Insn("OZ", d.res, l.res, NoOpd)), skip(l.res)), LAMBDA j :
     Then(GenExpr(c, e.rhs, j), LAMBDA r :
     Then(Emit(Emit(r, Insn("OZ", d.res, r.res, NoOpd)), last(d.res)), LAMBDA z :
       [Patch(z, Ip(j) - 1, Ip(z)) EXCEPT !.res = d.res])))))

\* gen_texp: the second alternative reuses the temporaries of the first
GenTernary(c, e, g) ==
  LET put(v, d) == Emit(v, Insn("MOV", d, v.res, NoOpd))
  IN Then(GenExpr(c, e.cond, g), LAMBDA q :
     Then(NewTemp(q, e.size), LAMBDA d :
     Then(GenExpr(c, e.tval, Emit(d, Insn("JZ", NoOpd, q.res, NoOpd))), LAMBDA t :
     Then(Emit(put(t, d.res), Insn("JMP", NoOpd, NoOpd, NoOpd)), LAMBDA m :
     Then(GenExpr(c, e.fval, [Patch(m, Ip(d), Ip(m)) EXCEPT !.temp = d.temp]), LAMBDA f :
     Then(put(f, d.res), LAMBDA n :
       [Patch(n, Ip(m) - 1, Ip(n)) EXCEPT !.res = d.res]))))))

\* gen_bexp_coma: the temporaries of the left-hand side are free again
GenComma(c, e, g) == GenExpr(c, e.rhs, [GenExpr(c, e.lhs, g) EXCEPT !.temp = g.temp])

\* gen_bexp_assn, and gen_bexp_asmu and gen_bexp_plus where they assign
GenAssign(c, e, g) ==
  Then(GenExpr(c, e.lhs, g), LAMBDA l :
  Then(GenExpr(c, e.rhs, l), LAMBDA r :
    [Emit(r, IF e.an = "ASSN" THEN Insn("MOV", l.res, r.res, NoOpd)
                              ELSE Insn("BIN", l.res, l.res, r.res))
     EXCEPT !.res = l.res]))

\* Variant: the right-hand side reuses the temporaries of the left-hand side
GenBinaryReuse(c, e, g) ==
  Then(GenExpr(c, e.lhs, g), LAMBDA l :
  Then(GenExpr(c, e.rhs, [l EXCEPT !.temp = g.temp]), LAMBDA r :
    EmitTo(r, "BIN", e.size, l.res, r.res)))

\* gen_bexp_equl and gen_bexp_plus: the operands in order, then the operation
GenBinary(c, e, g) ==
  Then(GenExpr(c, e.lhs, g), LAMBDA l :
  Then(GenExpr(c, e.rhs, l), LAMBDA r :
    EmitTo(r, "BIN", e.size, l.res, r.res)))

\* gen_uexp_mult on a quaint
GenRun(c, e, g) ==
  Then(GenExpr(c, e.rhs, g), LAMBDA r :
    IF e.size > 0 THEN EmitTo(r, "RTEV", e.size, r.res, NoOpd)
                  ELSE Emit(r, Insn("RTE", NoOpd, r.res, NoOpd)))

\* gen_expr
GenExpr(c, e, g) ==
  Then(g, LAMBDA h :
    CASE e.an = "NAME" -> GenName(c, e, h)
      [] e.an = "NMBR" -> [h EXCEPT !.res = Imm(e.value, e.size)]
      [] e.an = "FEXP" -> GenCall(c, e, h)
      [] e.an = "TILD" -> GenQuaint(c, e, h)
      [] e.an = "MULT" -> GenRun(c, e, h)
      [] e.an \in {"CONJ", "DISJ"} -> GenShort(c, e, h)
      [] e.an = "TEXP" -> GenTernary(c, e, h)
      [] e.an = "COMA" -> GenComma(c, e, h)
      [] e.an \in {"ASSN", "ASOP"} -> GenAssign(c, e, h)
      [] e.an = "BEXP" -> GenBinary(c, e, h))

-----------------------------------------------------------------------------
(***************************************************************************)
(* Statements                                                              *)
(***************************************************************************)
RECURSIVE GenStmt(_, _, _)

GenStmts(c, stmts, g) == Fold(LAMBDA h, s : GenStmt(c, s, h), g, stmts)

\* gen_decl_auto: one value for all the names
GenDecl(c, s, g) ==
  IF s.init = Null THEN g
  ELSE Then(GenExpr(c, s.init, g), LAMBDA v :
         Fold(LAMBDA h, key :
                Emit(h, Insn("MOV", At("auto", HtabGet(c.layout, key)), v.res, NoOpd)),
              v, s.names))

\* gen_blok
GenBlok(c, s, g) ==
  IF s.an = "BLOK" THEN GenStmts(c, s.stmts, g)
  ELSE Emit(GenStmts(c, s.stmts, Emit(g, Insn("NOINT", NoOpd, NoOpd, NoOpd))),
            Insn("INT", NoOpd, NoOpd, NoOpd))

\* The condition of a branch, and the jump past what it guards
GenTest(c, e, g) ==
  Then(GenExpr(c, e, g), LAMBDA v :
    [Emit(v, Insn("JZ", NoOpd, v.res, NoOpd)) EXCEPT !.temp = 0])

Jump(op, cond, loc) == [Insn(op, NoOpd, cond, NoOpd) EXCEPT !.loc = loc]

\* Variant: the jump out of the loop is patched with its own place
GenWhileStuck(c, s, g) ==
  Then(GenTest(c, s.expr, g), LAMBDA t :
  Then(Emit(GenStmts(c, s.stmts, t), Jump("JMP", NoOpd, Ip(g))), LAMBDA j :
    Patch(j, Ip(t) - 1, Ip(t) - 1)))

\* gen_whil
GenWhile(c, s, g) ==
  Then(GenTest(c, s.expr, g), LAMBDA t :
  Then(Emit(GenStmts(c, s.stmts, t), Jump("JMP", NoOpd, Ip(g))), LAMBDA j :
    Patch(j, Ip(t) - 1, Ip(j))))

\* gen_dowh
GenDoWhile(c, s, g) ==
  Then(GenExpr(c, s.expr, GenStmts(c, s.stmts, g)), LAMBDA v :
    Emit(v, Jump("JNZ", v.res, Ip(g))))

\* gen_cond, a condition and its block: a false one jumps past the jump to
\* the end; ends are the places of those jumps
GenBranch(c, acc, expr, block) ==
  Then(GenTest(c, expr, acc.g), LAMBDA t :
  Then(GenBlok(c, block, t), LAMBDA b :
  Then(Emit(b, Jump("JMP", NoOpd, 0)), LAMBDA j :
    [g |-> Patch(j, Ip(t) - 1, Ip(j)), ends |-> Append(acc.ends, Ip(b))])))

GenCond(c, s, g) ==
  Then(GenBranch(c, [g |-> g, ends |-> <<>>], s.if_expr, s.if_block), LAMBDA first :
  Then(Fold(LAMBDA acc, x : GenBranch(c, acc, x.expr, x.block), first, s.elif), LAMBDA all :
  Then(IF s.else_block = Null THEN all.g ELSE GenBlok(c, s.else_block, all.g), LAMBDA last :
    Fold(LAMBDA h, at : Patch(h, at, Ip(last)), last, all.ends))))

\* gen_retn: the frame and the two words below it
GenReturn(c, s, g) ==
  LET size == Imm(c.frame + 16, 8)
  IN IF s.expr = Null THEN Emit(g, Insn("RET", NoOpd, NoOpd, size))
     ELSE Then(GenExpr(c, s.expr, g), LAMBDA v :
            Emit(v, Insn("RETV", NoOpd, v.res, size)))

\* gen_wait, without a time and without a label
GenWait(c, s, g) ==
  Then(GenExpr(c, s.wquaint, g), LAMBDA v :
    Emit(v, Insn("WAIT", NoOpd, v.res, NoOpd)))

\* gen_stmt: no temporary outlives its statement
GenStmt(c, s, g) ==
  Then(g, LAMBDA h :
    [CASE s.an = "DECL" -> GenDecl(c, s, h)
       [] s.an = "COND" -> GenCond(c, s, h)
       [] s.an \in {"BLOK", "NOIN"} -> GenBlok(c, s, h)
       [] s.an = "WHIL" -> GenWhile(c, s, h)
       [] s.an = "DOWH" -> GenDoWhile(c, s, h)
       [] s.an = "RETN" -> GenReturn(c, s, h)
       [] s.an = "WAIT" -> GenWait(c, s, h)
       [] OTHER -> Emit(GenExpr(c, s, h), Insn("NOP", NoOpd, NoOpd, NoOpd))
     EXCEPT !.temp = 0])

\* gen_func: INCSP makes room for the locals, and for the temporaries once
\* it is known how far they go; a RET ends the function in any case
GenFunc(c, func, g) ==
  Then(Emit([g EXCEPT !.peak = 0],
            Insn("INCSP", NoOpd, Imm(c.frame - c.args, 8), Imm(0, 8))), LAMBDA i :
  Then(GenStmts(c, func.stmts, i), LAMBDA b :
    Emit([b EXCEPT !.code[Ip(g) + 1].b = Imm(b.peak, 8)],
         Insn("RET", NoOpd, NoOpd, Imm(c.frame + 16, 8)))))

\* print_opd, on the way of printing it: the address of a function
Link(locs, opd) ==
  IF opd.opd = "imm" /\ opd.size = 0 THEN Imm(locs[opd.val], 8) ELSE opd

\* codegen_obj_create: the built-in functions, the functions in order, and
\* print_insns.  code is o->insns; tags are the frame layouts, locs their
\* tag->loc, data the global variables.
ObjCreate(prog) ==
  LET start == [code |-> [i \in 1..Len(Bfuns) |-> Insn("BFUN", NoOpd, NoOpd, NoOpd)],
                temp |-> 0, peak |-> 0, res |-> NoOpd, locs |-> <<>>]
      c(tag, globals) ==
        [layout |-> tag.layout, frame |-> tag.frame, args |-> tag.args,
         globals |-> globals.layout]
  IN Then(FuncLayouts(prog), LAMBDA tags :
     Then(GlobalLayout(prog), LAMBDA globals :
     Then(Fold(LAMBDA g, func :
                 [GenFunc(c(HtabGet(tags, func.key), globals), func, g)
                  EXCEPT !.locs = Append(@, Ip(g))],
               start, prog.funcs), LAMBDA g :
     Then([k \in {func.key : func \in Range(prog.funcs)} |->
             g.locs[CHOOSE i \in DOMAIN prog.funcs : prog.funcs[i].key = k]], LAMBDA locs :
       [code |-> [i \in DOMAIN g.code |->
                    [g.code[i] EXCEPT !.dst = Link(locs, @), !.a = Link(locs, @),
                                      !.b = Link(locs, @)]],
        tags |-> tags, locs |-> locs, data |-> globals]))))

=============================================================================
