-------------------------------- MODULE Source --------------------------------
(***************************************************************************)
(* What a program means, read off its syntax tree alone: no instructions,  *)
(* no stack, no offsets, no temporaries.  A variable is a name, a call runs*)
(* a body with names of its own, a quaint is a call that has not been made *)
(* yet.  A name is read when the operation it is an operand of is made.    *)
(*                                                                         *)
(* The meaning is the log of the operations for given answers.  When there *)
(* is no answer left the meaning ends there, at an unfinished log.         *)
(***************************************************************************)
EXTENDS Machine

\* The state of an execution:
\*   env, globals   the values of the names
\*   quaints        what each handle stands for
\*   log, short     the operations so far, and whether an answer was missing
\*   res            what the last expression is: a value, or a name
\*   returned, val  whether the function has returned, and with what
Value(v) == [name |-> 0, global |-> FALSE, v |-> v]

Named(e) == [name |-> e.key, global |-> e.obj = "GVAR", v |-> 0]

Over(st) == st.short \/ st.returned

Read(st, r) ==
  IF r.name = 0 THEN r.v
  ELSE IF r.global THEN st.globals[r.name] ELSE st.env[r.name]

Assign(st, r, v) ==
  IF r.name = 0 THEN st
  ELSE IF r.global THEN [st EXCEPT !.globals[r.name] = v]
  ELSE [st EXCEPT !.env[r.name] = v]

\* An operation on the values in, with the next of the answers
Operate(answers, st, in) ==
  IF Len(st.log) < Len(answers)
    THEN [st EXCEPT !.log = Append(@, Event(in, answers[Len(st.log) + 1])),
                    !.res = Value(answers[Len(st.log) + 1])]
    ELSE [st EXCEPT !.short = TRUE]

Func(p, key) == p.funcs[CHOOSE i \in DOMAIN p.funcs : p.funcs[i].key = key]

\* x is the program and the answers
RECURSIVE Eval(_, _, _), Exec(_, _, _)

\* The values of the arguments, one after the other
EvalArgs(x, list, st) ==
  Fold(LAMBDA a, arg :
         Then(Eval(x, arg, a.st), LAMBDA t :
           [st |-> t, vals |-> Append(a.vals, Read(t, t.res))]),
       [st |-> st, vals |-> <<>>], Args(list))

ExecAll(x, stmts, st) == Fold(LAMBDA t, s : Exec(x, s, t), st, stmts)

\* What the names of a function are before it runs
Bound(keys, params, vals) ==
  [k \in keys |-> IF \E i \in DOMAIN params : params[i].key = k
                    THEN vals[CHOOSE i \in DOMAIN params : params[i].key = k]
                    ELSE Junk]

\* A function's body, with names of its own
Invoke(x, name, vals, st) ==
  IF st.short THEN st
  ELSE IF name.obj = "BFUN" THEN Operate(x.answers, st, <<name.key>> \o vals)
  ELSE Then(Func(x.prog, name.key), LAMBDA f :
       Then(ExecAll(x, f.stmts, [st EXCEPT !.env = Bound(DOMAIN @, f.params, vals)]), LAMBDA t :
         [t EXCEPT !.env = st.env, !.returned = FALSE, !.res = Value(t.val),
                   !.val = 0]))

\* A quaint that has not run yet runs now
Finish(x, h, st) ==
  IF st.quaints[h].done THEN st
  ELSE Then(Invoke(x, st.quaints[h].name, st.quaints[h].vals, st), LAMBDA t :
         [t EXCEPT !.quaints[h] = [@ EXCEPT !.done = TRUE,
                                            !.vals = <<Read(t, t.res)>>]])

\* A new quaint, and its handle
Promise(st, name, vals, done) ==
  [st EXCEPT !.quaints = Append(@, [name |-> name, vals |-> vals, done |-> done]),
             !.res = Value(Addr(Len(st.quaints) + 2))]

Handle(v) == v - Addr(1)

EvalRun(x, e, st) ==
  Then(Eval(x, e.rhs, st), LAMBDA r :
  Then(Read(r, r.res), LAMBDA h :
    IF r.short THEN r
    ELSE IF h = 0 THEN [r EXCEPT !.res = Value(0)]
    ELSE Then(Finish(x, Handle(h), r), LAMBDA t :
           [Assign(t, r.res, 0) EXCEPT !.res = Value(t.quaints[Handle(h)].vals[1])])))

EvalQuaint(x, e, st) ==
  IF e.rhs.an = "FEXP"
    THEN Then(EvalArgs(x, e.rhs.rhs, st), LAMBDA a :
           Promise(a.st, e.rhs.lhs, a.vals, FALSE))
    ELSE Then(Eval(x, e.rhs, st), LAMBDA v :
           Promise(v, e.rhs, <<Read(v, v.res)>>, TRUE))

Truth(b) == Value(IF b THEN 1 ELSE 0)

EvalShort(x, e, st) ==
  Then(Eval(x, e.lhs, st), LAMBDA l :
    IF Over(l) THEN l
    ELSE IF (Read(l, l.res) # 0) <=> (e.an = "DISJ")
      THEN [l EXCEPT !.res = Truth(e.an = "DISJ")]
    ELSE Then(Eval(x, e.rhs, l), LAMBDA r :
           IF Over(r) THEN r ELSE [r EXCEPT !.res = Truth(Read(r, r.res) # 0)]))

\* Both operands, then the operation on their values
EvalBinary(x, e, st) ==
  LET to(t, l, v) == [Assign(t, l.res, v) EXCEPT !.res = l.res]
  IN Then(Eval(x, e.lhs, st), LAMBDA l :
     Then(Eval(x, e.rhs, l), LAMBDA r :
       IF Over(r) THEN r
       ELSE IF e.an = "ASSN" THEN to(r, l, Read(r, r.res))
       ELSE Then(Operate(x.answers, r, <<Read(r, l.res), Read(r, r.res)>>), LAMBDA v :
              IF e.an = "BEXP" \/ v.short THEN v ELSE to(v, l, Read(v, v.res)))))

EvalTernary(x, e, st) ==
  Then(Eval(x, e.cond, st), LAMBDA c :
    IF Over(c) THEN c
    ELSE Then(Eval(x, IF Read(c, c.res) # 0 THEN e.tval ELSE e.fval, c), LAMBDA v :
           [v EXCEPT !.res = Value(Read(v, v.res))]))

Eval(x, e, st) ==
  Then(st, LAMBDA t :
    IF Over(t) THEN t
    ELSE CASE e.an = "NAME" -> [t EXCEPT !.res = Named(e)]
           [] e.an = "NMBR" -> [t EXCEPT !.res = Value(e.value)]
           [] e.an = "FEXP" -> Then(EvalArgs(x, e.rhs, t), LAMBDA a :
                                 Invoke(x, e.lhs, a.vals, a.st))
           [] e.an = "TILD" -> EvalQuaint(x, e, t)
           [] e.an = "MULT" -> EvalRun(x, e, t)
           [] e.an \in {"CONJ", "DISJ"} -> EvalShort(x, e, t)
           [] e.an = "TEXP" -> EvalTernary(x, e, t)
           [] e.an = "COMA" -> Eval(x, e.rhs, Eval(x, e.lhs, t))
           [] e.an \in {"BEXP", "ASOP", "ASSN"} -> EvalBinary(x, e, t))

\* The branches of a condition, in order
RECURSIVE Choose(_, _, _, _)
Choose(x, branches, last, st) ==
  IF branches = <<>> THEN IF last = Null THEN st ELSE ExecAll(x, last.stmts, st)
  ELSE Then(Eval(x, Head(branches).expr, st), LAMBDA c :
         IF Over(c) THEN c
         ELSE IF Read(c, c.res) # 0 THEN ExecAll(x, Head(branches).block.stmts, c)
         ELSE Choose(x, Tail(branches), last, c))

RECURSIVE Loop(_, _, _)
Loop(x, s, st) ==
  Then(Eval(x, s.expr, st), LAMBDA c :
    IF Over(c) \/ Read(c, c.res) = 0 THEN c
    ELSE Loop(x, s, ExecAll(x, s.stmts, c)))

ExecDecl(x, s, st) ==
  IF s.init = Null THEN st
  ELSE Then(Eval(x, s.init, st), LAMBDA v :
         Fold(LAMBDA t, k : [t EXCEPT !.env[k] = Read(v, v.res)], v, s.names))

ExecReturn(x, s, st) ==
  IF s.expr = Null THEN [st EXCEPT !.returned = TRUE]
  ELSE Then(Eval(x, s.expr, st), LAMBDA v :
         IF v.short THEN v
         ELSE [v EXCEPT !.returned = TRUE, !.val = Read(v, v.res)])

ExecWait(x, s, st) ==
  Then(Eval(x, s.wquaint, st), LAMBDA q :
    IF Over(q) \/ Read(q, q.res) = 0 THEN q
    ELSE Finish(x, Handle(Read(q, q.res)), q))

Exec(x, s, st) ==
  Then(st, LAMBDA t :
    IF Over(t) THEN t
    ELSE CASE s.an = "DECL" -> ExecDecl(x, s, t)
           [] s.an = "COND" ->
                Choose(x, <<[expr |-> s.if_expr, block |-> s.if_block]>> \o s.elif,
                       s.else_block, t)
           [] s.an \in {"BLOK", "NOIN"} -> ExecAll(x, s.stmts, t)
           [] s.an = "WHIL" -> Loop(x, s, t)
           [] s.an = "DOWH" -> Loop(x, s, ExecAll(x, s.stmts, t))
           [] s.an = "RETN" -> ExecReturn(x, s, t)
           [] s.an = "WAIT" -> ExecWait(x, s, t)
           [] OTHER -> Eval(x, s, t))

-----------------------------------------------------------------------------
(***************************************************************************)
(* Properties                                                              *)
(***************************************************************************)

\* What is declared in a function or in a block, wherever inside
RECURSIVE DeclaredIn(_)
DeclaredIn(node) ==
  UNION {(IF s.an = "DECL"
            THEN {[key |-> k, size |-> s.size, align |-> s.align] : k \in Range(s.names)}
            ELSE {}) \cup UNION {DeclaredIn(b) : b \in Range(SubBlocks(s))}
         : s \in Range(node.stmts)}

ParamsOf(func) ==
  {[key |-> p.key, size |-> p.size, align |-> 8] : p \in Range(func.params)}

Objects(func) == ParamsOf(func) \cup DeclaredIn(func)

KeysOf(p) == UNION {{x.key : x \in Objects(f)} : f \in Range(p.funcs)}

\* The whole program, from its first function
Meaning(p, answers) ==
  Invoke([prog |-> p, answers |-> answers],
         [obj |-> "FUNC", key |-> p.funcs[1].key], <<>>,
         [env |-> [k \in KeysOf(p) |-> Junk],
          globals |-> [k \in UNION {Range(d.names) : d \in Range(p.globals)} |-> 0],
          quaints |-> <<>>, log |-> <<>>, short |-> FALSE, res |-> Value(0),
          returned |-> FALSE, val |-> 0])

\* The operations so far, without the exit status
Operations == IF status = "exit" THEN Front(log) ELSE log

\* The generated code, run by the machine, makes the operations the source
\* text asks for, on the values it asks for and in the order it asks for
\* (gen_expr and gen_stmt against exec_insn), and when the program ends it
\* ends with the value its first function returns.
FollowsSource ==
  \A m \in {Meaning(Programs[prog], [i \in DOMAIN Operations |-> Operations[i].out])} :
    /\ m.log = Operations
    /\ status = "exit" => /\ ~ m.short
                          /\ Last(log).out = Read(m, m.res)

\* The function an instruction belongs to, and its frame layout
FuncAt(ip) ==
  CHOOSE f \in Range(Programs[prog].funcs) :
    LET loc == o.locs
    IN /\ loc[f.key] <= ip
       /\ \A k \in DOMAIN loc : loc[k] <= ip => loc[k] <= loc[f.key]

Tag(f) == HtabGet(o.tags, f.key)

\* Every operand of the instruction about to be executed is where the machine
\* has room for it: a temporary below the size INCSP has allocated (nothing
\* in insn_incsp or opd_val checks that), a local variable inside the frame
\* of its function, which is below the stack pointer, and everything on the
\* stack below STACK_SIZE.
OperandsInFrame ==
  status = "running" =>
    /\ \A x \in V.stack : x.off + x.size <= StackSize
    /\ V.ip >= Len(Bfuns) /\ I.op # "INCSP" =>
         \A x \in {I.dst, I.a, I.b} :
           /\ x.opd = "temp" => x.off + x.size <= Temps(V).size
           /\ x.opd = "auto" =>
                /\ x.off + x.size <= Tag(FuncAt(V.ip)).frame
                /\ V.bp + Tag(FuncAt(V.ip)).frame <= V.sp

\* No instruction of a generated program is illegal, and a function returns
\* with the stack pointer exactly one frame above its base: so the two words
\* RET takes for the return address and the caller's base are the ones PUSHR
\* has stored, still intact, and an empty stack means that the first function
\* of the machine returns (handle_return).
ReturnsBalanced ==
  /\ status # "illegal"
  /\ status = "running" /\ I.op \in {"RET", "RETV"} =>
       /\ V.sp = V.bp + Tag(FuncAt(V.ip)).frame
       /\ V.bp = 16 <=> Len(V.temps) = 1
       /\ V.bp > 16 =>
            /\ Code[Load(V.stack, V.bp - 16, 8) + 1].op \in {"CALL", "CALLV"}
            /\ Load(V.stack, V.bp - 8, 8) \in 16..(V.bp - 16)

\* Every name a function declares, in whatever block, has its entry in the
\* function's table, and its bytes: aligned, inside the frame, its own, and
\* for a parameter where the caller's PUSHes put it (create_frame_layout,
\* count_block_decls and the hash table).
LayoutSound ==
  \A f \in Range(Programs[prog].funcs) :
    LET tag == Tag(f)
        ofs(x) == HtabGet(tag.layout, x.key)
    IN /\ tag.frame % 8 = 0
       /\ \A x \in Objects(f) :
            /\ ofs(x) # Null
            /\ ofs(x).size = x.size /\ ofs(x).off % x.align = 0
            /\ ofs(x).off + x.size <= tag.frame
            /\ \A y \in Objects(f) \ {x} :
                 \/ ofs(x).off + x.size <= ofs(y).off
                 \/ ofs(y).off + y.size <= ofs(x).off
       /\ \A i \in DOMAIN f.params :
            ofs(f.params[i]).off =
              Fold(LAMBDA n, p : AlignUp(n + p.size, 8), 0,
                       SubSeq(f.params, 1, i - 1))

\* Once the operations answer zero every generated program ends: no jump of
\* gen_whil, gen_dowh, gen_cond or a ternary leads back to itself.
Terminates == <>(status # "running")

=============================================================================
