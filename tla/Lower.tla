-------------------------------- MODULE Lower --------------------------------
(***************************************************************************)
(* From accepted expressions to legal instructions: the rules of Types,    *)
(* the operands src/src/codegen.c computes for each construct, and the     *)
(* LEGAL_IF tests src/src/exec.c makes of them, put together.              *)
(*                                                                         *)
(* A behaviour builds an expression from the inside out, one construct per *)
(* step.  With the expression it carries what the expression means (a      *)
(* location, and the value it has) and what was generated for it: the      *)
(* operand when a value is needed and the operand when an lvalue is        *)
(* needed, each with what it designates when the code runs.                *)
(***************************************************************************)
EXTENDS Types

CONSTANTS MaxDepth,  \* bound on the nesting of constructs
          Uses       \* what the program may do, see UseNames

\* "indirect member": . applied to an element of an array or to a member
\*                    reached through ->
\* "indirect store":  a store through * of such an element or member, or
\*                    to a member of *p
\* "copied operand":  & of *p, or * of a quaint that is *p, or of a part of it
\* "void":            a void expression as a condition, array or ~ operand
\* "array offset":    an array as the offset of a subscript
\* "array wait":      wait on an array of quaints
UseNames == {"indirect member", "indirect store", "copied operand", "void",
             "array offset", "array wait"}

ASSUME LowerAssumption ==
  /\ MaxDepth \in Nat
  /\ Uses \subseteq UseNames
  /\ Type \cap {"fresh", "target", "element"} = {}

VARIABLES expr,   \* the expression built so far
          store,  \* where the last construct stored, and where it meant to
          depth   \* how many constructs expr has

vars == <<expr, store, depth>>

-----------------------------------------------------------------------------
(***************************************************************************)
(* Locations and values.  A location is a variable, named by its type, and *)
(* a path of members, elements and pointer targets; copy says that it is a *)
(* temporary that holds a copy.  A value is what a location contains or    *)
(* the address of one.  Fresh is any value the construct computes.         *)
(***************************************************************************)
Step  == Type \cup {"fresh", "target", "element"}
Loc   == [copy : BOOLEAN, path : Seq(Step)]
Value == [k : {"contents", "address"}, of : Loc]

Variable(t) == [copy |-> FALSE, path |-> <<t>>]
Part(l, s)  == [copy |-> l.copy, path |-> Append(l.path, s)]
Contents(l) == [k |-> "contents", of |-> [copy |-> FALSE, path |-> l.path]]
Address(l)  == [k |-> "address", of |-> l]
Fresh       == Contents(Variable("fresh"))

\* The location a pointer value points to
Target(v) == IF v.k = "address" THEN v.of ELSE Part(v.of, "target")

(***************************************************************************)
(* Operands (struct codegen_opd).  at is what the variable or temporary    *)
(* holds; ok says that all the instructions generated so far are legal.    *)
(***************************************************************************)
Opd == [opd : {"imm", "temp", "var", "unset"}, indirect : BOOLEAN,
        signd : {0, 1}, size : Nat, at : Value, ok : BOOLEAN]

\* opd_val: the location an operand designates, and the value found there
PlaceOf(o) ==
  IF o.indirect THEN Target(o.at)
  ELSE [copy |-> o.opd # "var", path |-> o.at.of.path]
ValueOf(o) == IF o.indirect THEN Contents(Target(o.at)) ELSE o.at

Temp(s, n, v, ok) == [opd |-> "temp", indirect |-> FALSE, signd |-> s,
                      size |-> n, at |-> v, ok |-> ok]
TempOf(t, v, ok)  == Temp(Sign(t), Bytes(t), v, ok)
Word(v, ok)       == Temp(0, 8, v, ok)
Imm(n)            == [Temp(0, n, Fresh, TRUE) EXCEPT !.opd = "imm"]
Var(t)            == [TempOf(t, Contents(Variable(t)), TRUE) EXCEPT !.opd = "var"]
Unset(ok)         == [Temp(0, 0, Fresh, ok) EXCEPT !.opd = "unset"]

SetDirect(o)      == [o EXCEPT !.indirect = FALSE, !.signd = 0, !.size = 8]
SetIndirect(o, t) == [o EXCEPT !.indirect = TRUE, !.signd = Sign(t),
                               !.size = Bytes(t)]

-----------------------------------------------------------------------------
(***************************************************************************)
(* The tests of the instructions.  An instruction whose operand was never  *)
(* set is not legal whatever it finds there.                               *)
(***************************************************************************)
Set(o)     == o.opd # "unset" /\ o.size > 0
Number(o)  == Set(o) /\ o.size \in PowerOf2
Handle(o)  == Set(o) /\ o.signd = 0 /\ o.size = 8

LegalMov(d, s) == Set(d) /\ Set(s) /\ d.size = s.size
LegalCast(d, s) == Set(d) /\ Set(s)
LegalBinArith(d, a, b) ==
  /\ Number(d) /\ Number(a) /\ Number(b)
  /\ d.signd = a.signd /\ a.signd = b.signd
  /\ d.size = a.size /\ a.size = b.size
LegalEqu(d, a, b) == /\ Set(d) /\ d.signd = 0 /\ d.size = 1
                     /\ Set(a) /\ Set(b) /\ a.size = b.size
LegalBinLogic(d, a, b) == /\ Set(d) /\ d.signd = 0 /\ d.size = 1
                          /\ Number(a) /\ Number(b)
                          /\ a.signd = b.signd /\ a.size = b.size
LegalNot(d, s)  == Number(d) /\ Number(s) /\ d.signd = s.signd /\ d.size = s.size
LegalNeg(d, s)  == Number(d) /\ d.signd = 1 /\ Number(s) /\ d.size = s.size
LegalBneg(d, s) == LegalNot(d, s) /\ d.signd = 0
LegalOz(d, s)   == Set(d) /\ d.signd = 0 /\ d.size = 1 /\ Number(s)
LegalIncDec(d)  == Number(d)
LegalIncp(d, s) == LegalNot(d, s)
LegalCjmp(c)    == Set(c)
LegalPush(v)    == Set(v)
LegalCall(loc)  == Handle(loc)
LegalRef(d)     == Handle(d) /\ ~ d.indirect
LegalDrf(d, s)  == Set(d) /\ ~ d.indirect /\ Set(s) /\ s.size = 8
LegalRte(q)     == Handle(q)
LegalQat(d, q)  == Set(d) /\ d.signd = 0 /\ d.size = 1 /\ Handle(q)
LegalQntv(d, v) == Handle(d) /\ Set(v)
LegalWait(q)    == Handle(q)
LegalRetv(v, c) == Set(v) /\ v.size = c.size
LegalTimeout(t) == Number(t) /\ t.signd = 0

\* DRF of o into a temporary of the given sign and size
Drf(o, s, n) ==
  LET v == Contents(Target(ValueOf(o)))
  IN  Temp(s, n, v, o.ok /\ LegalDrf(Temp(s, n, v, TRUE), o))

\* REF of o: the address of what it designates
RefOf(o) == Word(Address(PlaceOf(o)), o.ok /\ LegalRef(Word(Fresh, TRUE)))

\* ADD of an offset to the address in o: the address of a part
AddOffset(o, idx, s) ==
  Word(Address(Part(Target(ValueOf(o)), s)),
       o.ok /\ idx.ok /\ LegalBinArith(Word(Fresh, TRUE), o, idx))

\* MUL of a count by a size other than 1
Scaled(o, n) ==
  IF n = 1 THEN o
  ELSE Word(Fresh, o.ok /\ LegalBinArith(Word(Fresh, TRUE), o, Imm(8)))

-----------------------------------------------------------------------------
(***************************************************************************)
(* Expressions.  rv and lv are the operands generated without and with     *)
(* need_lvalue.  lval is expr_is_lvalue.  storable says that lv was not    *)
(* obtained by one of the ways "indirect store" names.                     *)
(***************************************************************************)
Forms == {"call", "statement", "other"}

Expr == [type : Type, lval : BOOLEAN, form : Forms, val : Value, loc : Loc,
         rv : Opd, lv : Opd, storable : BOOLEAN]

RValue(t, v, o) ==
  [type |-> t, lval |-> FALSE, form |-> "other", val |-> v,
   loc |-> Variable("fresh"), rv |-> o, lv |-> o, storable |-> FALSE]

LValue(t, l, rv, lv, storable) ==
  [type |-> t, lval |-> TRUE, form |-> "other", val |-> Contents(l),
   loc |-> l, rv |-> rv, lv |-> lv, storable |-> storable]

\* A computed value in a temporary of its type
Computed(t, ok) == RValue(t, Fresh, TempOf(t, Fresh, ok))

\* A variant: the result is the last temporary allocated
NothingIsWord(ok) == RValue(Void, Fresh, Word(Fresh, ok))

\* An expression of type void: the operand is left as it was
Nothing(ok) == RValue(Void, Fresh, Unset(ok))

Statement(ok) == [Nothing(ok) EXCEPT !.form = "statement"]

\* gen_name, gen_nmbr, gen_bexp_scop, gen_uexp_szof, gen_strl
Name(t)       == LValue(t, Variable(t), Var(t), Var(t), TRUE)
ConstName(t)  == RValue(t, Contents(Variable(t)), Var(t))
Immediate(t)  == RValue(t, Fresh, Imm(Bytes(t)))
StringLiteral == RValue(U8Ptr, Fresh, Word(Fresh, LegalRef(Word(Fresh, TRUE))))

\* Numbers, enum values, sizeof, null, true, false, and functions
ImmediateTypes ==
  {t \in Type : Scalar(t) /\ Is(t, {"u", "enum", "vptr", "fptr"})}

Leaf == {Name(t) : t \in Type \ {Void}} \cup {ConstName(t) : t \in Type \ {Void}}
          \cup {Immediate(t) : t \in ImmediateTypes} \cup {StringLiteral}

NoStore == [code |-> Variable("fresh"), named |-> Variable("fresh")]

Init == /\ expr \in Leaf
        /\ store = NoStore
        /\ depth = 0

\* The next statement
Start == /\ expr' \in Leaf
         /\ store' = NoStore
         /\ depth' = 0

Grow == /\ expr.form # "statement"
        /\ depth < MaxDepth
        /\ depth' = depth + 1

Yield(e) == expr' = e /\ store' = NoStore

\* The construct writes the location o designates; l is the one it names
Store(e, o, l) == /\ expr' = e
                  /\ store' = [code |-> PlaceOf(o), named |-> l]

Allowed(use) == use \in Uses
Stored(e)    == e.lval /\ (e.storable \/ Allowed("indirect store"))

-----------------------------------------------------------------------------
(***************************************************************************)
(* Members and elements.                                                   *)
(***************************************************************************)
\* A variant: the operand keeps the size and sign of the whole
MembOpdKeepsSize(o, m) == [o EXCEPT !.at = Contents(Part(o.at.of, m))]

\* gen_bexp_memb after lhs: an operand in place is shifted; an address is
\* dereferenced before the offset is added
MembOpd(o, m) ==
  IF o.indirect
  THEN SetIndirect(AddOffset(Drf(SetDirect(o), 0, 8), Imm(8), m), m)
  ELSE [o EXCEPT !.at = Contents(Part(o.at.of, m)), !.signd = Sign(m),
                 !.size = Bytes(m)]

Memb(e, m) ==
  /\ Grow /\ MembTyped(e.type, m)
  /\ e.rv.indirect => Allowed("indirect member")
  /\ Yield(IF e.lval
           THEN LValue(m, Part(e.loc, m), MembOpd(e.rv, m), MembOpd(e.lv, m),
                       e.storable /\ ~ e.lv.indirect)
           ELSE RValue(m, Contents(Part(e.val.of, m)), MembOpd(e.rv, m)))

\* A variant: the pointer is not fetched when its operand is an address
ArowOpdNoFetch(o, m) == SetIndirect(AddOffset(SetDirect(o), Imm(8), m), m)

\* gen_bexp_arow after lhs: the pointer is fetched if its operand is an
\* address, and the offset added
ArowOpd(o, m) ==
  LET p == IF o.indirect THEN Drf(SetDirect(o), 0, 8) ELSE o
  IN  SetIndirect(AddOffset(p, Imm(8), m), m)

Arow(e, m) ==
  /\ Grow /\ ArowTyped(e.type, m)
  /\ LET o == ArowOpd(e.rv, m)
     IN  Yield(LValue(m, Part(Target(e.val), m), o, o, TRUE))

\* A variant: the base is referenced even when its operand is an address,
\* as a direct one
IndexOpdAlwaysRef(o, off, t) ==
  SetIndirect(AddOffset(RefOf(SetDirect(o)), Word(Fresh, TRUE), "element"), t)

\* gen_aexp: the offset in bytes, the address of the base, their sum
IndexOpd(o, off, t) ==
  LET wide == IF Desc[off.type].size = 8 THEN off.rv
              ELSE Word(Fresh, off.rv.ok /\ LegalCast(Word(Fresh, TRUE), off.rv))
      base == IF o.indirect THEN SetDirect(o) ELSE RefOf(o)
  IN  SetIndirect(AddOffset(base, Scaled(wide, Bytes(t)), "element"), t)

Index(e, off) ==
  /\ Grow /\ IndexTyped(e.type, off.type)
  /\ e.type = Void => Allowed("void")
  /\ ~ Scalar(off.type) => Allowed("array offset")
  /\ LET t == Desc[e.type].elem
     IN  Yield(IF e.lval
               THEN LValue(t, Part(e.loc, "element"), IndexOpd(e.rv, off, t),
                           IndexOpd(e.lv, off, t), e.storable)
               ELSE RValue(t, Contents(Part(e.val.of, "element")),
                           IndexOpd(e.rv, off, t)))

(***************************************************************************)
(* Pointers and quaints.                                                   *)
(***************************************************************************)
\* * of a pointer: its rv is a copy of the target; its lv turns the operand
\* of the pointer into an indirect one
Mult(e) ==
  /\ Grow /\ MultTyped(e.type) /\ Is(e.type, {"ptr"})
  /\ LET t == Desc[e.type].sub
     IN  Yield(LValue(t, Target(e.val), Drf(e.rv, Sign(t), Bytes(t)),
                      SetIndirect(e.rv, t), ~ e.rv.indirect))

\* * of a quaint: RTE or RTEV, which nullifies the quaint at its end
Run(e) ==
  /\ Grow /\ MultTyped(e.type) /\ Quaint(e.type) /\ e.lval
  /\ PlaceOf(e.rv).copy => Allowed("copied operand")
  /\ LET t  == Desc[e.type].sub
         ok == e.rv.ok /\ LegalRte(e.rv)
     IN  Store(IF t = Void THEN Nothing(ok) ELSE Computed(t, ok), e.rv, e.loc)

Amps(e) ==
  /\ Grow /\ e.lval
  /\ PlaceOf(e.rv).copy => Allowed("copied operand")
  /\ \E t \in PtrTo(e.type) : Yield(RValue(t, Address(e.loc), RefOf(e.rv)))

\* QNT of a call, whose code up to the call is kept, or QNTV of a value
Tild(e) ==
  /\ Grow
  /\ e.type = Void /\ e.form # "call" => Allowed("void")
  /\ \E t \in QuaintOf(e.type) :
       Yield(Computed(t, /\ e.rv.ok
                         /\ e.form = "call" \/ LegalQntv(Word(Fresh, TRUE), e.rv)))

Atsi(e) ==
  /\ Grow /\ AtTyped(e.type)
  /\ Yield(Computed(U8, e.rv.ok /\ LegalQat(TempOf(U8, Fresh, TRUE), e.rv)))

-----------------------------------------------------------------------------
(***************************************************************************)
(* Unary operators.                                                        *)
(***************************************************************************)
\* gen_uexp_mins for ! and ^, which keep the type
NotBneg(e) ==
  /\ Grow
  /\ LET d == TempOf(e.type, Fresh, TRUE)
     IN  \/ NotTyped(e.type)
            /\ Yield(Computed(e.type, e.rv.ok /\ LegalNot(d, e.rv)))
         \/ BnegTyped(e.type)
            /\ Yield(Computed(e.type, e.rv.ok /\ LegalBneg(d, e.rv)))

Neg(e) ==
  /\ Grow /\ NegTyped(e.type)
  /\ LET t == NegType(e.type)
     IN  Yield(Computed(t, e.rv.ok /\ LegalNeg(TempOf(t, Fresh, TRUE), e.rv)))

\* gen_uexp_plus hands on the operand it got
UnaryPlus(e) == /\ Grow /\ PlusTyped(e.type)
                /\ Yield(RValue(e.type, e.val, e.rv))

Cast(e, t) ==
  /\ Grow /\ CastTyped(e.type)
  /\ Yield(Computed(t, e.rv.ok /\ LegalCast(TempOf(t, Fresh, TRUE), e.rv)))

\* What ++ and -- add: the size of what a pointer points to
StepOf(t) == IF Is(t, {"ptr"}) THEN Bytes(Desc[t].sub) ELSE 1

\* gen_uexp_incr: INC of the lvalue, or ADD of the step
PreIncr(e) ==
  /\ Grow /\ IncTyped(e.type) /\ Stored(e)
  /\ LET legal == IF StepOf(e.type) = 1 THEN LegalIncDec(e.lv)
                  ELSE LegalBinArith(e.lv, e.lv, Imm(Bytes(e.type)))
     IN  Store(RValue(e.type, Contents(e.loc),
                      [e.lv EXCEPT !.ok = e.lv.ok /\ legal]), e.lv, e.loc)

\* gen_xexp_incr: INCP, or MOV of the old value and ADD
PostIncr(e) ==
  /\ Grow /\ IncTyped(e.type) /\ Stored(e)
  /\ LET d == TempOf(e.type, ValueOf(e.lv), TRUE)
         legal == IF StepOf(e.type) = 1 THEN LegalIncp(d, e.lv)
                  ELSE /\ LegalMov(d, e.lv)
                       /\ LegalBinArith(e.lv, e.lv, Imm(Bytes(e.type)))
     IN  Store(RValue(e.type, e.val, [d EXCEPT !.ok = e.lv.ok /\ legal]),
               e.lv, e.loc)

(***************************************************************************)
(* Binary operators.                                                       *)
(***************************************************************************)
Assn(l, r) ==
  /\ Grow /\ l.type = r.type /\ Stored(l)
  /\ Store(RValue(l.type, Contents(l.loc),
                  [l.lv EXCEPT !.ok = @ /\ r.rv.ok /\ LegalMov(l.lv, r.rv)]),
           l.lv, l.loc)

\* gen_bexp_plus for + and -
PlusMins(l, r) ==
  /\ Grow /\ ArithTyped("add", l.type, r.type)
  /\ LET n == Scaled(r.rv, StepOf(l.type))
         d == Temp(l.rv.signd, Bytes(l.type), Fresh, TRUE)
     IN  Yield(RValue(l.type, Fresh,
                 [d EXCEPT !.ok = l.rv.ok /\ n.ok /\ LegalBinArith(d, l.rv, n)]))

\* gen_bexp_plus for += and -=: the left operand is the destination
AsplAsmi(l, r) ==
  /\ Grow /\ ArithTyped("add", l.type, r.type) /\ Stored(l)
  /\ LET n == Scaled(r.rv, StepOf(l.type))
     IN  Store(RValue(l.type, Contents(l.loc),
                 [l.lv EXCEPT !.ok = @ /\ n.ok /\ LegalBinArith(l.lv, l.lv, n)]),
               l.lv, l.loc)

\* gen_bexp_asmu: *= /= %= and the bitwise assignments
Asmu(l, r) ==
  /\ Grow /\ Stored(l)
  /\ ArithTyped("mul", l.type, r.type) \/ BitTyped(l.type, r.type)
  /\ Store(RValue(l.type, Contents(l.loc),
             [l.lv EXCEPT !.ok = @ /\ r.rv.ok /\ LegalBinArith(l.lv, l.lv, r.rv)]),
           l.lv, l.loc)

\* gen_bexp_equl for * / % << >> & ^ |
Arith(l, r) ==
  /\ Grow
  /\ ArithTyped("mul", l.type, r.type) \/ BitTyped(l.type, r.type)
  /\ LET d == TempOf(l.type, Fresh, TRUE)
     IN  Yield(Computed(l.type, l.rv.ok /\ r.rv.ok /\ LegalBinArith(d, l.rv, r.rv)))

\* gen_bexp_equl for comparisons
Equl(l, r) ==
  /\ Grow
  /\ LET d  == TempOf(U8, Fresh, TRUE)
         ok == l.rv.ok /\ r.rv.ok
     IN  \/ CompareTyped("equ", l.type, r.type)
            /\ Yield(Computed(U8, ok /\ LegalEqu(d, l.rv, r.rv)))
         \/ CompareTyped("lt", l.type, r.type)
            /\ Yield(Computed(U8, ok /\ LegalBinLogic(d, l.rv, r.rv)))

\* gen_bexp_conj, gen_bexp_disj: OZ, a jump, OZ, and AND or OR
ConjDisj(l, r) ==
  /\ Grow /\ CompareTyped("and", l.type, r.type)
  /\ LET d == TempOf(U8, Fresh, TRUE)
     IN  Yield(Computed(U8, /\ l.rv.ok /\ LegalOz(d, l.rv) /\ LegalCjmp(l.rv)
                            /\ r.rv.ok /\ LegalOz(d, r.rv)
                            /\ LegalBinArith(d, Imm(d.size), d)))

\* gen_bexp_coma: the right operand, as a value
Coma(l, r) ==
  /\ Grow
  /\ Yield(RValue(r.type, r.val, [r.rv EXCEPT !.ok = @ /\ l.rv.ok]))

(***************************************************************************)
(* The ternary operator and calls.                                         *)
(***************************************************************************)
Ternary(c, t, f) ==
  /\ Grow /\ TernaryTyped(c.type, t.type, f.type)
  /\ t.type = Void => Allowed("void")
  /\ LET d == TempOf(t.type, Fresh, TRUE)
     IN  Yield(Computed(t.type, /\ c.rv.ok /\ LegalCjmp(c.rv)
                                /\ t.rv.ok /\ LegalMov(d, t.rv)
                                /\ f.rv.ok /\ LegalMov(d, f.rv)))

Call(f, args) ==
  /\ Grow /\ CallTyped(f.type, [k \in DOMAIN args |-> args[k].type])
  /\ LET t  == Desc[f.type].ret
         ok == /\ f.rv.ok /\ LegalCall(f.rv)
               /\ \A k \in DOMAIN args : args[k].rv.ok /\ LegalPush(args[k].rv)
         e  == IF t = Void THEN Nothing(ok) ELSE Computed(t, ok)
     IN  Yield([e EXCEPT !.form = "call"])

\* Names to pass for the parameters of f
ArgNames(f) == [k \in DOMAIN Desc[f.type].params |-> Name(Desc[f.type].params[k])]

CallWith(e) ==
  \E f \in Leaf : \E k \in DOMAIN Desc[f.type].params :
    Call(f, [ArgNames(f) EXCEPT ![k] = e])

(***************************************************************************)
(* Statements.                                                             *)
(***************************************************************************)
\* if, while, do: any type is accepted
Cond(e) ==
  /\ Grow
  /\ e.type = Void => Allowed("void")
  /\ Yield(Statement(e.rv.ok /\ LegalCjmp(e.rv)))

Wait(e, t) ==
  /\ Grow /\ WaitTyped(e.type) /\ TimeoutTyped(t.type)
  /\ ~ Scalar(e.type) => Allowed("array wait")
  /\ Yield(Statement(/\ e.rv.ok /\ LegalWait(e.rv)
                     /\ t.rv.ok /\ LegalTimeout(t.rv)))

\* gen_decl_auto: MOV of the value to the variable declared
DeclAuto(e) ==
  /\ Grow /\ e.type # Void
  /\ LET d == Var(e.type)
     IN  Store(Statement(e.rv.ok /\ LegalMov(d, e.rv)), d, Variable(e.type))

\* gen_retn of a value: RETV, whose size handle_return compares with that of
\* the operand the caller has for a value of the function's type
Retn(e) ==
  /\ Grow /\ e.type # Void
  /\ Yield(Statement(e.rv.ok /\ LegalRetv(e.rv, TempOf(e.type, Fresh, TRUE))))

-----------------------------------------------------------------------------
Unary(e) ==
  \/ \E m \in Desc[e.type].members : Memb(e, m)
  \/ \E m \in Desc[Desc[e.type].sub].members : Arow(e, m)
  \/ Mult(e) \/ Run(e) \/ Amps(e) \/ Tild(e) \/ Atsi(e)
  \/ NotBneg(e) \/ Neg(e) \/ UnaryPlus(e) \/ PreIncr(e) \/ PostIncr(e)
  \/ \E t \in Type \ {Void} : Cast(e, t)

Binary(l, r) ==
  \/ Index(l, r) \/ Assn(l, r) \/ PlusMins(l, r) \/ AsplAsmi(l, r)
  \/ Asmu(l, r) \/ Arith(l, r) \/ Equl(l, r) \/ ConjDisj(l, r) \/ Coma(l, r)

Like(e) == {o \in Leaf : o.type = e.type} \cup {e}

Next ==
  \/ Start
  \/ Unary(expr)
  \/ \E o \in Leaf : Binary(expr, o) \/ Binary(o, expr)
  \/ \E o \in Leaf : \E p \in Like(o) : Ternary(expr, o, p)
  \/ \E o \in Leaf : \E p \in Like(expr) : Ternary(o, expr, p) \/ Ternary(o, p, expr)
  \/ Call(expr, ArgNames(expr)) \/ CallWith(expr)
  \/ Cond(expr) \/ DeclAuto(expr) \/ Retn(expr)
  \/ \E o \in Leaf : Wait(expr, o) \/ Wait(o, expr)

Spec == Init /\ [][Next]_vars

-----------------------------------------------------------------------------
\* The state is an expression with its operands, the operand of a value is
\* set and that of a void expression is not, and an lvalue is not void.
TypeOK ==
  /\ expr \in Expr
  /\ (expr.rv.opd = "unset") = (expr.type = Void)
  /\ expr.lval => expr.type # Void /\ expr.lv.opd # "unset"
  /\ store \in [code : Loc, named : Loc]
  /\ depth \in 0..MaxDepth

\* The sign and size of every operand are those of the expression's type,
\* so that the rules of type.c are enough for the tests of exec.c.
Fits(o, t) == t # Void => o.signd = Sign(t) /\ o.size = Bytes(t)
OperandsFit == /\ Fits(expr.rv, expr.type)
               /\ expr.lval => Fits(expr.lv, expr.type)

\* What the type checker accepts, exec.c never calls an illegal instruction:
\* no LEGAL_IF test fails and no operand is used that was never set.
AcceptedIsLegal == expr.rv.ok /\ (expr.lval => expr.lv.ok)

\* The operands generated for an expression mean what the expression means:
\* the value, and for an lvalue the location, it has in the language.
OperandsDenote ==
  expr.form # "statement" /\ expr.type # Void =>
    /\ ValueOf(expr.rv) = expr.val
    /\ expr.lval /\ expr.storable => PlaceOf(expr.lv) = expr.loc
    /\ expr.lval /\ ~ PlaceOf(expr.rv).copy => PlaceOf(expr.rv) = expr.loc

\* Every assignment, increment and run writes the location the program names.
StoresWhereNamed == store.code = store.named

=============================================================================
