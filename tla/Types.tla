-------------------------------- MODULE Types --------------------------------
(***************************************************************************)
(* The type rules of src/src/type.c.  A program's types are a finite set   *)
(* closed under whatever the program does, with one name per structure     *)
(* (type_equals compares structure), and Desc gives the attributes the     *)
(* rules look at.  Values are not modelled here: a rule accepts or rejects *)
(* operands by their types.                                                *)
(***************************************************************************)
EXTENDS Integers, Sequences

CONSTANTS
  Type,   \* the types of the program
  Desc,   \* Desc[t]: the struct type, see Descriptor
  Void, U8, Usize, U8Ptr   \* types the compiler itself introduces

Kinds == {"void", "u", "i", "enum", "ptr", "vptr", "fptr", "quaint", "struct"}

\* sub: what a pointer points to, or what a quaint delivers; elem: the type
\* of one element of an array; flip: the signed type of the same size;
\* unused attributes are Void, {} or <<>>.  "struct" stands for unions too.
Descriptor == [kind : Kinds, size : Nat, count : Nat, sub : Type, elem : Type,
               flip : Type, members : SUBSET Type, params : Seq(Type),
               ret : Type]

Is(t, kinds) == Desc[t].kind \in kinds
Integral(t)  == Is(t, {"u", "i", "enum"})
Signed(t)    == Is(t, {"i"})
Sign(t)      == IF Signed(t) THEN 1 ELSE 0
IsPtr(t)     == Is(t, {"ptr", "vptr", "fptr"})
Quaint(t)    == Is(t, {"quaint"})
Scalar(t)    == Desc[t].count = 1
Bytes(t)     == Desc[t].size * Desc[t].count

PowerOf2 == {1, 2, 4, 8}

\* What typedescs and type_quantify guarantee of sizes
WellSized(t) ==
  /\ Integral(t) => Desc[t].size \in PowerOf2
  /\ IsPtr(t) \/ Quaint(t) => Desc[t].size = 8
  /\ t = Void <=> Is(t, {"void"})
  /\ t = Void <=> Bytes(t) = 0
  /\ t = Void => Desc[t].size = 0

ASSUME TypesAssumption ==
  /\ {Void, U8, Usize, U8Ptr} \subseteq Type
  /\ Desc \in [Type -> Descriptor]
  /\ \A t \in Type :
       /\ WellSized(t)
       /\ Is(t, {"ptr"}) => Desc[t].sub # Void
       /\ Void \notin Desc[t].members
       /\ \A k \in 1..Len(Desc[t].params) : Desc[t].params[k] # Void
       /\ LET a == Desc[t].elem IN
          t # Void => /\ Scalar(a) /\ Desc[a].kind = Desc[t].kind
                      /\ Desc[a].size = Desc[t].size
       /\ LET f == Desc[t].flip IN
          Is(t, {"u"}) /\ Scalar(t)
            => Is(f, {"i"}) /\ Scalar(f) /\ Desc[f].size = Desc[t].size
  /\ Is(U8, {"u"}) /\ Scalar(U8) /\ Desc[U8].size = 1
  /\ Is(Usize, {"u"}) /\ Scalar(Usize) /\ Desc[Usize].size = 8
  /\ Is(U8Ptr, {"ptr"}) /\ Scalar(U8Ptr) /\ Desc[U8Ptr].sub = U8

PtrTo(t)    == {p \in Type : Is(p, {"ptr"}) /\ Scalar(p) /\ Desc[p].sub = t}
QuaintOf(t) == {q \in Type : Quaint(q) /\ Scalar(q) /\ Desc[q].sub = t}

-----------------------------------------------------------------------------
(***************************************************************************)
(* type_from_bexp: the binary operators.                                   *)
(***************************************************************************)
\* A variant: the sign is not compared
SameSize(l, r) == Desc[l].size = Desc[r].size

SameShape(l, r) == /\ Desc[l].size = Desc[r].size
                   /\ Signed(l) = Signed(r)

\* + - += -= (pointer or integer on the left), and * / % *= /= %=
ArithTyped(op, l, r) ==
  /\ Scalar(l) /\ Scalar(r)
  /\ Integral(l) \/ (op \in {"add", "sub"} /\ Is(l, {"ptr"}))
  /\ Integral(r)
  /\ SameShape(l, r)

\* << >> & ^ | and their assignments
BitTyped(l, r) ==
  /\ Scalar(l) /\ Scalar(r)
  /\ Integral(l) /\ Integral(r)
  /\ ~ Signed(l) /\ ~ Signed(r)
  /\ Desc[l].size = Desc[r].size

\* == != on arrays too, < > <= >= && || on scalars
CompareTyped(op, l, r) ==
  /\ IF op = "equ" THEN Desc[l].count = Desc[r].count
                   ELSE Scalar(l) /\ Scalar(r)
  /\ Integral(l) \/ IsPtr(l)
  /\ Integral(r) \/ IsPtr(r)
  /\ SameShape(l, r)

AtTyped(q) == Scalar(q) /\ Quaint(q)

MembTyped(t, m) == Scalar(t) /\ Is(t, {"struct"}) /\ m \in Desc[t].members

ArowTyped(t, m) ==
  /\ Scalar(t) /\ Is(t, {"ptr"})
  /\ Scalar(Desc[t].sub) /\ Is(Desc[t].sub, {"struct"})
  /\ m \in Desc[Desc[t].sub].members

CastTyped(t) == t # Void

(***************************************************************************)
(* type_from_uexp, type_from_xexp, type_from_aexp, type_from_texp,         *)
(* type_from_fexp.                                                         *)
(***************************************************************************)
NegTyped(t)  == Scalar(t) /\ Is(t, {"u", "i"})
NegType(t)   == IF Signed(t) THEN t ELSE Desc[t].flip
NotTyped(t)  == Scalar(t) /\ (Integral(t) \/ IsPtr(t) \/ Quaint(t))
PlusTyped(t) == Scalar(t) /\ Integral(t)
BnegTyped(t) == Scalar(t) /\ Integral(t) /\ ~ Signed(t)
IncTyped(t)  == Scalar(t) /\ (Integral(t) \/ Is(t, {"ptr"}))
MultTyped(t) == Scalar(t) /\ Is(t, {"ptr", "quaint"})

\* The base is not a scalar (which lets a void expression in), and nothing
\* is asked of the number of elements of the offset
IndexTyped(base, off) == ~ Scalar(base) /\ Integral(off) /\ ~ Signed(off)

TernaryTyped(c, t, f) ==
  /\ Integral(c) \/ IsPtr(c) \/ Quaint(c)
  /\ t = f

CallTyped(f, args) == Is(f, {"fptr"}) /\ Scalar(f) /\ Desc[f].params = args

(***************************************************************************)
(* check_wait, check_cond, check_retn.                                     *)
(***************************************************************************)
WaitTyped(q)    == Quaint(q)
TimeoutTyped(t) == Scalar(t) /\ Integral(t) /\ ~ Signed(t)

=============================================================================
