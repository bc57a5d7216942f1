----------------------------- MODULE LowerProofs -----------------------------
(***************************************************************************)
(* For every set of types and expressions of every size: a program that    *)
(* keeps away from the uses of UseNames is generated as legal instructions *)
(* whose operands designate what its expressions mean.                     *)
(***************************************************************************)
EXTENDS Lower, SequenceTheorems, TLAPS

\* A location, or a value, that is not in a temporary copy
Plain(l) == l \in Loc /\ ~ l.copy
Sound(v) == v \in Value /\ ~ v.of.copy

\* An operand that may be used as one of type t, or as an eight-byte word
Ready(o)    == o \in Opd /\ o.ok /\ o.opd # "unset"
OpdOk(o, t) == Ready(o) /\ o.signd = Sign(t) /\ o.size = Bytes(t)
WordOk(o)   == Ready(o) /\ o.signd = 0 /\ o.size = 8

\* The inductive invariant on an expression
Good(e) ==
  /\ e \in Expr /\ Sound(e.val)
  /\ e.type = Void => ~ e.lval /\ e.rv.opd = "unset" /\ e.rv.ok
  /\ e.type # Void => OpdOk(e.rv, e.type) /\ ValueOf(e.rv) = e.val
  /\ e.lval =>
       /\ e.type # Void
       /\ OpdOk(e.lv, e.type) /\ Plain(e.loc) /\ e.val = Contents(e.loc)
       /\ e.storable => PlaceOf(e.lv) = e.loc /\ ValueOf(e.lv) = e.val
       /\ ~ PlaceOf(e.rv).copy => PlaceOf(e.rv) = e.loc

-----------------------------------------------------------------------------
(***************************************************************************)
(* What the assumptions on types give.                                     *)
(***************************************************************************)

\* The attributes of a type are types and numbers.
LEMMA DescFacts ==
  ASSUME NEW t \in Type
  PROVE  /\ Desc[t].kind \in Kinds /\ Desc[t].size \in Nat
         /\ Desc[t].count \in Nat /\ Desc[t].sub \in Type
         /\ Desc[t].elem \in Type /\ Desc[t].flip \in Type
         /\ Desc[t].members \subseteq Type /\ Desc[t].params \in Seq(Type)
         /\ Desc[t].ret \in Type
BY TypesAssumption DEF Descriptor

\* The bytes of a type: none for void only, the size for a scalar, and the
\* sizes the instructions ask for.
LEMMA ByteFacts ==
  ASSUME NEW t \in Type
  PROVE  /\ Bytes(t) \in Nat
         /\ t # Void => Bytes(t) > 0
         /\ Scalar(t) => Bytes(t) = Desc[t].size
         /\ Scalar(t) /\ Integral(t) => Bytes(t) \in PowerOf2
         /\ Scalar(t) /\ (IsPtr(t) \/ Quaint(t)) => Bytes(t) = 8
         /\ IsPtr(t) \/ Quaint(t) \/ Integral(t) => t # Void
         /\ IsPtr(t) \/ Quaint(t) => ~ Signed(t)
<1>1. WellSized(t)
  BY TypesAssumption
<1>2. Desc[t].size \in Nat /\ Desc[t].count \in Nat /\ Bytes(t) \in Nat
  BY DescFacts DEF Bytes
<1>3. Scalar(t) => Bytes(t) = Desc[t].size
  BY <1>2 DEF Scalar, Bytes
<1>4. t # Void => Bytes(t) > 0
  BY <1>1, <1>2 DEF WellSized
<1>5. IsPtr(t) \/ Quaint(t) \/ Integral(t) => t # Void
  BY <1>1 DEF WellSized, IsPtr, Quaint, Integral, Is
<1>6. IsPtr(t) \/ Quaint(t) => ~ Signed(t)
  BY DEF IsPtr, Quaint, Signed, Is
<1>7. /\ Integral(t) => Desc[t].size \in PowerOf2
      /\ IsPtr(t) \/ Quaint(t) => Desc[t].size = 8
  BY <1>1 DEF WellSized
<1> QED BY <1>2, <1>3, <1>4, <1>5, <1>6, <1>7

\* Types of the same shape and number of elements have the same bytes.
LEMMA SameBytes ==
  ASSUME NEW t \in Type, NEW u \in Type, Desc[t].size = Desc[u].size,
         Desc[t].count = Desc[u].count
  PROVE  Bytes(t) = Bytes(u)
BY DEF Bytes

(***************************************************************************)
(* Locations and values.                                                   *)
(***************************************************************************)
\* Locations, their parts, their contents and their targets are typed, and
\* none of these steps turns a location of the program into a copy.
LEMMA LocFacts ==
  /\ \A t \in Step : Plain(Variable(t))
  /\ \A l \in Loc, s \in Step :
       Part(l, s) \in Loc /\ (Plain(l) => Plain(Part(l, s)))
  /\ \A l \in Loc : Sound(Contents(l)) /\ Address(l) \in Value
  /\ \A l \in Loc : Plain(l) => Sound(Address(l))
  /\ \A v \in Value : Target(v) \in Loc /\ v.of \in Loc /\ (Sound(v) => Plain(Target(v)))
  /\ Sound(Fresh)
<1>1. ASSUME NEW t \in Step PROVE Plain(Variable(t))
  BY DEF Plain, Variable, Loc
<1>2. ASSUME NEW l \in Loc, NEW s \in Step
      PROVE  Part(l, s) \in Loc /\ (Plain(l) => Plain(Part(l, s)))
  <2>1. Append(l.path, s) \in Seq(Step)
    BY AppendProperties DEF Loc
  <2> QED BY <2>1 DEF Plain, Part, Loc
<1>3. ASSUME NEW l \in Loc
      PROVE  /\ Sound(Contents(l)) /\ Address(l) \in Value
             /\ Plain(l) => Sound(Address(l))
  BY DEF Sound, Contents, Address, Value, Loc, Plain
<1>4. "target" \in Step /\ "fresh" \in Step
  BY DEF Step
<1>5. ASSUME NEW v \in Value
      PROVE  Target(v) \in Loc /\ v.of \in Loc /\ (Sound(v) => Plain(Target(v)))
  <2>1. v.of \in Loc
    BY DEF Value
  <2> QED BY <2>1, <1>2, <1>4 DEF Target, Sound, Plain
<1>6. Sound(Fresh)
  BY <1>1, <1>3, <1>4 DEF Fresh, Plain
<1> QED BY <1>1, <1>2, <1>3, <1>5, <1>6

-----------------------------------------------------------------------------
(***************************************************************************)
(* Operands.                                                               *)
(***************************************************************************)
\* A temporary of a type is an operand of that type and has its value.
LEMMA TempOk ==
  ASSUME NEW t \in Type, NEW v \in Value, NEW ok, ok = TRUE
  PROVE  OpdOk(TempOf(t, v, ok), t) /\ ValueOf(TempOf(t, v, ok)) = v
BY ByteFacts DEF TempOf, Temp, OpdOk, Ready, Opd, Sign, ValueOf

\* A word is an unsigned operand of eight bytes and has its value.
LEMMA WordReady ==
  ASSUME NEW v \in Value, NEW ok, ok = TRUE
  PROVE  /\ WordOk(Word(v, ok)) /\ ValueOf(Word(v, ok)) = v
         /\ Word(v, ok).at = v /\ ~ Word(v, ok).indirect
BY DEF Word, Temp, WordOk, Ready, Opd, ValueOf

\* An immediate operand is unsigned and has the size given.
LEMMA ImmReady ==
  ASSUME NEW n \in Nat
  PROVE  /\ Ready(Imm(n)) /\ Imm(n).signd = 0 /\ Imm(n).size = n
         /\ ValueOf(Imm(n)) = Fresh
BY LocFacts DEF Imm, Temp, Ready, Opd, ValueOf, Sound

\* The operand of a variable (gen_name) designates the variable.
LEMMA VarOk ==
  ASSUME NEW t \in Type
  PROVE  /\ OpdOk(Var(t), t) /\ ValueOf(Var(t)) = Contents(Variable(t))
         /\ PlaceOf(Var(t)) = Variable(t)
<1>1. Contents(Variable(t)) \in Value
  BY LocFacts DEF Step, Sound, Plain
<1> QED BY <1>1, ByteFacts
        DEF Var, TempOf, Temp, OpdOk, Ready, Opd, Sign, ValueOf, PlaceOf,
            Contents, Variable

\* Taking the address out of an operand and putting a type on it.
LEMMA DirectOk ==
  ASSUME NEW o, Ready(o)
  PROVE  WordOk(SetDirect(o)) /\ ValueOf(SetDirect(o)) = o.at
BY DEF SetDirect, WordOk, Ready, Opd, ValueOf

\* set_indirect: an address becomes an operand that designates its target.
LEMMA IndirectOk ==
  ASSUME NEW o, Ready(o), NEW t \in Type
  PROVE  /\ OpdOk(SetIndirect(o, t), t)
         /\ PlaceOf(SetIndirect(o, t)) = Target(o.at)
         /\ ValueOf(SetIndirect(o, t)) = Contents(Target(o.at))
BY ByteFacts DEF SetIndirect, OpdOk, Ready, Opd, PlaceOf, ValueOf, Sign

\* What an operand designates is typed.
LEMMA DesignatesType ==
  ASSUME NEW o \in Opd
  PROVE  PlaceOf(o) \in Loc /\ ValueOf(o) \in Value /\ o.at \in Value
<1>1. o.at \in Value /\ o.opd \in {"imm", "temp", "var", "unset"}
  BY DEF Opd
<1>2. o.at.of \in Loc /\ Target(o.at) \in Loc
  BY <1>1, LocFacts
<1>3. o.at.of.path \in Seq(Step)
  BY <1>2 DEF Loc
<1> QED BY <1>1, <1>2, <1>3, LocFacts DEF PlaceOf, ValueOf, Loc, Sound

\* DRF of an eight-byte operand is legal and fetches what it points to.
LEMMA DrfOk ==
  ASSUME NEW o, Ready(o), o.size = 8, NEW s \in {0, 1}, NEW n \in Nat, n > 0
  PROVE  /\ Ready(Drf(o, s, n)) /\ Drf(o, s, n).signd = s
         /\ Drf(o, s, n).size = n /\ ~ Drf(o, s, n).indirect
         /\ Drf(o, s, n).opd = "temp"
         /\ ValueOf(Drf(o, s, n)) = Contents(Target(ValueOf(o)))
<1> DEFINE v == Contents(Target(ValueOf(o)))
<1>1. v \in Value
  BY DesignatesType, LocFacts DEF Ready, Sound
<1> HIDE DEF v
<1>2. LegalDrf(Temp(s, n, v, TRUE), o)
  BY DEF LegalDrf, Set, Temp, Ready
<1>3. (o.ok /\ LegalDrf(Temp(s, n, v, TRUE), o)) = TRUE
  BY <1>2 DEF Ready
<1>4. Drf(o, s, n) = Temp(s, n, v, o.ok /\ LegalDrf(Temp(s, n, v, TRUE), o))
  BY DEF Drf, v
<1> DEFINE ok == o.ok /\ LegalDrf(Temp(s, n, v, TRUE), o)
<1>5. ok = TRUE
  BY <1>3
<1> HIDE DEF ok
<1>6. LET d == Temp(s, n, v, ok)
      IN  /\ Ready(d) /\ d.signd = s /\ d.size = n /\ d.at = v
          /\ ~ d.indirect /\ d.opd = "temp" /\ ValueOf(d) = v
  BY <1>1, <1>5 DEF Temp, Ready, Opd, ValueOf
<1> QED BY <1>4, <1>6 DEF v, ok

\* REF is legal on every operand that is set and gives the address of what
\* the operand designates.
LEMMA RefOk ==
  ASSUME NEW o, Ready(o)
  PROVE  /\ WordOk(RefOf(o)) /\ ValueOf(RefOf(o)) = Address(PlaceOf(o))
<1>1. Address(PlaceOf(o)) \in Value
  BY DesignatesType, LocFacts DEF Ready
<1>2. LegalRef(Word(Fresh, TRUE))
  BY DEF LegalRef, Handle, Set, Word, Temp
<1>3. (o.ok /\ LegalRef(Word(Fresh, TRUE))) = TRUE
  BY <1>2 DEF Ready, Opd
<1> QED BY <1>1, <1>3, WordReady DEF RefOf

\* Words may be added and multiplied.
LEMMA WordArith ==
  ASSUME NEW a, NEW b, WordOk(a), WordOk(b)
  PROVE  LegalBinArith(Word(Fresh, TRUE), a, b)
<1>1. Number(Word(Fresh, TRUE))
  BY DEF Number, Set, PowerOf2, Word, Temp
<1>2. Number(a) /\ Number(b)
  BY DEF Number, Set, PowerOf2, WordOk, Ready
<1> QED BY <1>1, <1>2 DEF LegalBinArith, WordOk, Word, Temp

\* ADD of two words is legal and gives the address of a part.
LEMMA AddOk ==
  ASSUME NEW o, NEW idx, WordOk(o), WordOk(idx), NEW s \in Step
  PROVE  /\ WordOk(AddOffset(o, idx, s))
         /\ AddOffset(o, idx, s).at = Address(Part(Target(ValueOf(o)), s))
<1>1. Address(Part(Target(ValueOf(o)), s)) \in Value
  BY DesignatesType, LocFacts DEF WordOk, Ready
<1>2. (o.ok /\ idx.ok /\ LegalBinArith(Word(Fresh, TRUE), o, idx)) = TRUE
  BY WordArith DEF WordOk, Ready
<1> QED BY <1>1, <1>2, WordReady DEF AddOffset

\* A word scaled by a size is a word.
LEMMA ScaledOk ==
  ASSUME NEW o, WordOk(o), NEW n \in Nat
  PROVE  WordOk(Scaled(o, n))
<1>1. WordOk(Imm(8))
  BY ImmReady DEF WordOk
<1>2. (o.ok /\ LegalBinArith(Word(Fresh, TRUE), o, Imm(8))) = TRUE
  BY <1>1, WordArith DEF WordOk, Ready
<1> QED BY <1>2, WordReady, LocFacts DEF Scaled, Sound


-----------------------------------------------------------------------------
(***************************************************************************)
(* Ways to build an expression that satisfies the invariant.               *)
(***************************************************************************)
\* A value of a type whose operand fits it and has it.
LEMMA RValueGood ==
  ASSUME NEW t \in Type, t # Void, NEW v, Sound(v), NEW o, OpdOk(o, t),
         ValueOf(o) = v
  PROVE  Good(RValue(t, v, o))
<1>1. RValue(t, v, o) \in Expr
  BY LocFacts DEF RValue, Expr, Forms, OpdOk, Ready, Sound, Plain, Step
<1> QED BY <1>1 DEF RValue, Good

\* An lvalue whose operands fit its type and designate its location.
LEMMA LValueGood ==
  ASSUME NEW t \in Type, t # Void, NEW l, Plain(l), NEW rv, OpdOk(rv, t),
         NEW lv, OpdOk(lv, t), NEW st \in BOOLEAN,
         ValueOf(rv) = Contents(l), ~ PlaceOf(rv).copy => PlaceOf(rv) = l,
         st => PlaceOf(lv) = l /\ ValueOf(lv) = Contents(l)
  PROVE  Good(LValue(t, l, rv, lv, st))
<1>1. Sound(Contents(l))
  BY LocFacts DEF Plain
<1>2. LValue(t, l, rv, lv, st) \in Expr
  BY <1>1 DEF LValue, Expr, Forms, OpdOk, Ready, Sound, Plain
<1> QED BY <1>1, <1>2 DEF LValue, Good

\* A value computed into a temporary of its type.
LEMMA ComputedGood ==
  ASSUME NEW t \in Type, t # Void, NEW ok, ok = TRUE
  PROVE  Good(Computed(t, ok))
BY TempOk, RValueGood, LocFacts DEF Computed, Sound

\* A void expression, and a statement.
LEMMA NothingGood ==
  ASSUME NEW ok, ok = TRUE
  PROVE  Good(Nothing(ok)) /\ Good(Statement(ok))
<1>1. Unset(ok) \in Opd /\ Unset(ok).opd = "unset" /\ Unset(ok).ok
  BY LocFacts DEF Unset, Temp, Opd, Sound
<1>2. Nothing(ok) \in Expr /\ Statement(ok) \in Expr
  BY <1>1, LocFacts, TypesAssumption
  DEF Nothing, Statement, RValue, Expr, Forms, Sound, Plain, Step
<1> QED BY <1>1, <1>2, LocFacts DEF Nothing, Statement, RValue, Good

\* Names, numbers, constants and string literals.
LEMMA LeafGood == \A e \in Leaf : Good(e)
<1>1. ASSUME NEW t \in Type, t # Void PROVE Good(Name(t)) /\ Good(ConstName(t))
  <2>1. Plain(Variable(t)) /\ Sound(Contents(Variable(t)))
    BY LocFacts DEF Step, Plain
  <2> QED BY <1>1, <2>1, VarOk, LValueGood, RValueGood DEF Name, ConstName
<1>2. ASSUME NEW t \in ImmediateTypes PROVE Good(Immediate(t))
  <2>1. t \in Type /\ t # Void /\ ~ Signed(t)
    BY TypesAssumption DEF ImmediateTypes, WellSized, Is, Signed
  <2>2. OpdOk(Imm(Bytes(t)), t)
    BY <2>1, ImmReady, ByteFacts DEF OpdOk, Sign
  <2> QED BY <2>1, <2>2, ByteFacts, ImmReady, LocFacts, RValueGood DEF Immediate
<1>3. Good(StringLiteral)
  <2>1. LegalRef(Word(Fresh, TRUE)) = TRUE
    BY DEF LegalRef, Handle, Set, Word, Temp
  <2>2. U8Ptr \in Type /\ U8Ptr # Void /\ Sign(U8Ptr) = 0 /\ Bytes(U8Ptr) = 8
    BY ByteFacts, TypesAssumption DEF IsPtr, Is, Sign
  <2>3. OpdOk(Word(Fresh, LegalRef(Word(Fresh, TRUE))), U8Ptr)
    BY <2>1, <2>2, WordReady, LocFacts DEF OpdOk, WordOk, Sound
  <2> QED BY <2>1, <2>2, <2>3, WordReady, LocFacts, RValueGood
          DEF StringLiteral, Sound
<1> QED BY <1>1, <1>2, <1>3 DEF Leaf

-----------------------------------------------------------------------------
(***************************************************************************)
(* The operands of members and elements.                                   *)
(***************************************************************************)
\* The value an operand has is read at the place it designates.
LEMMA PathOf ==
  ASSUME NEW o \in Opd
  PROVE  PlaceOf(o).path = ValueOf(o).of.path
BY DEF PlaceOf, ValueOf, Contents

\* What a part contains depends on the path only.
LEMMA SamePath ==
  ASSUME NEW l \in Loc, NEW k \in Loc, l.path = k.path, NEW s \in Step
  PROVE  Contents(Part(l, s)) = Contents(Part(k, s))
BY DEF Contents, Part

\* gen_bexp_memb: an operand in place becomes one of the member in place.
LEMMA MembOpdOk ==
  ASSUME NEW o, Ready(o), NEW m \in Type
  PROVE  /\ OpdOk(MembOpd(o, m), m)
         /\ ~ o.indirect =>
              /\ PlaceOf(MembOpd(o, m)) = Part(PlaceOf(o), m)
              /\ ValueOf(MembOpd(o, m)) = Contents(Part(ValueOf(o).of, m))
<1> m \in Step
  BY DEF Step
<1>1. CASE o.indirect
  <2>1. WordOk(SetDirect(o))
    BY DirectOk
  <2> DEFINE d == Drf(SetDirect(o), 0, 8)
  <2>2. WordOk(d)
    BY <2>1, DrfOk DEF WordOk
  <2>3. WordOk(Imm(8))
    BY ImmReady DEF WordOk
  <2> HIDE DEF d
  <2>4. WordOk(AddOffset(d, Imm(8), m))
    BY <2>2, <2>3, AddOk
  <2>5. OpdOk(SetIndirect(AddOffset(d, Imm(8), m), m), m)
    BY <2>4, IndirectOk DEF WordOk
  <2> QED BY <1>1, <2>5 DEF MembOpd, d
<1>2. CASE ~ o.indirect
  <2>1. o.at \in Value /\ o.at.of \in Loc
    BY DesignatesType, LocFacts DEF Ready
  <2> DEFINE v == Contents(Part(o.at.of, m))
  <2>2. v \in Value
    BY <2>1, LocFacts DEF Sound
  <2>3. v.of.path = Append(o.at.of.path, m)
    BY DEF Contents, Part
  <2>4. v = Contents(Part(ValueOf(o).of, m))
    BY <1>2 DEF ValueOf
  <2> HIDE DEF v
  <2>5. MembOpd(o, m) = [o EXCEPT !.at = v, !.signd = Sign(m), !.size = Bytes(m)]
    BY <1>2 DEF MembOpd, v
  <2>6. OpdOk(MembOpd(o, m), m)
    BY <2>2, <2>5, ByteFacts DEF OpdOk, Ready, Opd, Sign
  <2>7. PlaceOf(MembOpd(o, m)) = Part(PlaceOf(o), m)
    BY <1>2, <2>3, <2>5 DEF PlaceOf, Part, Ready, Opd
  <2>8. ValueOf(MembOpd(o, m)) = v
    BY <1>2, <2>5 DEF ValueOf, Ready, Opd
  <2> QED BY <2>4, <2>6, <2>7, <2>8
<1> QED BY <1>1, <1>2 DEF Ready, Opd

\* gen_bexp_arow: the operand of a pointer, whether an address or not, becomes
\* one that designates the member of what it points to.
LEMMA ArowOpdOk ==
  ASSUME NEW o, WordOk(o), NEW m \in Type
  PROVE  /\ OpdOk(ArowOpd(o, m), m)
         /\ PlaceOf(ArowOpd(o, m)) = Part(Target(ValueOf(o)), m)
         /\ ValueOf(ArowOpd(o, m)) = Contents(Part(Target(ValueOf(o)), m))
<1> DEFINE p == IF o.indirect THEN Drf(SetDirect(o), 0, 8) ELSE o
           l == Part(Target(ValueOf(o)), m)
<1>1. WordOk(p) /\ ValueOf(p) = ValueOf(o)
  <2>1. CASE o.indirect
    <3>1. WordOk(SetDirect(o)) /\ ValueOf(SetDirect(o)) = o.at
      BY DirectOk DEF WordOk
    <3>2. WordOk(p) /\ ValueOf(p) = Contents(Target(o.at))
      BY <2>1, <3>1, DrfOk DEF WordOk
    <3> QED BY <2>1, <3>2 DEF ValueOf
  <2>2. CASE ~ o.indirect
    BY <2>2
  <2> QED BY <2>1, <2>2 DEF WordOk, Ready, Opd
<1> HIDE DEF p
<1>2. WordOk(Imm(8)) /\ m \in Step
  BY ImmReady DEF WordOk, Step
<1> DEFINE a == AddOffset(p, Imm(8), m)
<1>3. WordOk(a) /\ a.at = Address(l)
  <2>1. WordOk(a) /\ a.at = Address(Part(Target(ValueOf(p)), m))
    BY <1>1, <1>2, AddOk
  <2> QED BY <1>1, <2>1
<1>4. Target(Address(l)) = l
  BY DEF Target, Address
<1>5. ArowOpd(o, m) = SetIndirect(a, m)
  BY DEF ArowOpd, p
<1> HIDE DEF a, l
<1>6. /\ OpdOk(SetIndirect(a, m), m) /\ PlaceOf(SetIndirect(a, m)) = Target(a.at)
      /\ ValueOf(SetIndirect(a, m)) = Contents(Target(a.at))
  BY <1>3, IndirectOk DEF WordOk
<1> QED BY <1>3, <1>4, <1>5, <1>6 DEF l

\* The offset is an operand of unsigned scalar type off.type.
LEMMA IndexOpdOk ==
  ASSUME NEW o, Ready(o), NEW off, Good(off), Scalar(off.type),
         Integral(off.type), ~ Signed(off.type), NEW t \in Type
  PROVE  /\ OpdOk(IndexOpd(o, off, t), t)
         /\ PlaceOf(IndexOpd(o, off, t)) = Part(PlaceOf(o), "element")
         /\ ValueOf(IndexOpd(o, off, t)) = Contents(Part(PlaceOf(o), "element"))
<1> DEFINE ok == off.rv.ok /\ LegalCast(Word(Fresh, TRUE), off.rv)
           wide == IF Desc[off.type].size = 8 THEN off.rv ELSE Word(Fresh, ok)
           base == IF o.indirect THEN SetDirect(o) ELSE RefOf(o)
           n == Scaled(wide, Bytes(t))
           a == AddOffset(base, n, "element")
           l == Part(PlaceOf(o), "element")
<1>1. off.type \in Type /\ off.type # Void /\ OpdOk(off.rv, off.type)
  BY ByteFacts DEF Good, Expr
<1>2. Sign(off.type) = 0 /\ Bytes(off.type) = Desc[off.type].size
  BY <1>1, ByteFacts DEF Sign
<1>3. Bytes(off.type) > 0 /\ Bytes(t) \in Nat
  BY <1>1, ByteFacts
<1>4. ok = TRUE
  BY <1>1, <1>3 DEF LegalCast, Set, Word, Temp, OpdOk, Ready
<1> HIDE DEF ok
<1>5. WordOk(wide)
  BY <1>1, <1>2, <1>4, WordReady, LocFacts DEF OpdOk, WordOk, Sound
<1>6. WordOk(n)
  BY <1>3, <1>5, ScaledOk
<1>7. WordOk(base) /\ Target(ValueOf(base)) = PlaceOf(o)
  <2>1. CASE o.indirect
    BY <2>1, DirectOk DEF PlaceOf
  <2>2. CASE ~ o.indirect
    BY <2>2, RefOk DEF Target, Address
  <2> QED BY <2>1, <2>2 DEF Ready, Opd
<1>8. IndexOpd(o, off, t) = SetIndirect(a, t)
  BY DEF IndexOpd, ok
<1> HIDE DEF base, n, wide
<1>9. WordOk(a) /\ a.at = Address(l)
  BY <1>6, <1>7, AddOk DEF Step
<1> HIDE DEF a, l
<1>10. Target(a.at) = l
  BY <1>9 DEF Target, Address
<1>11. /\ OpdOk(SetIndirect(a, t), t) /\ PlaceOf(SetIndirect(a, t)) = Target(a.at)
       /\ ValueOf(SetIndirect(a, t)) = Contents(Target(a.at))
  BY <1>9, IndirectOk DEF WordOk
<1> QED BY <1>8, <1>10, <1>11 DEF l

-----------------------------------------------------------------------------
(***************************************************************************)
(* What the tests of the instructions ask of an operand of a given type.   *)
(***************************************************************************)
\* An operand of a type is set, a number if the type is a scalar one, and a
\* handle if the type is a pointer or a quaint.
LEMMA Operand ==
  ASSUME NEW t \in Type, t # Void, NEW o, OpdOk(o, t)
  PROVE  /\ Set(o) /\ o.ok = TRUE
         /\ Scalar(t) /\ Integral(t) => Number(o)
         /\ Scalar(t) /\ (IsPtr(t) \/ Quaint(t)) => Number(o) /\ Handle(o) /\ WordOk(o)
<1>1. Set(o) /\ o.ok = TRUE
  BY ByteFacts DEF OpdOk, Ready, Opd, Set
<1>2. Scalar(t) /\ Integral(t) => Number(o)
  BY <1>1, ByteFacts DEF OpdOk, Number
<1>3. ASSUME Scalar(t), IsPtr(t) \/ Quaint(t)
      PROVE  Number(o) /\ Handle(o) /\ WordOk(o)
  <2>1. o.size = 8 /\ o.signd = 0 /\ Ready(o)
    BY <1>3, ByteFacts DEF OpdOk, Sign
  <2> QED BY <1>1, <2>1 DEF Number, Handle, WordOk, PowerOf2
<1> QED BY <1>1, <1>2, <1>3

\* The operand of a value that is not void
LEMMA OperandOf ==
  ASSUME NEW e, Good(e)
  PROVE  /\ e.type \in Type /\ Sound(e.val) /\ e.rv.ok = TRUE
         /\ e.type # Void => OpdOk(e.rv, e.type) /\ ValueOf(e.rv) = e.val
         /\ e.lval => /\ OpdOk(e.lv, e.type) /\ e.type # Void
                      /\ Plain(e.loc) /\ e.loc \in Loc /\ e.val = Contents(e.loc)
BY DEF Good, Expr, OpdOk, Ready, Opd, Plain

\* The type of the result of a comparison is one unsigned byte.
LEMMA U8Facts == U8 \in Type /\ U8 # Void /\ Sign(U8) = 0 /\ Bytes(U8) = 1
<1>1. U8 \in Type /\ Is(U8, {"u"}) /\ Scalar(U8) /\ Desc[U8].size = 1
  BY TypesAssumption
<1>2. U8 # Void /\ Sign(U8) = 0
  BY <1>1, ByteFacts DEF Integral, Sign, Signed, Is
<1> QED BY <1>1, <1>2, ByteFacts

\* A store records a place, and the one the program names
SoundStore(s) == s \in [code : Loc, named : Loc] /\ s.code = s.named

\* A construct that only yields an expression keeps the invariant.
LEMMA YieldOk ==
  ASSUME NEW e, Good(e), Yield(e)
  PROVE  Good(expr') /\ SoundStore(store')
BY LocFacts DEF Yield, NoStore, SoundStore, Plain, Step

\* A construct that stores where it says keeps the invariant.
LEMMA StoreOk ==
  ASSUME NEW e, Good(e), NEW o, NEW l \in Loc, PlaceOf(o) = l, Store(e, o, l)
  PROVE  Good(expr') /\ SoundStore(store')
BY DEF Store, SoundStore

\* A further legal instruction leaves an operand as it is.
LEMMA KeepOk ==
  ASSUME NEW t \in Type, NEW o, OpdOk(o, t), NEW ok, ok = TRUE
  PROVE  [o EXCEPT !.ok = ok] = o
BY DEF OpdOk, Ready, Opd

-----------------------------------------------------------------------------
(***************************************************************************)
(* One lemma per construct.                                                *)
(***************************************************************************)
\* The member of an operand in place is what . means.
LEMMA MembGood ==
  ASSUME NEW e, Good(e), Uses = {}, NEW m, Memb(e, m)
  PROVE  Good(expr') /\ SoundStore(store')
<1>1. MembTyped(e.type, m) /\ ~ e.rv.indirect
  BY DEF Memb, Allowed, Good, Expr, Opd
<1>2. e.type \in Type /\ e.type # Void /\ m \in Type /\ m # Void
  BY <1>1, DescFacts, TypesAssumption
  DEF MembTyped, WellSized, Is, Good, Expr
<1>3. /\ OpdOk(MembOpd(e.rv, m), m)
      /\ PlaceOf(MembOpd(e.rv, m)) = Part(PlaceOf(e.rv), m)
      /\ ValueOf(MembOpd(e.rv, m)) = Contents(Part(e.val.of, m))
  BY <1>1, <1>2, MembOpdOk DEF Good, OpdOk
<1>4. m \in Step /\ e.val.of \in Loc
  BY <1>2, LocFacts DEF Step, Good, Expr
<1>5. CASE ~ e.lval
  <2>1. Good(RValue(m, Contents(Part(e.val.of, m)), MembOpd(e.rv, m)))
    BY <1>2, <1>3, <1>4, LocFacts, RValueGood
  <2> QED BY <1>5, <2>1, YieldOk DEF Memb
<1>6. CASE e.lval
  <2> DEFINE st == e.storable /\ ~ e.lv.indirect
             l == Part(e.loc, m)
  <2>1. OpdOk(MembOpd(e.lv, m), m)
    BY <1>2, <1>6, MembOpdOk DEF Good, OpdOk
  <2>2. Plain(l) /\ st \in BOOLEAN
    BY <1>4, <1>6, LocFacts DEF Good, Plain
  <2>3. Contents(Part(e.val.of, m)) = Contents(l)
    BY <1>4, <1>6, SamePath DEF Good, Plain, Contents
  <2>4. ~ PlaceOf(MembOpd(e.rv, m)).copy => PlaceOf(MembOpd(e.rv, m)) = l
    <3>1. Part(PlaceOf(e.rv), m).copy = PlaceOf(e.rv).copy
      BY DEF Part
    <3> QED BY <1>3, <1>6, <3>1 DEF Good
  <2>5. ASSUME st
        PROVE  PlaceOf(MembOpd(e.lv, m)) = l /\ ValueOf(MembOpd(e.lv, m)) = Contents(l)
    <3>1. ValueOf(e.lv) = e.val /\ PlaceOf(e.lv) = e.loc
      BY <1>6, <2>5 DEF Good
    <3>2. /\ PlaceOf(MembOpd(e.lv, m)) = Part(PlaceOf(e.lv), m)
          /\ ValueOf(MembOpd(e.lv, m)) = Contents(Part(ValueOf(e.lv).of, m))
      BY <1>2, <1>6, <2>5, MembOpdOk DEF Good, OpdOk
    <3> QED BY <2>3, <3>1, <3>2
  <2> HIDE DEF st, l
  <2>6. Good(LValue(m, l, MembOpd(e.rv, m), MembOpd(e.lv, m), st))
    BY <1>2, <1>3, <2>1, <2>2, <2>3, <2>4, <2>5, LValueGood
  <2>7. Yield(LValue(m, l, MembOpd(e.rv, m), MembOpd(e.lv, m), st))
    BY <1>6 DEF Memb, st, l
  <2> QED BY <2>6, <2>7, YieldOk
<1> QED BY <1>5, <1>6

\* -> designates the member of what the pointer points to.
LEMMA ArowGood ==
  ASSUME NEW e, Good(e), NEW m, Arow(e, m)
  PROVE  Good(expr') /\ SoundStore(store')
<1>1. ArowTyped(e.type, m)
  BY DEF Arow
<1>2. /\ e.type \in Type /\ e.type # Void /\ Scalar(e.type) /\ IsPtr(e.type)
      /\ m \in Type /\ m # Void
  <2>1. e.type \in Type /\ Scalar(e.type) /\ IsPtr(e.type)
    BY <1>1 DEF ArowTyped, IsPtr, Is, Good, Expr
  <2>2. Desc[e.type].sub \in Type
    BY <2>1, DescFacts
  <2>3. m \in Type /\ m # Void
    BY <1>1, <2>2, DescFacts, TypesAssumption DEF ArowTyped
  <2> QED BY <2>1, <2>3, ByteFacts
<1>3. WordOk(e.rv) /\ ValueOf(e.rv) = e.val
  BY <1>2, Operand, OperandOf
<1> DEFINE o == ArowOpd(e.rv, m)
           l == Part(Target(e.val), m)
<1>4. OpdOk(o, m) /\ PlaceOf(o) = l /\ ValueOf(o) = Contents(l)
  BY <1>2, <1>3, ArowOpdOk
<1>5. Plain(l)
  BY <1>2, LocFacts, OperandOf DEF Step, Sound, Plain
<1>6. Yield(LValue(m, l, o, o, TRUE))
  BY DEF Arow
<1> HIDE DEF o, l
<1>7. Good(LValue(m, l, o, o, TRUE))
  BY <1>2, <1>4, <1>5, LValueGood
<1> QED BY <1>6, <1>7, YieldOk

\* [] designates the element, of an operand in place or of an address.
LEMMA IndexGood ==
  ASSUME NEW e, Good(e), NEW off, Good(off), Uses = {}, Index(e, off)
  PROVE  Good(expr') /\ SoundStore(store')
<1> DEFINE t == Desc[e.type].elem
           rv == IndexOpd(e.rv, off, t)
           lv == IndexOpd(e.lv, off, t)
<1>1. /\ IndexTyped(e.type, off.type) /\ e.type # Void /\ Scalar(off.type)
      /\ Yield(IF e.lval
               THEN LValue(t, Part(e.loc, "element"), rv, lv, e.storable)
               ELSE RValue(t, Contents(Part(e.val.of, "element")), rv))
  BY DEF Index, Allowed
<1>2. e.type \in Type /\ t \in Type /\ t # Void /\ "element" \in Step
  <2>1. e.type \in Type /\ t \in Type
    BY OperandOf, DescFacts
  <2>2. Desc[t].kind = Desc[e.type].kind /\ WellSized(t) /\ WellSized(e.type)
    BY <1>1, <2>1, TypesAssumption
  <2> QED BY <1>1, <2>1, <2>2 DEF WellSized, Is, Step
<1> HIDE DEF t
<1>3. /\ OpdOk(rv, t) /\ PlaceOf(rv) = Part(PlaceOf(e.rv), "element")
      /\ ValueOf(rv) = Contents(Part(PlaceOf(e.rv), "element"))
  BY <1>1, <1>2, IndexOpdOk DEF Good, OpdOk, IndexTyped
<1>4. e.rv \in Opd /\ e.val.of \in Loc /\ PlaceOf(e.rv) \in Loc
  BY LocFacts, DesignatesType DEF Good, Expr
<1>5. ValueOf(rv) = Contents(Part(e.val.of, "element"))
  BY <1>1, <1>2, <1>3, <1>4, PathOf, SamePath DEF Good
<1> HIDE DEF rv
<1>6. CASE ~ e.lval
  <2>1. Good(RValue(t, Contents(Part(e.val.of, "element")), rv))
    BY <1>2, <1>3, <1>4, <1>5, LocFacts, RValueGood
  <2> QED BY <1>1, <1>6, <2>1, YieldOk
<1>7. CASE e.lval
  <2> DEFINE l == Part(e.loc, "element")
  <2>1. /\ OpdOk(lv, t) /\ PlaceOf(lv) = Part(PlaceOf(e.lv), "element")
        /\ ValueOf(lv) = Contents(Part(PlaceOf(e.lv), "element"))
    BY <1>1, <1>2, <1>7, IndexOpdOk DEF Good, OpdOk, IndexTyped
  <2>2. Plain(l) /\ e.storable \in BOOLEAN
    BY <1>2, <1>7, LocFacts DEF Good, Plain, Expr
  <2>3. Contents(Part(e.val.of, "element")) = Contents(l)
    BY <1>2, <1>4, <1>7, SamePath DEF Good, Plain, Contents
  <2>4. ~ PlaceOf(rv).copy => PlaceOf(rv) = l
    <3>1. Part(PlaceOf(e.rv), "element").copy = PlaceOf(e.rv).copy
      BY DEF Part
    <3> QED BY <1>3, <1>7, <3>1 DEF Good
  <2>5. e.storable => PlaceOf(lv) = l /\ ValueOf(lv) = Contents(l)
    BY <1>7, <2>1 DEF Good
  <2>6. Yield(LValue(t, l, rv, lv, e.storable))
    BY <1>1, <1>7
  <2> HIDE DEF l, lv
  <2>7. Good(LValue(t, l, rv, lv, e.storable))
    BY <1>2, <1>3, <1>5, <2>1, <2>2, <2>3, <2>4, <2>5, LValueGood
  <2> QED BY <2>6, <2>7, YieldOk
<1> QED BY <1>6, <1>7

\* * of a pointer: a copy of the target as a value, the target as an lvalue.
LEMMA MultGood ==
  ASSUME NEW e, Good(e), Mult(e)
  PROVE  Good(expr') /\ SoundStore(store')
<1> DEFINE t == Desc[e.type].sub
           l == Target(e.val)
           rv == Drf(e.rv, Sign(t), Bytes(t))
           lv == SetIndirect(e.rv, t)
           st == ~ e.rv.indirect
<1>1. /\ MultTyped(e.type) /\ Is(e.type, {"ptr"})
      /\ Yield(LValue(t, l, rv, lv, st))
  BY DEF Mult
<1>2. /\ e.type \in Type /\ e.type # Void /\ Scalar(e.type) /\ IsPtr(e.type)
      /\ t \in Type /\ t # Void
  BY <1>1, OperandOf, DescFacts, ByteFacts, TypesAssumption DEF MultTyped, IsPtr, Is
<1> HIDE DEF t
<1>3. WordOk(e.rv) /\ ValueOf(e.rv) = e.val /\ Sound(e.val)
  BY <1>2, Operand, OperandOf
<1>4. Sign(t) \in {0, 1} /\ Bytes(t) \in Nat /\ Bytes(t) > 0
  BY <1>2, ByteFacts DEF Sign
<1>5. OpdOk(rv, t) /\ ValueOf(rv) = Contents(l) /\ rv.opd = "temp" /\ ~ rv.indirect
  BY <1>3, <1>4, DrfOk DEF WordOk, OpdOk
<1>6. PlaceOf(rv).copy
  BY <1>5 DEF PlaceOf
<1>7. OpdOk(lv, t) /\ PlaceOf(lv) = Target(e.rv.at) /\ ValueOf(lv) = Contents(Target(e.rv.at))
  BY <1>2, <1>3, IndirectOk DEF WordOk
<1>8. st => Target(e.rv.at) = l
  BY <1>3 DEF ValueOf
<1>9. Plain(l) /\ st \in BOOLEAN
  BY <1>3, LocFacts DEF Sound
<1> HIDE DEF l, rv, lv, st
<1>10. Good(LValue(t, l, rv, lv, st))
  BY <1>2, <1>5, <1>6, <1>7, <1>8, <1>9, LValueGood
<1> QED BY <1>1, <1>10, YieldOk

\* * of a quaint runs, and nullifies, the quaint that is named.
LEMMA RunGood ==
  ASSUME NEW e, Good(e), Uses = {}, Run(e)
  PROVE  Good(expr') /\ SoundStore(store')
<1> DEFINE t == Desc[e.type].sub
           ok == e.rv.ok /\ LegalRte(e.rv)
           x == IF t = Void THEN Nothing(ok) ELSE Computed(t, ok)
<1>1. /\ MultTyped(e.type) /\ Quaint(e.type) /\ e.lval
      /\ ~ PlaceOf(e.rv).copy /\ Store(x, e.rv, e.loc)
  BY DEF Run, Allowed
<1>2. /\ e.type \in Type /\ Scalar(e.type) /\ t \in Type /\ e.loc \in Loc
      /\ OpdOk(e.rv, e.type) /\ PlaceOf(e.rv) = e.loc /\ e.type # Void
  BY <1>1, OperandOf, DescFacts DEF MultTyped, Good
<1>3. ok = TRUE
  BY <1>1, <1>2, Operand DEF LegalRte
<1> HIDE DEF t, ok
<1>4. Good(x)
  BY <1>2, <1>3, NothingGood, ComputedGood
<1> QED BY <1>1, <1>2, <1>4, StoreOk

\* & of an operand that is not a copy is the address of what is named.
LEMMA AmpsGood ==
  ASSUME NEW e, Good(e), Uses = {}, Amps(e)
  PROVE  Good(expr') /\ SoundStore(store')
<1>1. PICK t \in PtrTo(e.type) : Yield(RValue(t, Address(e.loc), RefOf(e.rv)))
  BY DEF Amps
<1>2. e.lval /\ ~ PlaceOf(e.rv).copy
  BY DEF Amps, Allowed
<1>3. PlaceOf(e.rv) = e.loc /\ Plain(e.loc) /\ e.loc \in Loc /\ Ready(e.rv)
  BY <1>2, OperandOf DEF Good, OpdOk
<1>4. t \in Type /\ t # Void /\ Sign(t) = 0 /\ Bytes(t) = 8
  BY ByteFacts DEF PtrTo, IsPtr, Is, Sign
<1>5. OpdOk(RefOf(e.rv), t) /\ ValueOf(RefOf(e.rv)) = Address(e.loc)
  BY <1>3, <1>4, RefOk DEF WordOk, OpdOk
<1>6. Good(RValue(t, Address(e.loc), RefOf(e.rv)))
  BY <1>3, <1>4, <1>5, LocFacts, RValueGood
<1> QED BY <1>1, <1>6, YieldOk

\* ~ of a call, or of a value that is not void, makes a quaint.
LEMMA TildGood ==
  ASSUME NEW e, Good(e), Uses = {}, Tild(e)
  PROVE  Good(expr') /\ SoundStore(store')
<1> DEFINE ok == /\ e.rv.ok
                 /\ e.form = "call" \/ LegalQntv(Word(Fresh, TRUE), e.rv)
<1>1. PICK t \in QuaintOf(e.type) : Yield(Computed(t, ok))
  BY DEF Tild
<1>2. e.form # "call" => e.type # Void
  BY DEF Tild, Allowed
<1>3. ok = TRUE
  <2>1. Handle(Word(Fresh, TRUE))
    BY DEF Handle, Set, Word, Temp
  <2> QED BY <1>2, <2>1, Operand, OperandOf DEF LegalQntv
<1>4. t \in Type /\ t # Void
  BY ByteFacts DEF QuaintOf
<1> HIDE DEF ok
<1>5. Good(Computed(t, ok))
  BY <1>3, <1>4, ComputedGood
<1> QED BY <1>1, <1>5, YieldOk

\* The tests of a quaint with @ get a handle and give a byte.
LEMMA AtsiGood ==
  ASSUME NEW e, Good(e), Atsi(e)
  PROVE  Good(expr') /\ SoundStore(store')
<1> DEFINE ok == e.rv.ok /\ LegalQat(TempOf(U8, Fresh, TRUE), e.rv)
<1>1. AtTyped(e.type) /\ Yield(Computed(U8, ok))
  BY DEF Atsi
<1>2. e.type \in Type /\ e.type # Void /\ OpdOk(e.rv, e.type)
  BY <1>1, OperandOf, ByteFacts DEF AtTyped
<1>3. Handle(e.rv) /\ e.rv.ok = TRUE
  BY <1>1, <1>2, Operand DEF AtTyped
<1>4. ok = TRUE
  BY <1>3, U8Facts DEF LegalQat, Set, TempOf, Temp
<1> HIDE DEF ok
<1>5. Good(Computed(U8, ok))
  BY <1>4, U8Facts, ComputedGood
<1> QED BY <1>1, <1>5, YieldOk

\* ! and ^ keep sign and size.
LEMMA NotBnegGood ==
  ASSUME NEW e, Good(e), NotBneg(e)
  PROVE  Good(expr') /\ SoundStore(store')
<1> DEFINE d == TempOf(e.type, Fresh, TRUE)
           ok1 == e.rv.ok /\ LegalNot(d, e.rv)
           ok2 == e.rv.ok /\ LegalBneg(d, e.rv)
<1>1. \/ NotTyped(e.type) /\ Yield(Computed(e.type, ok1))
      \/ BnegTyped(e.type) /\ Yield(Computed(e.type, ok2))
  BY DEF NotBneg
<1>2. /\ e.type \in Type /\ e.type # Void /\ Scalar(e.type)
      /\ Integral(e.type) \/ IsPtr(e.type) \/ Quaint(e.type)
  BY <1>1, OperandOf, ByteFacts DEF NotTyped, BnegTyped
<1>3. OpdOk(d, e.type) /\ OpdOk(e.rv, e.type)
  BY <1>2, TempOk, OperandOf, LocFacts DEF Sound
<1> HIDE DEF d
<1>4. LegalNot(d, e.rv) /\ e.rv.ok = TRUE
  BY <1>2, <1>3, Operand DEF LegalNot, OpdOk
<1>5. BnegTyped(e.type) => LegalBneg(d, e.rv)
  BY <1>3, <1>4 DEF LegalBneg, BnegTyped, OpdOk, Sign
<1>6. ok1 = TRUE /\ (BnegTyped(e.type) => ok2 = TRUE)
  BY <1>4, <1>5
<1> HIDE DEF ok1, ok2
<1> QED BY <1>1, <1>2, <1>6, ComputedGood, YieldOk

\* Unary minus gives the signed type of the same size, as NEG asks.
LEMMA NegGood ==
  ASSUME NEW e, Good(e), Neg(e)
  PROVE  Good(expr') /\ SoundStore(store')
<1> DEFINE t == NegType(e.type)
           ok == e.rv.ok /\ LegalNeg(TempOf(t, Fresh, TRUE), e.rv)
<1>1. NegTyped(e.type) /\ Yield(Computed(t, ok))
  BY DEF Neg
<1>2. e.type \in Type /\ e.type # Void /\ Scalar(e.type) /\ Integral(e.type)
  BY <1>1, OperandOf, ByteFacts DEF NegTyped, Integral, Is
<1>3. t \in Type /\ Signed(t) /\ Scalar(t) /\ Desc[t].size = Desc[e.type].size
  BY <1>1, <1>2, DescFacts, TypesAssumption DEF NegTyped, NegType, Signed, Is
<1>4. t # Void /\ Integral(t) /\ Bytes(t) = Bytes(e.type)
  BY <1>2, <1>3, ByteFacts DEF Signed, Integral, Is
<1>5. OpdOk(TempOf(t, Fresh, TRUE), t) /\ OpdOk(e.rv, e.type)
  BY <1>2, <1>3, TempOk, OperandOf, LocFacts DEF Sound
<1>6. ok = TRUE
  BY <1>2, <1>3, <1>4, <1>5, Operand DEF LegalNeg, OpdOk, Sign
<1> HIDE DEF ok, t
<1>7. Good(Computed(t, ok))
  BY <1>3, <1>4, <1>6, ComputedGood
<1> QED BY <1>1, <1>7, YieldOk

\* Unary plus hands on the operand, which still fits.
LEMMA UnaryPlusGood ==
  ASSUME NEW e, Good(e), UnaryPlus(e)
  PROVE  Good(expr') /\ SoundStore(store')
<1>1. PlusTyped(e.type) /\ Yield(RValue(e.type, e.val, e.rv))
  BY DEF UnaryPlus
<1>2. e.type \in Type /\ e.type # Void
  BY <1>1, OperandOf, ByteFacts DEF PlusTyped
<1>3. Good(RValue(e.type, e.val, e.rv))
  BY <1>2, OperandOf, RValueGood
<1> QED BY <1>1, <1>3, YieldOk

\* A cast between types that are not void.
LEMMA CastGood ==
  ASSUME NEW e, Good(e), NEW t \in Type, t # Void, Cast(e, t)
  PROVE  Good(expr') /\ SoundStore(store')
<1> DEFINE ok == e.rv.ok /\ LegalCast(TempOf(t, Fresh, TRUE), e.rv)
<1>1. e.type # Void /\ Yield(Computed(t, ok))
  BY DEF Cast, CastTyped
<1>2. OpdOk(TempOf(t, Fresh, TRUE), t)
  BY TempOk, LocFacts DEF Sound
<1>3. ok = TRUE
  BY <1>1, <1>2, Operand, OperandOf DEF LegalCast
<1> HIDE DEF ok
<1>4. Good(Computed(t, ok))
  BY <1>3, ComputedGood
<1> QED BY <1>1, <1>4, YieldOk

\* What may be stored to is where it says.
LEMMA StoredFacts ==
  ASSUME NEW e, Good(e), Uses = {}, Stored(e)
  PROVE  /\ e.type \in Type /\ e.type # Void /\ OpdOk(e.lv, e.type)
         /\ PlaceOf(e.lv) = e.loc /\ e.loc \in Loc
         /\ ValueOf(e.lv) = e.val /\ e.val = Contents(e.loc) /\ Sound(e.val)
         /\ Good(RValue(e.type, Contents(e.loc), e.lv))
<1>1. e.lval /\ e.storable
  BY DEF Stored, Allowed
<1>2. /\ e.type \in Type /\ e.type # Void /\ OpdOk(e.lv, e.type)
      /\ e.loc \in Loc /\ e.val = Contents(e.loc) /\ Sound(e.val)
  BY <1>1, OperandOf
<1>3. PlaceOf(e.lv) = e.loc /\ ValueOf(e.lv) = e.val
  BY <1>1 DEF Good
<1>4. Good(RValue(e.type, Contents(e.loc), e.lv))
  BY <1>2, <1>3, RValueGood
<1> QED BY <1>2, <1>3, <1>4

\* A step other than 1 is that of a pointer, which is added as a word.
LEMMA AddStep ==
  ASSUME NEW t \in Type, IncTyped(t), NEW o, OpdOk(o, t), NEW k, OpdOk(k, t)
  PROVE  /\ Number(o) /\ t # Void
         /\ StepOf(t) # 1 => LegalBinArith(o, k, Imm(Bytes(t)))
<1>1. Scalar(t) /\ (Integral(t) \/ IsPtr(t)) /\ t # Void
  BY ByteFacts DEF IncTyped, IsPtr, Is
<1>2. Number(o) /\ Number(k)
  BY <1>1, Operand
<1>3. ASSUME StepOf(t) # 1 PROVE LegalBinArith(o, k, Imm(Bytes(t)))
  <2>1. IsPtr(t)
    BY <1>3 DEF StepOf, IsPtr, Is
  <2>2. Bytes(t) = 8 /\ Sign(t) = 0
    BY <1>1, <2>1, ByteFacts DEF Sign
  <2>3. Number(Imm(8)) /\ Imm(8).signd = 0 /\ Imm(8).size = 8
    BY ImmReady DEF Number, Set, Ready, PowerOf2
  <2> QED BY <1>2, <2>2, <2>3 DEF LegalBinArith, OpdOk
<1> QED BY <1>1, <1>2, <1>3

\* ++ and -- before an lvalue write it, by one or by the size pointed to.
LEMMA PreIncrGood ==
  ASSUME NEW e, Good(e), Uses = {}, PreIncr(e)
  PROVE  Good(expr') /\ SoundStore(store')
<1> DEFINE ok == e.lv.ok /\ (IF StepOf(e.type) = 1 THEN LegalIncDec(e.lv)
                             ELSE LegalBinArith(e.lv, e.lv, Imm(Bytes(e.type))))
           x == RValue(e.type, Contents(e.loc), [e.lv EXCEPT !.ok = ok])
<1>1. IncTyped(e.type) /\ Stored(e) /\ Store(x, e.lv, e.loc)
  BY DEF PreIncr
<1>2. e.type \in Type /\ OpdOk(e.lv, e.type) /\ e.type # Void
  BY <1>1, StoredFacts
<1>3. e.lv.ok = TRUE
  BY <1>2, Operand
<1>4. ok = TRUE
  BY <1>1, <1>2, <1>3, AddStep DEF LegalIncDec
<1> HIDE DEF ok
<1>5. [e.lv EXCEPT !.ok = ok] = e.lv
  BY <1>2, <1>4, KeepOk
<1>6. Good(x)
  BY <1>1, <1>5, StoredFacts
<1> QED BY <1>1, <1>6, StoredFacts, StoreOk

\* ++ and -- after an lvalue keep the old value in a temporary.
LEMMA PostIncrGood ==
  ASSUME NEW e, Good(e), Uses = {}, PostIncr(e)
  PROVE  Good(expr') /\ SoundStore(store')
<1> DEFINE d == TempOf(e.type, ValueOf(e.lv), TRUE)
           ok == e.lv.ok /\ (IF StepOf(e.type) = 1 THEN LegalIncp(d, e.lv)
                             ELSE /\ LegalMov(d, e.lv)
                                  /\ LegalBinArith(e.lv, e.lv, Imm(Bytes(e.type))))
           x == RValue(e.type, e.val, [d EXCEPT !.ok = ok])
<1>1. IncTyped(e.type) /\ Stored(e) /\ Store(x, e.lv, e.loc)
  BY DEF PostIncr
<1>2. /\ e.type \in Type /\ OpdOk(e.lv, e.type) /\ e.type # Void
      /\ ValueOf(e.lv) = e.val /\ Sound(e.val)
  BY <1>1, StoredFacts
<1>3. OpdOk(d, e.type) /\ ValueOf(d) = e.val
  BY ZenonT(40), <1>2, TempOk DEF Sound
<1> HIDE DEF d
<1>4. /\ e.lv.ok = TRUE /\ Set(d) /\ Set(e.lv) /\ Number(d) /\ Number(e.lv)
      /\ d.size = e.lv.size /\ d.signd = e.lv.signd
  BY <1>1, <1>2, <1>3, Operand, AddStep DEF OpdOk
<1>5. ok = TRUE
  BY <1>1, <1>2, <1>4, AddStep DEF LegalIncp, LegalNot, LegalMov
<1> HIDE DEF ok
<1>6. [d EXCEPT !.ok = ok] = d
  BY <1>2, <1>3, <1>5, KeepOk
<1>7. Good(x)
  BY <1>2, <1>3, <1>6, RValueGood
<1> QED BY <1>1, <1>7, StoredFacts, StoreOk

\* An assignment writes the lvalue, with as many bytes as it has.
LEMMA AssnGood ==
  ASSUME NEW l, Good(l), NEW r, Good(r), Uses = {}, Assn(l, r)
  PROVE  Good(expr') /\ SoundStore(store')
<1> DEFINE ok == l.lv.ok /\ r.rv.ok /\ LegalMov(l.lv, r.rv)
           x == RValue(l.type, Contents(l.loc), [l.lv EXCEPT !.ok = ok])
<1>1. l.type = r.type /\ Stored(l) /\ Store(x, l.lv, l.loc)
  BY DEF Assn
<1>2. l.type \in Type /\ OpdOk(l.lv, l.type) /\ l.type # Void
  BY <1>1, StoredFacts
<1>3. OpdOk(r.rv, l.type)
  BY <1>1, <1>2, OperandOf
<1>4. ok = TRUE
  BY <1>2, <1>3, Operand DEF LegalMov, OpdOk
<1> HIDE DEF ok
<1>5. [l.lv EXCEPT !.ok = ok] = l.lv
  BY <1>2, <1>4, KeepOk
<1>6. Good(x)
  BY <1>1, <1>5, StoredFacts
<1> QED BY <1>1, <1>6, StoredFacts, StoreOk

\* What the rules for + and - give: the number added has the sign and the
\* size of the left operand, scaled or not.
LEMMA ScaledLegal ==
  ASSUME NEW l, Good(l), NEW r, Good(r), ArithTyped("add", l.type, r.type),
         NEW d, OpdOk(d, l.type), NEW a, OpdOk(a, l.type)
  PROVE  LET n == Scaled(r.rv, StepOf(l.type))
         IN  n.ok = TRUE /\ LegalBinArith(d, a, n) /\ l.type # Void
<1> DEFINE n == Scaled(r.rv, StepOf(l.type))
<1>1. /\ l.type \in Type /\ r.type \in Type /\ Scalar(l.type) /\ Scalar(r.type)
      /\ Integral(l.type) \/ IsPtr(l.type)
      /\ Is(l.type, {"ptr"}) => IsPtr(l.type)
      /\ Integral(r.type) /\ SameShape(l.type, r.type)
  <2>1. \A t : Is(t, {"ptr"}) => IsPtr(t)
    BY DEF IsPtr, Is
  <2> QED BY <2>1, OperandOf DEF ArithTyped
<1>2. /\ l.type # Void /\ r.type # Void /\ Sign(l.type) = Sign(r.type)
      /\ Bytes(l.type) = Bytes(r.type)
  BY <1>1, ByteFacts DEF SameShape, Sign
<1>3. OpdOk(r.rv, r.type) /\ Number(r.rv) /\ r.rv.ok = TRUE
  BY <1>1, <1>2, OperandOf, Operand
<1>4. Number(d) /\ Number(a)
  BY <1>1, <1>2, Operand
<1>5. CASE StepOf(l.type) = 1
  <2>1. n = r.rv
    BY <1>5 DEF Scaled
  <2> QED BY <1>2, <1>3, <1>4, <2>1 DEF LegalBinArith, OpdOk
<1>6. CASE StepOf(l.type) # 1
  <2>1. IsPtr(l.type) /\ Desc[l.type].sub \in Type
    BY <1>1, <1>6, DescFacts DEF StepOf
  <2>2. Bytes(l.type) = 8 /\ Sign(l.type) = 0 /\ StepOf(l.type) \in Nat
    BY <1>1, <2>1, ByteFacts DEF Sign, StepOf
  <2>3. WordOk(r.rv) /\ WordOk(d) /\ WordOk(a)
    BY <1>2, <1>3, <2>2 DEF WordOk, OpdOk
  <2>4. WordOk(n)
    BY <2>2, <2>3, ScaledOk
  <2> HIDE DEF n
  <2>5. Number(n) /\ n.ok = TRUE
    BY <2>4 DEF Number, Set, WordOk, Ready, PowerOf2, Opd
  <2> QED BY <1>2, <1>4, <2>3, <2>4, <2>5 DEF LegalBinArith, WordOk, n
<1> QED BY <1>5, <1>6

\* + and -, of pointers too.
LEMMA PlusMinsGood ==
  ASSUME NEW l, Good(l), NEW r, Good(r), PlusMins(l, r)
  PROVE  Good(expr') /\ SoundStore(store')
<1> DEFINE n == Scaled(r.rv, StepOf(l.type))
           d == Temp(l.rv.signd, Bytes(l.type), Fresh, TRUE)
           ok == l.rv.ok /\ n.ok /\ LegalBinArith(d, l.rv, n)
           x == RValue(l.type, Fresh, [d EXCEPT !.ok = ok])
<1>0. ArithTyped("add", l.type, r.type)
  BY DEF PlusMins
<1>1. Yield(x)
  BY DEF PlusMins
<1>2. l.type \in Type /\ l.type # Void
  <2>1. \A t : Is(t, {"ptr"}) => IsPtr(t)
    BY DEF IsPtr, Is
  <2> QED BY <1>0, <2>1, OperandOf, ByteFacts DEF ArithTyped
<1>3. OpdOk(l.rv, l.type) /\ l.rv.ok = TRUE
  BY <1>2, OperandOf
<1>4. d = TempOf(l.type, Fresh, TRUE)
  <2>1. l.rv.signd = Sign(l.type)
    BY <1>3 DEF OpdOk
  <2> QED BY <2>1 DEF TempOf
<1>5. OpdOk(d, l.type) /\ ValueOf(d) = Fresh
  <2>1. OpdOk(TempOf(l.type, Fresh, TRUE), l.type) /\ ValueOf(TempOf(l.type, Fresh, TRUE)) = Fresh
    BY <1>2, TempOk, LocFacts DEF Sound
  <2> QED BY <1>4, <2>1
<1> HIDE DEF d
<1>6. ok = TRUE
  <2>1. n.ok = TRUE /\ LegalBinArith(d, l.rv, n)
    BY <1>0, <1>3, <1>5, ScaledLegal
  <2> QED BY <1>3, <2>1
<1> HIDE DEF ok
<1>7. [d EXCEPT !.ok = ok] = d
  BY <1>2, <1>5, <1>6, KeepOk
<1>8. Good(x)
  BY <1>2, <1>5, <1>7, LocFacts, RValueGood
<1> QED BY <1>1, <1>8, YieldOk

\* += and -= write the lvalue on the left.
LEMMA AsplAsmiGood ==
  ASSUME NEW l, Good(l), NEW r, Good(r), Uses = {}, AsplAsmi(l, r)
  PROVE  Good(expr') /\ SoundStore(store')
<1> DEFINE n == Scaled(r.rv, StepOf(l.type))
           ok == l.lv.ok /\ n.ok /\ LegalBinArith(l.lv, l.lv, n)
           x == RValue(l.type, Contents(l.loc), [l.lv EXCEPT !.ok = ok])
<1>0. ArithTyped("add", l.type, r.type)
  BY DEF AsplAsmi
<1>1. Stored(l) /\ Store(x, l.lv, l.loc)
  BY DEF AsplAsmi
<1>2. l.type \in Type /\ OpdOk(l.lv, l.type) /\ l.type # Void
  BY <1>1, StoredFacts
<1>3. l.lv.ok = TRUE
  BY <1>2, Operand
<1>4. ok = TRUE
  <2>1. n.ok = TRUE /\ LegalBinArith(l.lv, l.lv, n)
    BY <1>0, <1>2, ScaledLegal
  <2> QED BY <1>3, <2>1
<1> HIDE DEF ok
<1>5. [l.lv EXCEPT !.ok = ok] = l.lv
  BY <1>2, <1>4, KeepOk
<1>6. Good(x)
  BY <1>1, <1>5, StoredFacts
<1> QED BY <1>1, <1>6, StoredFacts, StoreOk

\* What the rules for the other arithmetic and bitwise operators give
LEMMA ArithLegal ==
  ASSUME NEW l, Good(l), NEW r, Good(r),
         ArithTyped("mul", l.type, r.type) \/ BitTyped(l.type, r.type),
         NEW d, OpdOk(d, l.type), NEW a, OpdOk(a, l.type)
  PROVE  r.rv.ok = TRUE /\ LegalBinArith(d, a, r.rv)
<1>1. /\ l.type \in Type /\ r.type \in Type /\ Scalar(l.type) /\ Scalar(r.type)
      /\ Integral(l.type) /\ Integral(r.type)
      /\ Desc[l.type].size = Desc[r.type].size /\ Sign(l.type) = Sign(r.type)
  <2>1. CASE ArithTyped("mul", l.type, r.type)
    BY <2>1, OperandOf DEF ArithTyped, SameShape, Sign
  <2>2. CASE BitTyped(l.type, r.type)
    BY <2>2, OperandOf DEF BitTyped, Sign
  <2> QED BY <2>1, <2>2
<1>2. l.type # Void /\ r.type # Void /\ Bytes(l.type) = Bytes(r.type)
  BY <1>1, ByteFacts
<1>3. OpdOk(r.rv, r.type) /\ r.rv.ok = TRUE
  BY <1>2, OperandOf
<1>4. Number(d) /\ Number(a) /\ Number(r.rv)
  BY <1>1, <1>2, <1>3, Operand
<1> QED BY <1>1, <1>2, <1>3, <1>4 DEF LegalBinArith, OpdOk

\* *= and the like write the lvalue on the left.
LEMMA AsmuGood ==
  ASSUME NEW l, Good(l), NEW r, Good(r), Uses = {}, Asmu(l, r)
  PROVE  Good(expr') /\ SoundStore(store')
<1> DEFINE ok == l.lv.ok /\ r.rv.ok /\ LegalBinArith(l.lv, l.lv, r.rv)
           x == RValue(l.type, Contents(l.loc), [l.lv EXCEPT !.ok = ok])
<1>0. ArithTyped("mul", l.type, r.type) \/ BitTyped(l.type, r.type)
  BY DEF Asmu
<1>1. Stored(l) /\ Store(x, l.lv, l.loc)
  BY DEF Asmu
<1>2. l.type \in Type /\ OpdOk(l.lv, l.type) /\ l.type # Void
  BY <1>1, StoredFacts
<1>3. l.lv.ok = TRUE
  BY <1>2, Operand
<1>4. ok = TRUE
  <2>1. r.rv.ok = TRUE /\ LegalBinArith(l.lv, l.lv, r.rv)
    BY <1>0, <1>2, ArithLegal
  <2> QED BY <1>3, <2>1
<1> HIDE DEF ok
<1>5. [l.lv EXCEPT !.ok = ok] = l.lv
  BY <1>2, <1>4, KeepOk
<1>6. Good(x)
  BY <1>1, <1>5, StoredFacts
<1> QED BY <1>1, <1>6, StoredFacts, StoreOk

\* * / % and the bitwise operators.
LEMMA ArithGood ==
  ASSUME NEW l, Good(l), NEW r, Good(r), Arith(l, r)
  PROVE  Good(expr') /\ SoundStore(store')
<1> DEFINE d == TempOf(l.type, Fresh, TRUE)
           ok == l.rv.ok /\ r.rv.ok /\ LegalBinArith(d, l.rv, r.rv)
<1>0. ArithTyped("mul", l.type, r.type) \/ BitTyped(l.type, r.type)
  BY DEF Arith
<1>1. Yield(Computed(l.type, ok))
  BY DEF Arith
<1>2. l.type \in Type /\ l.type # Void
  BY <1>0, OperandOf, ByteFacts DEF ArithTyped, BitTyped
<1>3. OpdOk(l.rv, l.type) /\ l.rv.ok = TRUE
  BY <1>2, OperandOf
<1>4. OpdOk(d, l.type)
  BY <1>2, TempOk, LocFacts DEF Sound
<1> HIDE DEF d
<1>5. ok = TRUE
  <2>1. r.rv.ok = TRUE /\ LegalBinArith(d, l.rv, r.rv)
    BY <1>0, <1>3, <1>4, ArithLegal
  <2> QED BY <1>3, <2>1
<1> HIDE DEF ok
<1>6. Good(Computed(l.type, ok))
  BY <1>2, <1>5, ComputedGood
<1> QED BY <1>1, <1>6, YieldOk

\* What the rules for comparisons give
LEMMA CompareFacts ==
  ASSUME NEW l, Good(l), NEW r, Good(r), NEW op, CompareTyped(op, l.type, r.type)
  PROVE  /\ l.rv.ok = TRUE /\ r.rv.ok = TRUE /\ Set(l.rv) /\ Set(r.rv)
         /\ l.rv.size = r.rv.size /\ l.rv.signd = r.rv.signd
         /\ Scalar(l.type) /\ Scalar(r.type) => Number(l.rv) /\ Number(r.rv)
<1>1. /\ l.type \in Type /\ r.type \in Type
      /\ Integral(l.type) \/ IsPtr(l.type)
      /\ Integral(r.type) \/ IsPtr(r.type)
      /\ Desc[l.type].count = Desc[r.type].count
      /\ Desc[l.type].size = Desc[r.type].size /\ Signed(l.type) = Signed(r.type)
  BY OperandOf DEF CompareTyped, SameShape, Scalar
<1>2. l.type # Void /\ r.type # Void
  BY <1>1, OperandOf, ByteFacts DEF CompareTyped
<1>3. OpdOk(l.rv, l.type) /\ OpdOk(r.rv, r.type) /\ l.rv.ok = TRUE /\ r.rv.ok = TRUE
  BY <1>2, OperandOf
<1>4. Sign(l.type) = Sign(r.type) /\ Bytes(l.type) = Bytes(r.type)
  BY <1>1, SameBytes DEF Sign
<1>5. Set(l.rv) /\ Set(r.rv)
  BY <1>1, <1>2, <1>3, Operand
<1>6. Scalar(l.type) /\ Scalar(r.type) => Number(l.rv) /\ Number(r.rv)
  BY <1>1, <1>2, <1>3, Operand DEF CompareTyped
<1> QED BY <1>3, <1>4, <1>5, <1>6 DEF OpdOk

\* Comparisons: sizes agree, of arrays too where EQU and NEQ are used.
LEMMA EqulGood ==
  ASSUME NEW l, Good(l), NEW r, Good(r), Equl(l, r)
  PROVE  Good(expr') /\ SoundStore(store')
<1> DEFINE d == TempOf(U8, Fresh, TRUE)
           ok1 == (l.rv.ok /\ r.rv.ok) /\ LegalEqu(d, l.rv, r.rv)
           ok2 == (l.rv.ok /\ r.rv.ok) /\ LegalBinLogic(d, l.rv, r.rv)
<1>1. \/ CompareTyped("equ", l.type, r.type) /\ Yield(Computed(U8, ok1))
      \/ CompareTyped("lt", l.type, r.type) /\ Yield(Computed(U8, ok2))
  BY DEF Equl
<1>2. Set(d) /\ d.signd = 0 /\ d.size = 1
  BY U8Facts DEF Set, TempOf, Temp
<1> HIDE DEF d
<1>3. CompareTyped("equ", l.type, r.type) => ok1 = TRUE
  BY <1>2, CompareFacts DEF LegalEqu
<1>4. ASSUME CompareTyped("lt", l.type, r.type) PROVE ok2 = TRUE
  <2>1. Scalar(l.type) /\ Scalar(r.type)
    BY <1>4 DEF CompareTyped
  <2>2. /\ l.rv.ok = TRUE /\ r.rv.ok = TRUE /\ Number(l.rv) /\ Number(r.rv)
        /\ l.rv.size = r.rv.size /\ l.rv.signd = r.rv.signd
    BY <1>4, <2>1, CompareFacts
  <2> QED BY <1>2, <2>2 DEF LegalBinLogic
<1> HIDE DEF ok1, ok2
<1> QED BY <1>1, <1>3, <1>4, U8Facts, ComputedGood, YieldOk

\* && and ||.
LEMMA ConjDisjGood ==
  ASSUME NEW l, Good(l), NEW r, Good(r), ConjDisj(l, r)
  PROVE  Good(expr') /\ SoundStore(store')
<1> DEFINE d == TempOf(U8, Fresh, TRUE)
           ok == /\ l.rv.ok /\ LegalOz(d, l.rv) /\ LegalCjmp(l.rv)
                 /\ r.rv.ok /\ LegalOz(d, r.rv)
                 /\ LegalBinArith(d, Imm(d.size), d)
<1>0. CompareTyped("and", l.type, r.type)
  BY DEF ConjDisj
<1>1. Yield(Computed(U8, ok))
  BY DEF ConjDisj
<1>2. Number(d) /\ Set(d) /\ d.signd = 0 /\ d.size = 1
  BY U8Facts DEF Number, Set, TempOf, Temp, PowerOf2
<1> HIDE DEF d
<1>3. Number(Imm(1)) /\ Imm(1).signd = 0 /\ Imm(1).size = 1
  BY ImmReady DEF Number, Set, Ready, PowerOf2
<1>4. LegalBinArith(d, Imm(d.size), d)
  BY <1>2, <1>3 DEF LegalBinArith
<1>5. /\ l.rv.ok = TRUE /\ r.rv.ok = TRUE /\ Set(l.rv)
      /\ Number(l.rv) /\ Number(r.rv)
  <2>1. Scalar(l.type) /\ Scalar(r.type)
    BY <1>0 DEF CompareTyped
  <2> QED BY <1>0, <2>1, CompareFacts
<1>6. ok = TRUE
  BY <1>2, <1>4, <1>5 DEF LegalOz, LegalCjmp
<1> HIDE DEF ok
<1>7. Good(Computed(U8, ok))
  BY <1>6, U8Facts, ComputedGood
<1> QED BY <1>1, <1>7, YieldOk

\* The right operand of a comma may be void.
LEMMA ComaGood ==
  ASSUME NEW l, Good(l), NEW r, Good(r), Coma(l, r)
  PROVE  Good(expr') /\ SoundStore(store')
<1> DEFINE ok == r.rv.ok /\ l.rv.ok
<1>1. Yield(RValue(r.type, r.val, [r.rv EXCEPT !.ok = ok]))
  BY DEF Coma
<1>2. ok = TRUE /\ r.rv.ok = TRUE
  BY OperandOf
<1> HIDE DEF ok
<1>3. r.rv \in Opd /\ r.type \in Type /\ Sound(r.val) /\ r.val \in Value
  BY DEF Good, Expr
<1>4. [r.rv EXCEPT !.ok = ok] = r.rv
  BY <1>2, <1>3 DEF Opd
<1>5. CASE r.type # Void
  BY <1>1, <1>3, <1>4, <1>5, OperandOf, RValueGood, YieldOk
<1>6. CASE r.type = Void
  <2>1. RValue(r.type, r.val, r.rv) \in Expr
    BY <1>3, LocFacts DEF RValue, Expr, Forms, Plain, Step
  <2>2. Good(RValue(r.type, r.val, r.rv))
    BY <1>3, <1>6, <2>1 DEF RValue, Good
  <2> QED BY <1>1, <1>4, <2>2, YieldOk
<1> QED BY <1>5, <1>6

\* Both branches of ?: are moved to a temporary of their type.
LEMMA TernaryGood ==
  ASSUME NEW c, Good(c), NEW t, Good(t), NEW f, Good(f), Uses = {},
         Ternary(c, t, f)
  PROVE  Good(expr') /\ SoundStore(store')
<1> DEFINE d == TempOf(t.type, Fresh, TRUE)
           ok == /\ c.rv.ok /\ LegalCjmp(c.rv)
                 /\ t.rv.ok /\ LegalMov(d, t.rv)
                 /\ f.rv.ok /\ LegalMov(d, f.rv)
<1>1. TernaryTyped(c.type, t.type, f.type) /\ t.type # Void
  BY DEF Ternary, Allowed
<1>2. Yield(Computed(t.type, ok))
  BY DEF Ternary
<1>3. /\ c.type \in Type /\ c.type # Void /\ t.type \in Type /\ f.type = t.type
  BY <1>1, OperandOf, ByteFacts DEF TernaryTyped
<1>4. /\ OpdOk(c.rv, c.type) /\ OpdOk(t.rv, t.type) /\ OpdOk(f.rv, t.type)
  BY <1>1, <1>3, OperandOf
<1>5. OpdOk(d, t.type)
  BY <1>3, TempOk, LocFacts DEF Sound
<1> HIDE DEF d
<1>6. /\ Set(c.rv) /\ Set(d) /\ Set(t.rv) /\ Set(f.rv)
      /\ c.rv.ok = TRUE /\ t.rv.ok = TRUE /\ f.rv.ok = TRUE
      /\ d.size = t.rv.size /\ d.size = f.rv.size
  BY <1>1, <1>3, <1>4, <1>5, Operand DEF OpdOk
<1>7. ok = TRUE
  BY <1>6 DEF LegalCjmp, LegalMov
<1> HIDE DEF ok
<1>8. Good(Computed(t.type, ok))
  BY <1>1, <1>3, <1>7, ComputedGood
<1> QED BY <1>2, <1>8, YieldOk

\* A call: the function is a handle and every argument may be pushed.
LEMMA CallGood ==
  ASSUME NEW f, Good(f), NEW args, \A k \in DOMAIN args : Good(args[k]),
         Call(f, args)
  PROVE  Good(expr') /\ SoundStore(store')
<1> DEFINE t == Desc[f.type].ret
           ok == /\ f.rv.ok /\ LegalCall(f.rv)
                 /\ \A k \in DOMAIN args : args[k].rv.ok /\ LegalPush(args[k].rv)
           e == IF t = Void THEN Nothing(ok) ELSE Computed(t, ok)
<1>1. CallTyped(f.type, [k \in DOMAIN args |-> args[k].type])
  BY DEF Call
<1>2. Yield([e EXCEPT !.form = "call"])
  BY DEF Call
<1>3. f.type \in Type /\ t \in Type /\ Scalar(f.type) /\ IsPtr(f.type) /\ f.type # Void
  BY <1>1, OperandOf, DescFacts, ByteFacts DEF CallTyped, IsPtr, Is
<1>4. f.rv.ok = TRUE /\ LegalCall(f.rv)
  BY <1>3, Operand, OperandOf DEF LegalCall
<1>5. ASSUME NEW k \in DOMAIN args
      PROVE  args[k].rv.ok = TRUE /\ LegalPush(args[k].rv)
  <2>1. Desc[f.type].params \in Seq(Type)
    BY <1>3, DescFacts
  <2>2. Desc[f.type].params = [i \in DOMAIN args |-> args[i].type]
    BY <1>1 DEF CallTyped
  <2>3. k \in 1..Len(Desc[f.type].params) /\ Desc[f.type].params[k] = args[k].type
    BY <2>1, <2>2
  <2>4. args[k].type # Void
    BY <1>3, <2>3, TypesAssumption
  <2> QED BY <2>4, Operand, OperandOf DEF LegalPush
<1>6. ok = TRUE
  BY <1>4, <1>5
<1> HIDE DEF ok, t
<1>7. Good(e)
  BY <1>3, <1>6, NothingGood, ComputedGood
<1> HIDE DEF e
<1>8. Good([e EXCEPT !.form = "call"])
  BY <1>7 DEF Good, Expr, Forms
<1> QED BY <1>2, <1>8, YieldOk

\* The arguments that are names satisfy the invariant.
LEMMA ArgNamesGood ==
  ASSUME NEW f, Good(f)
  PROVE  /\ DOMAIN ArgNames(f) = DOMAIN Desc[f.type].params
         /\ \A k \in DOMAIN ArgNames(f) : Good(ArgNames(f)[k])
<1>1. f.type \in Type /\ Desc[f.type].params \in Seq(Type)
  BY OperandOf, DescFacts
<1>2. ASSUME NEW k \in DOMAIN Desc[f.type].params
      PROVE  Good(Name(Desc[f.type].params[k]))
  <2>1. k \in 1..Len(Desc[f.type].params) /\ Desc[f.type].params[k] \in Type
    BY <1>1
  <2>2. Desc[f.type].params[k] # Void
    BY <1>1, <2>1, TypesAssumption
  <2> QED BY <2>1, <2>2, LeafGood DEF Leaf
<1> QED BY <1>2 DEF ArgNames

\* A call with the expression as one of its arguments.
LEMMA CallWithGood ==
  ASSUME NEW e, Good(e), CallWith(e)
  PROVE  Good(expr') /\ SoundStore(store')
<1>1. PICK f \in Leaf : \E k \in DOMAIN Desc[f.type].params :
        Call(f, [ArgNames(f) EXCEPT ![k] = e])
  BY DEF CallWith
<1>2. PICK k \in DOMAIN Desc[f.type].params :
        Call(f, [ArgNames(f) EXCEPT ![k] = e])
  BY <1>1
<1>3. Good(f)
  BY LeafGood
<1> DEFINE args == [ArgNames(f) EXCEPT ![k] = e]
<1>4. \A i \in DOMAIN args : Good(args[i])
  BY <1>3, ArgNamesGood
<1> HIDE DEF args
<1> QED BY <1>2, <1>3, <1>4, CallGood DEF args

\* The condition of if, while and do.
LEMMA CondGood ==
  ASSUME NEW e, Good(e), Uses = {}, Cond(e)
  PROVE  Good(expr') /\ SoundStore(store')
<1> DEFINE ok == e.rv.ok /\ LegalCjmp(e.rv)
<1>1. e.type # Void /\ Yield(Statement(ok))
  BY DEF Cond, Allowed
<1>2. ok = TRUE
  BY <1>1, Operand, OperandOf DEF LegalCjmp
<1> HIDE DEF ok
<1> QED BY <1>1, <1>2, NothingGood, YieldOk

\* wait gets a handle and an unsigned number.
LEMMA WaitGood ==
  ASSUME NEW e, Good(e), NEW t, Good(t), Uses = {}, Wait(e, t)
  PROVE  Good(expr') /\ SoundStore(store')
<1> DEFINE ok == /\ e.rv.ok /\ LegalWait(e.rv)
                 /\ t.rv.ok /\ LegalTimeout(t.rv)
<1>1. /\ WaitTyped(e.type) /\ TimeoutTyped(t.type) /\ Scalar(e.type)
      /\ Yield(Statement(ok))
  BY DEF Wait, Allowed
<1>2. e.type \in Type /\ t.type \in Type /\ e.type # Void /\ t.type # Void
  BY <1>1, OperandOf, ByteFacts DEF WaitTyped, TimeoutTyped
<1>3. OpdOk(e.rv, e.type) /\ OpdOk(t.rv, t.type)
  BY <1>2, OperandOf
<1>4. Handle(e.rv) /\ Number(t.rv) /\ e.rv.ok = TRUE /\ t.rv.ok = TRUE
  BY <1>1, <1>2, <1>3, Operand DEF WaitTyped, TimeoutTyped
<1>5. ok = TRUE
  BY <1>1, <1>3, <1>4 DEF LegalWait, LegalTimeout, TimeoutTyped, OpdOk, Sign
<1> HIDE DEF ok
<1> QED BY <1>1, <1>5, NothingGood, YieldOk

\* The value of a declaration is moved to the variable declared.
LEMMA DeclAutoGood ==
  ASSUME NEW e, Good(e), DeclAuto(e)
  PROVE  Good(expr') /\ SoundStore(store')
<1> DEFINE d == Var(e.type)
           ok == e.rv.ok /\ LegalMov(d, e.rv)
<1>1. e.type # Void /\ Store(Statement(ok), d, Variable(e.type))
  BY DEF DeclAuto
<1>2. e.type \in Type /\ OpdOk(e.rv, e.type)
  BY <1>1, OperandOf
<1>3. OpdOk(d, e.type) /\ PlaceOf(d) = Variable(e.type) /\ Variable(e.type) \in Loc
  BY <1>2, VarOk, LocFacts DEF Plain, Step
<1> HIDE DEF d
<1>4. ok = TRUE
  BY <1>1, <1>2, <1>3, Operand DEF LegalMov, OpdOk
<1> HIDE DEF ok
<1> QED BY <1>1, <1>3, <1>4, NothingGood, StoreOk

\* The value returned has the size the caller has reserved.
LEMMA RetnGood ==
  ASSUME NEW e, Good(e), Retn(e)
  PROVE  Good(expr') /\ SoundStore(store')
<1> DEFINE c == TempOf(e.type, Fresh, TRUE)
           ok == e.rv.ok /\ LegalRetv(e.rv, c)
<1>1. e.type # Void /\ Yield(Statement(ok))
  BY DEF Retn
<1>2. e.type \in Type /\ OpdOk(e.rv, e.type)
  BY <1>1, OperandOf
<1>3. OpdOk(c, e.type)
  BY <1>2, TempOk, LocFacts DEF Sound
<1> HIDE DEF c
<1>4. ok = TRUE
  BY <1>1, <1>2, <1>3, Operand DEF LegalRetv, OpdOk
<1> HIDE DEF ok
<1> QED BY <1>1, <1>4, NothingGood, YieldOk

-----------------------------------------------------------------------------
(***************************************************************************)
(* The induction.                                                          *)
(***************************************************************************)
Inv == Good(expr) /\ SoundStore(store) /\ depth \in 0..MaxDepth

\* Every construct with one operand keeps the invariant.
LEMMA UnaryGood ==
  ASSUME NEW e, Good(e), Uses = {}, Unary(e)
  PROVE  Good(expr') /\ SoundStore(store')
<1>1. CASE \E m \in Desc[e.type].members : Memb(e, m)
  BY <1>1, MembGood
<1>2. CASE \E m \in Desc[Desc[e.type].sub].members : Arow(e, m)
  BY <1>2, ArowGood
<1>3. CASE \E t \in Type \ {Void} : Cast(e, t)
  BY <1>3, CastGood
<1>4. CASE Mult(e) \/ Run(e) \/ Amps(e) \/ Tild(e) \/ Atsi(e)
  BY <1>4, MultGood, RunGood, AmpsGood, TildGood, AtsiGood
<1>5. CASE NotBneg(e) \/ Neg(e) \/ UnaryPlus(e) \/ PreIncr(e) \/ PostIncr(e)
  BY <1>5, NotBnegGood, NegGood, UnaryPlusGood, PreIncrGood, PostIncrGood
<1> QED BY <1>1, <1>2, <1>3, <1>4, <1>5 DEF Unary

\* Every construct with two operands keeps the invariant.
LEMMA BinaryGood ==
  ASSUME NEW l, Good(l), NEW r, Good(r), Uses = {}, Binary(l, r)
  PROVE  Good(expr') /\ SoundStore(store')
<1>1. CASE Index(l, r) \/ Assn(l, r) \/ PlusMins(l, r) \/ AsplAsmi(l, r)
  BY <1>1, IndexGood, AssnGood, PlusMinsGood, AsplAsmiGood
<1>2. CASE Asmu(l, r) \/ Arith(l, r) \/ Equl(l, r) \/ ConjDisj(l, r) \/ Coma(l, r)
  BY <1>2, AsmuGood, ArithGood, EqulGood, ConjDisjGood, ComaGood
<1> QED BY <1>1, <1>2 DEF Binary

\* Every step starts anew or adds one construct.
LEMMA DepthStep ==
  ASSUME depth \in 0..MaxDepth, Next
  PROVE  depth' \in 0..MaxDepth
<1>1. Start => depth' = 0
  BY DEF Start
<1>2. ASSUME NEW e, Unary(e) PROVE Grow
  BY <1>2 DEF Unary, Memb, Arow, Cast, Mult, Run, Amps, Tild, Atsi, NotBneg,
              Neg, UnaryPlus, PreIncr, PostIncr
<1>3. ASSUME NEW l, NEW r, Binary(l, r) PROVE Grow
  BY <1>3 DEF Binary, Index, Assn, PlusMins, AsplAsmi, Asmu, Arith, Equl,
              ConjDisj, Coma
<1>4. /\ \A c, t, f : Ternary(c, t, f) => Grow
      /\ \A f, args : Call(f, args) => Grow
      /\ \A e : CallWith(e) => Grow
  BY DEF Ternary, CallWith, Call
<1>5. /\ \A e : Cond(e) \/ DeclAuto(e) \/ Retn(e) => Grow
      /\ \A e, t : Wait(e, t) => Grow
  BY DEF Cond, DeclAuto, Retn, Wait
<1>6. Start \/ Grow
  BY <1>2, <1>3, <1>4, <1>5 DEF Next
<1> QED BY <1>1, <1>6, LowerAssumption DEF Grow

\* The invariant is inductive.
LEMMA InvStep ==
  ASSUME Uses = {}, Inv, [Next]_vars
  PROVE  Inv'
<1>1. CASE UNCHANGED vars
  <2>1. Good(expr)' /\ SoundStore(store)' /\ (depth \in 0..MaxDepth)'
    BY <1>1 DEF vars, Inv
  <2> QED BY <2>1 DEF Inv
<1>2. CASE Next
  <2>1. Good(expr) /\ SoundStore(store) /\ depth \in 0..MaxDepth
    BY DEF Inv
  <2>2. \A e : e \in Leaf \/ e \in Like(expr) => Good(e)
    BY <2>1, LeafGood DEF Like
  <2>3. \A o \in Leaf : \A p \in Like(o) : Good(p)
    BY LeafGood DEF Like
  <2>4. Good(expr') /\ SoundStore(store')
    <3>1. CASE Start
      BY <3>1, LeafGood, LocFacts
      DEF Start, NoStore, SoundStore, Plain, Step
    <3>2. CASE Unary(expr)
      BY <2>1, <3>2, UnaryGood
    <3>3. CASE \E o \in Leaf : Binary(expr, o) \/ Binary(o, expr)
      BY <2>1, <2>2, <3>3, BinaryGood
    <3>4. CASE \E o \in Leaf : \E p \in Like(o) : Ternary(expr, o, p)
      BY <2>1, <2>2, <2>3, <3>4, TernaryGood
    <3>5. CASE \E o \in Leaf : \E p \in Like(expr) :
                 Ternary(o, expr, p) \/ Ternary(o, p, expr)
      BY <2>1, <2>2, <3>5, TernaryGood
    <3>6. CASE Call(expr, ArgNames(expr)) \/ CallWith(expr)
      BY <2>1, <3>6, CallGood, ArgNamesGood, CallWithGood
    <3>7. CASE Cond(expr) \/ DeclAuto(expr) \/ Retn(expr)
      BY <2>1, <3>7, CondGood, DeclAutoGood, RetnGood
    <3>8. CASE \E o \in Leaf : Wait(expr, o) \/ Wait(o, expr)
      BY <2>1, <2>2, <3>8, WaitGood
    <3> QED BY <1>2, <3>1, <3>2, <3>3, <3>4, <3>5, <3>6, <3>7, <3>8 DEF Next
  <2>5. (depth \in 0..MaxDepth)'
    BY <1>2, <2>1, DepthStep
  <2> QED BY <2>4, <2>5 DEF Inv
<1> QED BY <1>1, <1>2

\* It holds of the first leaf.
LEMMA InvInit == Init => Inv
<1> SUFFICES ASSUME Init PROVE Inv
  OBVIOUS
<1>1. Good(expr)
  BY LeafGood DEF Init
<1>2. SoundStore(store) /\ depth \in 0..MaxDepth
  BY LocFacts, LowerAssumption DEF Init, NoStore, SoundStore, Plain, Step
<1> QED BY <1>1, <1>2 DEF Inv

\* What the invariant says of a state
LEMMA InvImplies ==
  ASSUME Inv
  PROVE  TypeOK /\ OperandsFit /\ AcceptedIsLegal /\ OperandsDenote /\ StoresWhereNamed
<1>1. TypeOK
  <2>1. (expr.rv.opd = "unset") = (expr.type = Void)
    BY DEF Inv, Good, OpdOk, Ready
  <2>2. expr.lval => expr.type # Void /\ expr.lv.opd # "unset"
    BY DEF Inv, Good, OpdOk, Ready
  <2> QED BY <2>1, <2>2 DEF TypeOK, Inv, Good, SoundStore
<1>2. OperandsFit
  BY DEF OperandsFit, Fits, Inv, Good, OpdOk
<1>3. AcceptedIsLegal
  BY DEF AcceptedIsLegal, Inv, Good, OpdOk, Ready
<1>4. OperandsDenote
  BY DEF OperandsDenote, Inv, Good
<1>5. StoresWhereNamed
  BY DEF StoresWhereNamed, Inv, SoundStore
<1> QED BY <1>1, <1>2, <1>3, <1>4, <1>5

\* It holds always.
LEMMA InvAlways == ASSUME Uses = {} PROVE Spec => []Inv
<1>1. Inv /\ [Next]_vars => Inv'
  BY InvStep
<1> QED BY <1>1, InvInit, PTL DEF Spec

-----------------------------------------------------------------------------
(***************************************************************************)
(* The theorems, for programs without the uses of UseNames.                *)
(***************************************************************************)
\* The operands gen_code computes are typed: set for values, unset for void
\* expressions only.
THEOREM TypeCorrect == ASSUME Uses = {} PROVE Spec => []TypeOK
BY InvAlways, InvImplies, PTL

\* Every operand has the sign and the size of its expression's type.
THEOREM FitCorrect == ASSUME Uses = {} PROVE Spec => []OperandsFit
BY InvAlways, InvImplies, PTL

\* Expressions type.c accepts are generated as instructions that pass the
\* LEGAL_IF tests of exec.c.
THEOREM LegalCorrect == ASSUME Uses = {} PROVE Spec => []AcceptedIsLegal
BY InvAlways, InvImplies, PTL

\* The operands designate the value, and the location, of the expression.
THEOREM DenoteCorrect == ASSUME Uses = {} PROVE Spec => []OperandsDenote
BY InvAlways, InvImplies, PTL

\* A store changes the location the program names.
THEOREM StoreCorrect == ASSUME Uses = {} PROVE Spec => []StoresWhereNamed
BY InvAlways, InvImplies, PTL

=============================================================================
