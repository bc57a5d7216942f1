------------------------------ MODULE QvmProofs ------------------------------
(***************************************************************************)
(* Proofs about Qvm, for every set of quaints, variables, labels and       *)
(* timeouts, every bound and every class of programs.                      *)
(***************************************************************************)
EXTENDS Qvm, SequenceTheorems, TLAPS

-----------------------------------------------------------------------------
(***************************************************************************)
(* Facts about the values the model is built from.                         *)
(***************************************************************************)

\* The constants of struct qvm have its type.
LEMMA ZeroedType ==
  /\ Run \in Insn
  /\ NotWaiting \in Waiting
  /\ Zeroed \in Struct
  /\ \A where \in {"entry", "bfun"} : Entered(where) \in Seq(Frame)
<1>1. Run \in Insn /\ NotWaiting \in Waiting
  BY DEF Insn, Waiting
<1>2. Zeroed \in Struct
  BY <1>1 DEF Zeroed, Struct
<1>3. ASSUME NEW where \in {"entry", "bfun"}
      PROVE  Entered(where) \in Seq(Frame)
  <2>1. [at |-> where, noint |-> 0] \in Frame
    BY BoundAssumption DEF Frame
  <2> QED BY <2>1 DEF Entered
<1> QED BY <1>1, <1>2, <1>3

\* Replacing the running activation keeps the type and the depth of a stack.
LEMMA SetTopType ==
  ASSUME NEW s \in Seq(Frame), s # <<>>, NEW f \in Frame
  PROVE  /\ SetTop(s, f) \in Seq(Frame)
         /\ Len(SetTop(s, f)) = Len(s)
         /\ SetTop(s, f)[Len(s)] = f
         /\ \A k \in 1..(Len(s) - 1) : SetTop(s, f)[k] = s[k]
<1>1. Len(s) \in 1..Len(s)
  BY EmptySeq
<1> QED BY <1>1, ExceptSeq DEF SetTop

\* The running activation is a frame.
LEMMA TopType ==
  ASSUME TypeOK, NEW v \in VM, qvm[v].frames # <<>>
  PROVE  Top(v) \in Frame
<1>1. qvm[v].frames \in Seq(Frame)
  BY DEF TypeOK, Struct
<1>2. Len(qvm[v].frames) \in 1..Len(qvm[v].frames)
  BY <1>1, EmptySeq
<1> QED BY <1>1, <1>2, ElementOfSeq DEF Top

\* The running VM is a VM.
LEMMA RunningType ==
  ASSUME TypeOK
  PROVE  Running \in VM /\ Len(chain) \in Nat \ {0}
<1>1. Len(chain) \in 1..Len(chain)
  BY EmptySeq DEF TypeOK
<1> QED BY <1>1, ElementOfSeq DEF TypeOK, Running

\* What the poll after an instruction does to the types.
LEMMA PollType ==
  ASSUME TypeOK, NEW ch \in Seq(VM), ch # <<>>, NEW q \in [VM -> Struct],
         NEW t \in 0..MaxClock, Poll(ch, q, t),
         mem' \in [Var -> Quaint \cup {Null}], alive' \subseteq Quaint
  PROVE  TypeOK'
<1>1. cycles' \in 0..(Period - 1)
  BY BoundAssumption DEF Poll, TypeOK
<1>2. now' \in 0..MaxClock /\ clock' \in 0..MaxClock /\ status' = status
  BY DEF Poll, TypeOK
<1>3. ASSUME NEW u, Walk(ch, q, u)
      PROVE  chain' \in Seq(VM) /\ chain' # <<>> /\ qvm' \in [VM -> Struct]
  <2>1. CASE Splits(ch, q, u) = {}
    BY <2>1, <1>3 DEF Walk
  <2>2. CASE Splits(ch, q, u) # {}
    <3>1. PICK i \in Splits(ch, q, u) :
            chain' = SubSeq(ch, 1, i) /\ qvm' = EndWait(q, ch[i])
      BY <2>2, <1>3 DEF Walk
    <3>2. i \in 1..(Len(ch) - 1) /\ Len(ch) \in Nat
      BY DEF Splits
    <3>3. ch[i] \in VM
      BY <3>2, ElementOfSeq
    <3>4. chain' \in Seq(VM) /\ Len(chain') = i
      BY <3>1, <3>2, SubSeqProperties
    <3>5. qvm' \in [VM -> Struct]
      BY <3>1, <3>3, ZeroedType DEF EndWait, Struct
    <3> QED BY <3>2, <3>4, <3>5, EmptySeq
  <2> QED BY <2>1, <2>2
<1>4. chain' \in Seq(VM) /\ chain' # <<>> /\ qvm' \in [VM -> Struct]
  BY <1>3 DEF Poll
<1> QED BY <1>1, <1>2, <1>4 DEF TypeOK

\* A chain shortened by its running VM, or lengthened by a resumed quaint.
LEMMA ChainType ==
  ASSUME TypeOK
  PROVE  /\ Len(chain) > 1 =>
              /\ SubSeq(chain, 1, Len(chain) - 1) \in Seq(VM)
              /\ SubSeq(chain, 1, Len(chain) - 1) # <<>>
              /\ chain[Len(chain) - 1] \in VM
         /\ \A c \in VM : Append(chain, c) \in Seq(VM) /\ Append(chain, c) # <<>>
<1>1. Len(chain) \in Nat \ {0} /\ \A i \in 1..Len(chain) : chain[i] \in VM
  BY RunningType, ElementOfSeq DEF TypeOK
<1>2. ASSUME Len(chain) > 1
      PROVE  /\ SubSeq(chain, 1, Len(chain) - 1) \in Seq(VM)
             /\ SubSeq(chain, 1, Len(chain) - 1) # <<>>
             /\ chain[Len(chain) - 1] \in VM
  <2> DEFINE s == SubSeq(chain, 1, Len(chain) - 1)
  <2>1. s \in Seq(VM) /\ Len(s) = Len(chain) - 1
    BY <1>1, <1>2, SubSeqProperties
  <2>2. Len(chain) - 1 \in 1..Len(chain)
    BY <1>1, <1>2
  <2> HIDE DEF s
  <2>3. s # <<>>
    BY <1>2, <2>1, <2>2
  <2> QED BY <1>1, <2>1, <2>2, <2>3 DEF s
<1>3. ASSUME NEW c \in VM
      PROVE  Append(chain, c) \in Seq(VM) /\ Append(chain, c) # <<>>
  BY AppendProperties DEF TypeOK
<1> QED BY <1>2, <1>3

\* The waiting flags an instruction sets have their type.
LEMMA FlagsType ==
  ASSUME TypeOK, NEW i \in Waits
  PROVE  Flags(i) \in Waiting /\ (i.mode = "for" => i.arg \in Nat)
<1>1. clock \in Nat
  BY BoundAssumption DEF TypeOK
<1>2. CASE i \in [op : {"WAIT"}, src : Operand, mode : {"plain"}]
  BY <1>2 DEF Flags, Waiting
<1>3. CASE i \in [op : {"WAIT"}, src : Operand, mode : {"for"}, arg : Timeouts]
  <2>1. i.arg \in Nat /\ i.mode = "for"
    BY <1>3, BoundAssumption
  <2>2. Interval(i.arg) \in Nat
    BY <2>1, BoundAssumption DEF Interval
  <2> QED BY <1>1, <2>1, <2>2 DEF Flags, Waiting
<1>4. CASE i \in [op : {"WAIT"}, src : Operand, mode : {"until"}, arg : Label]
  BY <1>4 DEF Flags, Waiting
<1> QED BY <1>2, <1>3, <1>4 DEF Waits, Insn, Run

\* Stopping the interpreter leaves the types alone.
LEMMA StopType ==
  ASSUME TypeOK, NEW why, Stop(why),
         why \in {"exited", "illegal", "nomem", "undefined"}
  PROVE  TypeOK'
BY DEF TypeOK, Stop

\* So does the resumption of a quaint that is in the chain already.
LEMMA KnotType ==
  ASSUME TypeOK, NEW c, NEW q \in [VM -> Struct], NEW t \in 0..MaxClock,
         Knot(c, q, t)
  PROVE  TypeOK'
<1>1. PICK k \in 1..Len(chain) :
        chain[k] = c /\ chain' = Append(SubSeq(chain, k, Len(chain)), c)
  BY DEF Knot
<1>2. c \in VM /\ \A j \in k..Len(chain) : chain[j] \in VM
  <2>1. Len(chain) \in Nat /\ \A j \in 1..Len(chain) : chain[j] \in VM
    BY RunningType, ElementOfSeq DEF TypeOK
  <2> QED BY <1>1, <2>1
<1> DEFINE s == SubSeq(chain, k, Len(chain))
<1>3. s \in Seq(VM) /\ chain' = Append(s, c)
  BY <1>1, <1>2, SubSeqProperties, RunningType
<1> HIDE DEF s
<1>4. chain' \in Seq(VM) /\ chain' # <<>>
  BY <1>2, <1>3, AppendProperties
<1> QED BY <1>4 DEF Knot, TypeOK

\* What handle_return() may do, whether or not there is a value.
AnyReturn(t) ==
  \/ ReturnToCaller(t)
  \/ Stop("exited") \/ Stop("illegal")
  \/ Len(chain) > 1 /\ (ReturnToRte(t) \/ ReturnToWait(t))

\* handle_return() keeps the types.
LEMMA ReturnType ==
  ASSUME TypeOK, NEW t \in 0..MaxClock, AnyReturn(t)
  PROVE  TypeOK'
<1> DEFINE v == Running
           p == chain[Len(chain) - 1]
<1>1. v \in VM /\ qvm[v] \in Struct /\ qvm \in [VM -> Struct]
  BY RunningType DEF TypeOK
<1>2. CASE ReturnToCaller(t)
  <2> DEFINE n == Len(qvm[v].frames)
             f == SubSeq(qvm[v].frames, 1, n - 1)
             q == [qvm EXCEPT ![v].frames = SubSeq(@, 1, n - 1)]
  <2>1. qvm[v].frames \in Seq(Frame)
    BY <1>1 DEF Struct
  <2>2. f \in Seq(Frame)
    BY <2>1, ElementOfSeq, LenProperties, SubSeqProperties
  <2>3. q \in [VM -> Struct]
    BY <1>1, <2>2 DEF Struct
  <2>4. Poll(chain, q, t) /\ UNCHANGED <<mem, alive>>
    BY <1>2 DEF ReturnToCaller
  <2> QED BY <2>3, <2>4, PollType DEF TypeOK
<1>3. CASE Stop("exited") \/ Stop("illegal")
  BY <1>3, StopType
<1>4. CASE Len(chain) > 1 /\ ReturnToRte(t)
  <2> DEFINE q == Advance([qvm EXCEPT ![v] = Zeroed], p)
  <2>1. p \in VM
    BY <1>4, ChainType
  <2>2. q \in [VM -> Struct]
    BY <1>1, <2>1, ZeroedType DEF Advance, Struct
  <2>3. mem' \in [Var -> Quaint \cup {Null}] /\ alive' \subseteq Quaint
    BY <1>4 DEF ReturnToRte, TypeOK
  <2>4. Poll(SubSeq(chain, 1, Len(chain) - 1), q, t)
    BY <1>4 DEF ReturnToRte
  <2> HIDE DEF q
  <2> QED BY <1>4, <2>2, <2>3, <2>4, PollType, ChainType
<1>5. CASE Len(chain) > 1 /\ ReturnToWait(t)
  <2> DEFINE r == [qvm EXCEPT ![v] = [qvm[v] EXCEPT !.at_end = TRUE,
                                                    !.last_passed = NoLabel,
                                                    !.frames = <<>>]]
             q == EndWait(r, p)
  <2>1. p \in VM
    BY <1>5, ChainType
  <2>2. r \in [VM -> Struct]
    <3> DEFINE s == qvm[v]
               z == [s EXCEPT !.at_end = TRUE, !.last_passed = NoLabel,
                              !.frames = <<>>]
    <3>1. s \in Struct /\ <<>> \in Seq(Frame)
      BY <1>1
    <3> HIDE DEF s
    <3>2. z \in Struct
      BY <3>1 DEF Struct
    <3> HIDE DEF z
    <3>3. [qvm EXCEPT ![v] = z] \in [VM -> Struct]
      BY <1>1, <3>2
    <3> QED BY <3>3 DEF s, z
  <2>3. q \in [VM -> Struct]
    BY ZenonT(40), <2>1, <2>2, ZeroedType DEF EndWait, Struct
  <2>4. Poll(SubSeq(chain, 1, Len(chain) - 1), q, t) /\ UNCHANGED <<mem, alive>>
    BY <1>5 DEF ReturnToWait
  <2> HIDE DEF q
  <2> QED BY <1>5, <2>3, <2>4, PollType, ChainType DEF TypeOK
<1> QED BY <1>2, <1>3, <1>4, <1>5 DEF AnyReturn

\* Every instruction keeps the types.
LEMMA TypeStep ==
  ASSUME TypeOK, Step
  PROVE  TypeOK'
<1> DEFINE v == Running
<1>1. v \in VM /\ qvm[v] \in Struct /\ qvm \in [VM -> Struct]
  BY RunningType DEF TypeOK
<1>2. now \in 0..MaxClock /\ clock \in 0..MaxClock /\ chain \in Seq(VM)
      /\ chain # <<>>
  BY DEF TypeOK
<1>3. ASSUME NEW q \in [VM -> Struct], Poll(chain, q, now),
             UNCHANGED <<mem, alive>>
      PROVE  TypeOK'
  BY <1>2, <1>3, PollType DEF TypeOK
<1>4. CASE Compute
  BY <1>1, <1>3, <1>4 DEF Compute
<1>5. CASE Incsp
  <2> DEFINE f == SetTop(qvm[v].frames, [Top(v) EXCEPT !.at = "body"])
             q == [qvm EXCEPT ![v] =
                     [qvm[v] EXCEPT !.at_start = FALSE, !.frames = f]]
  <2>1. CASE Poll(chain, q, now) /\ UNCHANGED <<mem, alive>>
    <3>1. [Top(v) EXCEPT !.at = "body"] \in Frame
      BY <1>1, <1>5, TopType DEF Incsp, Frame
    <3>2. f \in Seq(Frame)
      BY <1>1, <1>5, <3>1, SetTopType DEF Incsp, Struct
    <3>3. q \in [VM -> Struct]
      BY <1>1, <3>2 DEF Struct
    <3> QED BY <1>3, <2>1, <3>3
  <2>2. CASE Stop("nomem")
    BY <2>2, StopType
  <2> QED BY <1>5, <2>1, <2>2 DEF Incsp
<1>6. ASSUME NEW l \in Label, Wlab(l)
      PROVE  TypeOK'
  <2>1. [qvm EXCEPT ![v].last_passed = l] \in [VM -> Struct]
    BY <1>1 DEF Struct
  <2> QED BY <1>3, <1>6, <2>1 DEF Wlab
<1>7. CASE NointInsn
  <2> DEFINE f == SetTop(qvm[v].frames, [Top(v) EXCEPT !.noint = @ + 1])
             q == [qvm EXCEPT ![v] =
                     [qvm[v] EXCEPT !.noint = TRUE, !.frames = f]]
  <2>1. [Top(v) EXCEPT !.noint = @ + 1] \in Frame
    BY <1>1, <1>7, TopType, BoundAssumption DEF NointInsn, Free, Frame
  <2>2. f \in Seq(Frame)
    BY <1>1, <1>7, <2>1, SetTopType DEF NointInsn, Free, Struct
  <2>3. q \in [VM -> Struct]
    BY <1>1, <2>2 DEF Struct
  <2> QED BY <1>3, <1>7, <2>3 DEF NointInsn
<1>8. CASE IntInsn
  <2> DEFINE f == SetTop(qvm[v].frames, [Top(v) EXCEPT !.noint = @ - 1])
             q == [qvm EXCEPT ![v] =
                     [qvm[v] EXCEPT !.noint = FALSE, !.frames = f]]
  <2>1. [Top(v) EXCEPT !.noint = @ - 1] \in Frame
    BY <1>1, <1>8, TopType, BoundAssumption DEF IntInsn, Free, Frame
  <2>2. f \in Seq(Frame)
    BY <1>1, <1>8, <2>1, SetTopType DEF IntInsn, Free, Struct
  <2>3. q \in [VM -> Struct]
    BY <1>1, <2>2 DEF Struct
  <2> QED BY <1>3, <1>8, <2>3 DEF IntInsn
<1>9. ASSUME NEW where \in {"entry", "bfun"}, Call(where)
      PROVE  TypeOK'
  <2>1. qvm[v].frames \o Entered(where) \in Seq(Frame)
    BY <1>1, ZeroedType, ConcatProperties DEF Struct
  <2>2. [qvm EXCEPT ![v].frames = @ \o Entered(where)] \in [VM -> Struct]
    BY <1>1, <2>1 DEF Struct
  <2> QED BY <1>3, <1>9, <2>2 DEF Call
<1>10. ASSUME NEW b \in BOOLEAN, Ret(b)
       PROVE  TypeOK'
  BY <1>2, <1>10, ReturnType DEF Ret, HandleReturn, AnyReturn
<1>11. CASE Bfun
  <2>1. ASSUME NEW t \in {now, clock}, HandleReturn(v \in Valued, t)
        PROVE  TypeOK'
    <3>1. AnyReturn(t)
      BY <2>1 DEF HandleReturn, AnyReturn
    <3> QED BY <1>2, <3>1, ReturnType
  <2>2. CASE Stop("exited") \/ Stop("nomem")
    BY <2>2, StopType
  <2> QED BY <1>11, <2>1, <2>2 DEF Bfun
<1>12. ASSUME NEW x \in Var, NEW q \in Quaint, NEW z \in Struct, Created(x, q, z)
       PROVE  TypeOK'
  <2> DEFINE i == [op |-> "MOV", dst |-> x, src |-> q]
             r == [qvm EXCEPT ![v].insn = i]
  <2>1. i \in Insn
    BY DEF Insn
  <2>2. r \in [VM -> Struct]
    BY <1>1, <2>1 DEF Struct
  <2>3. q \in VM /\ [qvm EXCEPT ![v].insn = i, ![q] = z] = [r EXCEPT ![q] = z]
    BY <1>1 DEF VM
  <2>4. /\ Poll(chain, [qvm EXCEPT ![v].insn = i, ![q] = z], now)
        /\ alive' = alive \cup {q} /\ mem' = mem
    BY <1>12 DEF Created
  <2> HIDE DEF r
  <2>5. [r EXCEPT ![q] = z] \in [VM -> Struct]
    BY <2>2, <2>3
  <2>6. mem' \in [Var -> Quaint \cup {Null}] /\ alive' \subseteq Quaint
    BY <2>4 DEF TypeOK
  <2> QED BY <1>2, <2>3, <2>4, <2>5, <2>6, PollType
<1>13. ASSUME NEW x \in Var, NEW where \in {"entry", "bfun"}, Qnt(x, where)
       PROVE  TypeOK'
  <2>1. [Zeroed EXCEPT !.at_start = TRUE, !.frames = Entered(where)] \in Struct
    BY ZeroedType DEF Struct
  <2> QED BY <1>12, <1>13, <2>1, StopType DEF Qnt
<1>14. ASSUME NEW x \in Var, Qntv(x)
       PROVE  TypeOK'
  <2>1. [Zeroed EXCEPT !.at_start = TRUE, !.at_end = TRUE] \in Struct
    BY ZeroedType DEF Struct
  <2> QED BY <1>12, <1>14, <2>1, StopType, VmAssumption DEF Qntv
<1>15. ASSUME NEW x \in Var, Drop(x)
       PROVE  TypeOK'
  <2>1. mem' \in [Var -> Quaint \cup {Null}] /\ alive' \subseteq Quaint
    BY <1>15 DEF Drop, TypeOK
  <2> QED BY <1>1, <1>2, <1>15, <2>1, PollType DEF Drop
<1>16. ASSUME NEW c, NEW q \in [VM -> Struct], NEW t \in 0..MaxClock,
              Resume(c, q, t)
       PROVE  TypeOK'
  <2>1. CASE c \in alive /\ Poll(Append(chain, c), q, t)
             /\ UNCHANGED <<mem, alive>>
    <3>1. c \in VM
      BY <2>1 DEF TypeOK, VM
    <3> QED BY <1>16, <2>1, <3>1, ChainType, PollType DEF TypeOK
  <2>2. CASE Knot(c, q, t)
    BY <1>16, <2>2, KnotType
  <2> QED BY <1>16, <2>1, <2>2 DEF Resume
<1>17. Advance(qvm, v) \in [VM -> Struct]
  BY <1>1, ZeroedType DEF Advance, Struct
<1>18. ASSUME NEW i \in Rtes, Rte(i)
       PROVE  TypeOK'
  <2> DEFINE c == Value(i.src)
  <2>1. CASE Poll(chain, Advance(qvm, v), now) /\ UNCHANGED <<mem, alive>>
    BY <1>3, <1>17, <2>1
  <2>2. CASE /\ alive' = alive \ {c}
             /\ mem' = IF i.src \in Var THEN [mem EXCEPT ![i.src] = Null] ELSE mem
             /\ Poll(chain, Advance([qvm EXCEPT ![c] = Zeroed], v), now)
    <3>1. Advance([qvm EXCEPT ![c] = Zeroed], v) \in [VM -> Struct]
      BY <1>1, ZeroedType DEF Advance, Struct
    <3>2. mem' \in [Var -> Quaint \cup {Null}] /\ alive' \subseteq Quaint
      BY <2>2 DEF TypeOK
    <3> QED BY <1>2, <2>2, <3>1, <3>2, PollType
  <2>3. CASE Resume(c, [qvm EXCEPT ![v].insn = i], now)
    <3>1. i \in Insn
      BY DEF Rtes, Insn
    <3>2. [qvm EXCEPT ![v].insn = i] \in [VM -> Struct]
      BY <1>1, <3>1 DEF Struct
    <3> QED BY <1>2, <1>16, <2>3, <3>2
  <2>4. CASE Stop("undefined")
    BY <2>4, StopType
  <2> QED BY <1>18, <2>1, <2>2, <2>3, <2>4 DEF Rte
<1>19. ASSUME NEW i \in Waits, Wait(i)
       PROVE  TypeOK'
  <2> DEFINE c == Value(i.src)
             q == [qvm EXCEPT ![v] = [qvm[v] EXCEPT !.insn = i, !.wait = Flags(i)]]
  <2>1. CASE Poll(chain, Advance(qvm, v), now) /\ UNCHANGED <<mem, alive>>
    BY <1>3, <1>17, <2>1
  <2>2. CASE Resume(c, q, IF i.mode = "for" THEN clock ELSE now)
    <3>1. q \in [VM -> Struct]
      BY <1>1, FlagsType DEF Waits, Struct
    <3> HIDE DEF q
    <3> QED BY <1>2, <1>16, <2>2, <3>1
  <2>3. CASE Stop("undefined") \/ Stop("nomem")
    BY <2>3, StopType
  <2> QED BY <1>19, <2>1, <2>2, <2>3 DEF Wait
<1>20. CASE Mov
  <2> DEFINE s == qvm[v]
  <2>1. s.insn.op = "MOV" /\ s.insn \in Insn
    BY <1>1, <1>20 DEF Mov, Struct
  <2>2. s.insn.dst \in Var /\ s.insn.src \in Quaint
    BY <2>1 DEF Insn, Run
  <2>3. /\ mem' = [mem EXCEPT ![s.insn.dst] = s.insn.src] /\ alive' = alive
        /\ Poll(chain, Advance(qvm, v), now)
    BY <1>20 DEF Mov
  <2> HIDE DEF s
  <2>4. mem' \in [Var -> Quaint \cup {Null}] /\ alive' \subseteq Quaint
    BY <2>2, <2>3 DEF TypeOK
  <2> QED BY <1>2, <1>17, <2>3, <2>4, PollType
<1>21. ASSUME NEW x \in Var, NEW y \in Var, Copy(x, y)
       PROVE  TypeOK'
  <2>1. mem' \in [Var -> Quaint \cup {Null}] /\ alive' \subseteq Quaint
    BY <1>21 DEF Copy, TypeOK
  <2> QED BY <1>1, <1>2, <1>21, <2>1, PollType DEF Copy
<1> QED
  BY <1>4, <1>5, <1>6, <1>7, <1>8, <1>9, <1>10, <1>11, <1>13, <1>14, <1>15,
     <1>18, <1>19, <1>20, <1>21
  DEF Step

\* The type of the initial state.
LEMMA InitType == Init => TypeOK
<1> SUFFICES ASSUME Init PROVE TypeOK
  OBVIOUS
<1>1. qvm \in [VM -> Struct]
  BY ZeroedType DEF Init, Struct
<1>2. chain \in Seq(VM) /\ chain # <<>>
  BY DEF Init, VM
<1> QED BY <1>1, <1>2, BoundAssumption DEF Init, TypeOK

\* Type correctness: for every program and every set of quaints, labels and
\* timeouts the interpreter stays within the types and bounds of TypeOK.
THEOREM TypeCorrect == Spec => []TypeOK
<1>1. Init => TypeOK
  BY InitType
<1>2. TypeOK /\ [Next]_vars => TypeOK'
  <2> SUFFICES ASSUME TypeOK, [Next]_vars PROVE TypeOK'
    OBVIOUS
  <2>1. CASE Exec
    BY <2>1, TypeStep DEF Exec
  <2>2. CASE Tick
    BY <2>2, BoundAssumption DEF Tick, TypeOK
  <2>3. CASE UNCHANGED vars
    BY <2>3 DEF vars, TypeOK
  <2> QED BY <2>1, <2>2, <2>3 DEF Next, Ended
<1> QED BY <1>1, <1>2, PTL DEF Spec

-----------------------------------------------------------------------------
(***************************************************************************)
(* The safety invariants.  Safe(ch, q, a, t) is the inductive invariant as *)
(* a predicate of the chain, the VMs, the allocated quaints and now, so    *)
(* that it can be stated between the handler of an instruction and the     *)
(* poll.  Its last part needs the class of programs that neither nest      *)
(* noint blocks nor return out of one: then the single flag of a VM says   *)
(* whether one of its activations is in a noint block.                     *)
(***************************************************************************)
Disciplined == "nest" \notin Features /\ "retnoint" \notin Features

\* At most one activation is in a noint block, one level deep, and the flag
\* of an unfinished VM tells whether there is one.
BlockInv(s) ==
  /\ ~ s.at_end => (s.noint = TRUE <=> InNoint(s))
  /\ \A k, l \in 1..Len(s.frames) :
       s.frames[k].noint > 0 /\ s.frames[l].noint > 0 => k = l
  /\ \A k \in 1..Len(s.frames) :
       /\ s.frames[k].noint <= 1
       /\ s.frames[k].at # "body" => s.frames[k].noint = 0

Blocks(q) == \A v \in VM : BlockInv(q[v])

Safe(ch, q, a, t) ==
  /\ Linked(ch, q, a)
  /\ t <= clock /\ Timed(q, t)
  /\ Disciplined => Held(ch, q, a) /\ Blocks(q)

Inv == Safe(chain, qvm, alive, now)

\* What lasts of it even when the parents go round
Lasting ==
  /\ Usable(chain, qvm, alive)
  /\ now <= clock /\ Timed(qvm, now)
  /\ Disciplined => Blocks(qvm)

\* A prefix of a chain.
LEMMA Prefix ==
  ASSUME NEW ch \in Seq(VM), NEW i \in 1..Len(ch)
  PROVE  /\ SubSeq(ch, 1, i) \in Seq(VM)
         /\ Len(SubSeq(ch, 1, i)) = i
         /\ \A k \in 1..i : SubSeq(ch, 1, i)[k] = ch[k]
<1>1. Len(ch) \in Nat /\ i \in Int /\ \A k \in 1..i : ch[k] \in VM
  BY ElementOfSeq
<1> QED BY <1>1, SubSeqProperties

\* The walk of the poll preserves the invariant: a quaint it drops from the
\* chain has its flag clear, and so is not in a noint block.
LEMMA WalkSafe ==
  ASSUME NEW ch \in Seq(VM), ch # <<>>, NEW q \in [VM -> Struct],
         NEW a, a \subseteq Quaint, NEW t, Safe(ch, q, a, t),
         NEW u, Walk(ch, q, u)
  PROVE  Safe(chain', qvm', a, t)
<1>1. CASE Splits(ch, q, u) = {}
  BY <1>1 DEF Walk
<1>2. CASE Splits(ch, q, u) # {}
  <2>1. PICK i \in Splits(ch, q, u) :
          chain' = SubSeq(ch, 1, i) /\ qvm' = EndWait(q, ch[i])
    BY <1>2 DEF Walk
  <2>2. /\ i \in 1..(Len(ch) - 1) /\ Len(ch) \in Nat
        /\ \A j \in (i + 1)..Len(ch) : ~ q[ch[j]].noint
    BY DEF Splits
  <2>3. /\ Len(chain') = i
        /\ \A k \in 1..i : chain'[k] = ch[k]
    BY <2>1, <2>2, Prefix
  <2>4. \A k \in 1..Len(ch) : ch[k] \in VM
    BY ElementOfSeq
  <2>5. ASSUME NEW v \in VM
        PROVE  /\ qvm'[v].at_end = q[v].at_end
               /\ qvm'[v].noint = q[v].noint
               /\ qvm'[v].frames = q[v].frames
               /\ v # ch[i] => qvm'[v] = q[v]
               /\ v = ch[i] => qvm'[v].wait = NotWaiting
    BY <2>1, <2>2, <2>4 DEF EndWait, Struct
  <2>6. Linked(chain', qvm', a)
    BY SMTT(30), <2>2, <2>3, <2>4, <2>5 DEF Safe, Linked
  <2>7. Timed(qvm', t)
    BY <2>5 DEF Safe, Timed, NotWaiting
  <2>8. ASSUME Disciplined
        PROVE  Held(chain', qvm', a) /\ Blocks(qvm')
    <3>1. ASSUME NEW v \in VM
          PROVE  BlockInv(qvm'[v])
      <4>1. BlockInv(q[v])
        BY <2>8 DEF Safe, Blocks
      <4>2. /\ qvm'[v].at_end = q[v].at_end
            /\ qvm'[v].noint = q[v].noint
            /\ qvm'[v].frames = q[v].frames
        BY <2>5
      <4> QED BY <4>1, <4>2 DEF BlockInv, InNoint
    <3>2. ASSUME NEW c \in a, \A k \in 1..Len(chain') : chain'[k] # c,
                 ~ qvm'[c].at_end
          PROVE  ~ InNoint(qvm'[c])
      <4>0. c \in VM
        BY DEF VM
      <4>1. CASE \A k \in 1..Len(ch) : ch[k] # c
        BY <4>0, <2>5, <2>8, <3>2, <4>1 DEF Safe, Held, InNoint
      <4>2. CASE \E k \in 1..Len(ch) : ch[k] = c
        <5>1. PICK k \in 1..Len(ch) : ch[k] = c
          BY <4>2
        <5>2. k \in (i + 1)..Len(ch)
          <6>1. k \notin 1..i
            BY <2>3, <3>2, <5>1
          <6> QED BY <2>2, <5>1, <6>1
        <5>3. ~ q[c].noint /\ ~ q[c].at_end
          BY <2>2, <2>5, <3>2, <4>0, <5>1, <5>2
        <5> QED BY <4>0, <2>5, <2>8, <3>2, <5>3 DEF Safe, Blocks, BlockInv, InNoint
      <4> QED BY <4>1, <4>2
    <3> QED BY <3>1, <3>2 DEF Held, Blocks
  <2> QED BY <2>6, <2>7, <2>8 DEF Safe
<1> QED BY <1>1, <1>2

\* A later reading of the clock keeps the timers sane.
LEMMA TimedLater ==
  ASSUME NEW q \in [VM -> Struct], NEW t \in Nat, NEW u \in Nat, t <= u,
         Timed(q, t)
  PROVE  Timed(q, u)
<1> SUFFICES ASSUME NEW v \in VM, q[v].wait.mode = "for"
             PROVE  q[v].wait.start <= u
  BY DEF Timed
<1>1. q[v].wait \in Waiting
  BY DEF Struct
<1>2. q[v].wait.start \in Nat
  BY <1>1 DEF Waiting, NotWaiting
<1> QED BY <1>2 DEF Timed

\* The poll preserves the invariant, whatever it finds.
LEMMA PollSafe ==
  ASSUME TypeOK, NEW ch \in Seq(VM), ch # <<>>, NEW q \in [VM -> Struct],
         alive' \subseteq Quaint, NEW t \in 0..MaxClock,
         Safe(ch, q, alive', t), Poll(ch, q, t)
  PROVE  Inv'
<1>1. clock' = clock /\ clock \in Nat /\ t <= clock /\ t \in Nat
  BY BoundAssumption DEF Poll, Safe, TypeOK
<1>2. Safe(ch, q, alive', clock)
  BY <1>1, TimedLater DEF Safe
<1>3. CASE cycles # 0 /\ now' = t /\ Walk(ch, q, t)
  BY <1>1, <1>3, WalkSafe DEF Inv, Safe
<1>4. CASE cycles = 0 /\ now' = clock /\ Walk(ch, q, clock)
  BY <1>1, <1>2, <1>4, WalkSafe DEF Inv, Safe
<1>5. CASE now' = t /\ chain' = ch /\ qvm' = q
  BY <1>1, <1>5 DEF Inv, Safe
<1> QED BY <1>3, <1>4, <1>5 DEF Poll

\* An instruction that only changes the running VM, and neither ends it nor
\* touches its waiting flags.
LEMMA LocalSafe ==
  ASSUME TypeOK, Inv, NEW z \in Struct, NEW t \in {now, clock},
         z.at_end = qvm[Running].at_end,
         z.wait = qvm[Running].wait \/ z.wait = NotWaiting,
         Disciplined => BlockInv(z)
  PROVE  Safe(chain, [qvm EXCEPT ![Running] = z], alive, t)
<1> DEFINE v == Running
           q == [qvm EXCEPT ![v] = z]
<1>1. v \in VM /\ Len(chain) \in Nat \ {0} /\ v = chain[Len(chain)]
      /\ qvm \in [VM -> Struct]
      /\ \A k \in 1..Len(chain) : chain[k] \in VM
  BY RunningType, ElementOfSeq DEF TypeOK, Running
<1> HIDE DEF v
<1>2. \A w \in VM : q[w] = IF w = v THEN z ELSE qvm[w]
  BY <1>1
<1>3. now <= t /\ t <= clock /\ now \in Nat /\ clock \in Nat
  BY BoundAssumption DEF Inv, Safe, TypeOK
<1> HIDE DEF q
<1>4. Linked(chain, q, alive)
  BY <1>1, <1>2 DEF Inv, Safe, Linked, v
<1>5. Timed(q, t)
  <2> SUFFICES ASSUME NEW w \in VM, q[w].wait.mode = "for"
               PROVE  q[w].wait.start <= t
    BY DEF Timed
  <2>1. q[w].wait = qvm[w].wait
    BY <1>2 DEF NotWaiting, v
  <2> QED BY <1>1, <1>3, <2>1, TimedLater DEF Inv, Safe, Timed
<1>6. ASSUME Disciplined
      PROVE  Held(chain, q, alive) /\ Blocks(q)
  <2>1. Blocks(q)
    BY <1>2, <1>6 DEF Inv, Safe, Blocks
  <2>2. \A c \in alive : c \in VM
    BY DEF TypeOK, VM
  <2>3. Held(chain, q, alive)
    BY <1>1, <1>2, <1>6, <2>2 DEF Inv, Safe, Held
  <2> QED BY <2>1, <2>3
<1>7. Safe(chain, q, alive, t)
  BY <1>3, <1>4, <1>5, <1>6 DEF Safe
<1> QED BY <1>7 DEF q, v

\* The ip of the running VM has no part in the invariant.
LEMMA InsnSafe ==
  ASSUME TypeOK, NEW q \in [VM -> Struct], NEW a, a \subseteq Quaint, NEW t,
         Safe(chain, q, a, t), NEW i \in Insn
  PROVE  /\ [q EXCEPT ![Running].insn = i] \in [VM -> Struct]
         /\ Safe(chain, [q EXCEPT ![Running].insn = i], a, t)
<1> DEFINE v == Running
           r == [q EXCEPT ![v].insn = i]
<1>1. v \in VM /\ Len(chain) \in Nat \ {0} /\ v = chain[Len(chain)]
      /\ \A k \in 1..Len(chain) : chain[k] \in VM
      /\ \A d \in a : d \in VM
  BY RunningType, ElementOfSeq DEF TypeOK, VM, Running
<1> HIDE DEF v
<1>2. r \in [VM -> Struct]
  <2> DEFINE s == q[v]
             y == [s EXCEPT !.insn = i]
  <2>1. s \in Struct
    BY <1>1
  <2> HIDE DEF s
  <2>2. y \in Struct
    BY <2>1 DEF Struct
  <2> HIDE DEF y
  <2>3. [q EXCEPT ![v] = y] \in [VM -> Struct]
    BY <1>1, <2>2
  <2> QED BY <2>3 DEF s, y
<1>3. \A w \in VM : /\ r[w].at_end = q[w].at_end /\ r[w].wait = q[w].wait
                    /\ r[w].frames = q[w].frames /\ r[w].noint = q[w].noint
                    /\ w # v => r[w] = q[w]
  BY <1>1 DEF Struct
<1> HIDE DEF r
<1>4. Linked(chain, r, a)
  <2>1. \A k \in 1..(Len(chain) - 1) : chain[k] # v
    BY <1>1 DEF Safe, Linked
  <2> QED BY <1>1, <1>3, <2>1 DEF Safe, Linked
<1>5. Timed(r, t) /\ t <= clock
  BY <1>3 DEF Safe, Timed
<1>6. ASSUME Disciplined
      PROVE  Held(chain, r, a) /\ Blocks(r)
  <2>1. ASSUME NEW w \in VM PROVE BlockInv(r[w])
    <3>1. BlockInv(q[w])
      BY <1>6 DEF Safe, Blocks
    <3> QED BY <1>3, <3>1 DEF BlockInv, InNoint
  <2>2. Held(chain, r, a)
    BY <1>1, <1>3, <1>6 DEF Safe, Held, InNoint
  <2> QED BY <2>1, <2>2 DEF Blocks
<1> QED BY <1>2, <1>4, <1>5, <1>6 DEF Safe, r, v

\* The struct of an unfinished quaint whose function has just been entered,
\* a pure value, and a struct of zeroes are in no noint block.
LEMMA FreshBlocks ==
  /\ BlockInv(Zeroed) /\ ~ InNoint(Zeroed)
  /\ \A s \in {"entry", "bfun"} :
       LET z == [Zeroed EXCEPT !.at_start = TRUE, !.frames = Entered(s)]
       IN  BlockInv(z) /\ ~ InNoint(z)
  /\ LET z == [Zeroed EXCEPT !.at_start = TRUE, !.at_end = TRUE]
     IN  BlockInv(z) /\ ~ InNoint(z)
<1>1. Len(<<>>) = 0
  OBVIOUS
<1>2. ASSUME NEW s \in {"entry", "bfun"}
      PROVE  /\ Len(Entered(s)) = 1
             /\ Entered(s)[1].noint = 0
  BY DEF Entered
<1>3. Zeroed.frames = <<>> /\ Zeroed.noint = FALSE /\ Zeroed.at_end = FALSE
  BY DEF Zeroed
<1>4. BlockInv(Zeroed) /\ ~ InNoint(Zeroed)
  BY <1>1, <1>3 DEF BlockInv, InNoint
<1>5. ASSUME NEW s \in {"entry", "bfun"},
             NEW z, z = [Zeroed EXCEPT !.at_start = TRUE, !.frames = Entered(s)]
      PROVE  BlockInv(z) /\ ~ InNoint(z)
  <2>1. z.frames = Entered(s) /\ z.noint = FALSE /\ z.at_end = FALSE
    BY <1>5 DEF Zeroed
  <2> QED BY <1>2, <2>1 DEF BlockInv, InNoint
<1>6. ASSUME NEW z, z = [Zeroed EXCEPT !.at_start = TRUE, !.at_end = TRUE]
      PROVE  BlockInv(z) /\ ~ InNoint(z)
  <2>1. z.frames = <<>> /\ z.noint = FALSE /\ z.at_end = TRUE
    BY <1>6 DEF Zeroed
  <2> QED BY <1>1, <2>1 DEF BlockInv, InNoint
<1> QED BY <1>4, <1>5, <1>6

\* The VMs of the chain are not among the free addresses.
LEMMA ChainAlive ==
  ASSUME TypeOK, Inv, NEW k \in 1..Len(chain)
  PROVE  chain[k] \in VM /\ chain[k] \notin Quaint \ alive
<1>1. Len(chain) \in Nat
  BY RunningType
<1>2. CASE k = 1
  BY <1>2, VmAssumption DEF Inv, Safe, Linked, VM
<1>3. CASE k \in 2..Len(chain)
  BY <1>3 DEF Inv, Safe, Linked, TypeOK, VM
<1> QED BY <1>1, <1>2, <1>3

\* Creating a quaint at a free address.
LEMMA CreateSafe ==
  ASSUME TypeOK, Inv, NEW c \in Quaint \ alive, NEW z \in Struct,
         z.wait = NotWaiting, BlockInv(z), ~ InNoint(z)
  PROVE  Safe(chain, [qvm EXCEPT ![c] = z], alive \cup {c}, now)
<1> DEFINE q == [qvm EXCEPT ![c] = z]
<1>1. c \in VM /\ qvm \in [VM -> Struct] /\ Len(chain) \in Nat \ {0}
      /\ \A k \in 1..Len(chain) : chain[k] \in VM
      /\ \A d \in alive : d \in VM
  BY RunningType, ElementOfSeq DEF TypeOK, VM
<1>2. \A w \in VM : q[w] = IF w = c THEN z ELSE qvm[w]
  BY <1>1
<1> HIDE DEF q
<1>3. \A k \in 1..Len(chain) : chain[k] # c
  BY <1>1, VmAssumption DEF Inv, Safe, Linked
<1>4. Linked(chain, q, alive \cup {c})
  BY <1>1, <1>2, <1>3 DEF Inv, Safe, Linked
<1>5. Timed(q, now)
  BY <1>2 DEF Inv, Safe, Timed, NotWaiting
<1>6. ASSUME Disciplined
      PROVE  Held(chain, q, alive \cup {c}) /\ Blocks(q)
  BY <1>1, <1>2, <1>3, <1>6 DEF Inv, Safe, Held, Blocks
<1>7. Safe(chain, q, alive \cup {c}, now)
  BY <1>4, <1>5, <1>6 DEF Inv, Safe
<1> QED BY <1>7 DEF q

\* Freeing a quaint that is not in the chain.
LEMMA FreeSafe ==
  ASSUME TypeOK, Inv, NEW c \in alive,
         \A k \in 1..Len(chain) : chain[k] # c
  PROVE  Safe(chain, [qvm EXCEPT ![c] = Zeroed], alive \ {c}, now)
<1> DEFINE q == [qvm EXCEPT ![c] = Zeroed]
<1>1. c \in VM /\ qvm \in [VM -> Struct] /\ Len(chain) \in Nat \ {0}
      /\ \A k \in 1..Len(chain) : chain[k] \in VM
      /\ \A d \in alive : d \in VM
  BY RunningType, ElementOfSeq DEF TypeOK, VM
<1>2. \A w \in VM : q[w] = IF w = c THEN Zeroed ELSE qvm[w]
  BY <1>1
<1> HIDE DEF q
<1>4. Linked(chain, q, alive \ {c})
  BY <1>1, <1>2 DEF Inv, Safe, Linked
<1>5. Timed(q, now)
  BY <1>2 DEF Inv, Safe, Timed, Zeroed, NotWaiting
<1>6. ASSUME Disciplined
      PROVE  Held(chain, q, alive \ {c}) /\ Blocks(q)
  BY SMTT(30), <1>1, <1>2, <1>6, FreshBlocks DEF Inv, Safe, Held, Blocks
<1>7. Safe(chain, q, alive \ {c}, now)
  BY <1>4, <1>5, <1>6 DEF Inv, Safe
<1> QED BY <1>7 DEF q

\* What the blocks depend on.
LEMMA SameBlocks ==
  ASSUME NEW s, BlockInv(s), NEW z,
         z.at_end = s.at_end, z.frames = s.frames, z.noint = s.noint
  PROVE  BlockInv(z)
BY Zenon DEF BlockInv, InNoint

\* The running VM ends and its resumer p gets control back: the ended VM is
\* freed or marked, and p's waiting flags are kept or cleared.
LEMMA PopSafe ==
  ASSUME TypeOK, Inv, Len(chain) > 1, NEW q \in [VM -> Struct],
         NEW a, a = alive \/ a = alive \ {Running}, NEW t \in {now, clock},
         NEW p, p = chain[Len(chain) - 1],
         \A w \in VM \ {Running, p} : q[w] = qvm[w],
         q[p].at_end = qvm[p].at_end, q[p].frames = qvm[p].frames,
         q[p].noint = qvm[p].noint,
         q[p].wait = qvm[p].wait \/ q[p].wait = NotWaiting,
         q[Running].wait = qvm[Running].wait \/ q[Running].wait = NotWaiting,
         Disciplined => BlockInv(q[Running]),
         Running \in a => q[Running].at_end
  PROVE  Safe(SubSeq(chain, 1, Len(chain) - 1), q, a, t)
<1> DEFINE v == Running
           n == Len(chain)
           ch == SubSeq(chain, 1, n - 1)
<1>1. v \in VM /\ n \in Nat \ {0} /\ v = chain[n] /\ qvm \in [VM -> Struct]
      /\ \A k \in 1..n : chain[k] \in VM
  BY RunningType, ElementOfSeq DEF TypeOK, Running
<1>2. n - 1 \in 1..n /\ p \in VM
  BY <1>1
<1>3. Len(ch) = n - 1 /\ \A k \in 1..(n - 1) : ch[k] = chain[k]
  BY <1>2, Prefix DEF TypeOK
<1>4. p # v
  BY <1>1, <1>2 DEF Inv, Safe, Linked
<1>5. now <= t /\ t <= clock /\ now \in Nat /\ clock \in Nat
  BY BoundAssumption DEF Inv, Safe, TypeOK
<1> HIDE DEF v, n, ch
<1>6. Linked(ch, q, a)
  <2>1. \A k \in 1..(n - 1) : ch[k] = chain[k] /\ ch[k] \in VM /\ ch[k] # v
    BY <1>1, <1>3 DEF Inv, Safe, Linked, n
  <2>2. ch[1] = Root /\ \A i, j \in 1..Len(ch) : ch[i] = ch[j] => i = j
    BY <1>1, <1>2, <1>3 DEF Inv, Safe, Linked, n
  <2>3. ASSUME NEW k \in 2..Len(ch)
        PROVE  ch[k] \in a /\ ~ q[ch[k]].at_end
    <3>1. k \in 2..n /\ k \in 1..(n - 1)
      BY <1>1, <1>3
    <3>2. chain[k] \in alive /\ ~ qvm[chain[k]].at_end
      BY <3>1 DEF Inv, Safe, Linked, n
    <3> QED BY <2>1, <3>1, <3>2 DEF v
  <2>4. ASSUME NEW k \in 1..(Len(ch) - 1)
        PROVE  Suspended(q[ch[k]])
    <3>1. k \in 1..(n - 1) /\ k # n - 1 /\ k \in 1..n
      BY <1>1, <1>3
    <3>2. Suspended(qvm[chain[k]])
      BY <3>1 DEF Inv, Safe, Linked, n
    <3>3. chain[k] # p
      BY <1>2, <3>1 DEF Inv, Safe, Linked, n
    <3> QED BY <2>1, <3>1, <3>2, <3>3 DEF v
  <2> QED BY <2>2, <2>3, <2>4 DEF Linked
<1>7. Timed(q, t)
  <2> SUFFICES ASSUME NEW w \in VM, q[w].wait.mode = "for"
               PROVE  q[w].wait.start <= t
    BY DEF Timed
  <2>1. q[w].wait = qvm[w].wait
    BY <1>1, <1>2 DEF NotWaiting, v
  <2> QED BY <1>1, <1>5, <2>1, TimedLater DEF Inv, Safe, Timed
<1>8. ASSUME Disciplined
      PROVE  Held(ch, q, a) /\ Blocks(q)
  <2>1. Blocks(q)
    <3> SUFFICES ASSUME NEW w \in VM PROVE BlockInv(q[w])
      BY DEF Blocks
    <3>1. BlockInv(qvm[w])
      BY <1>8 DEF Inv, Safe, Blocks
    <3>2. CASE w = v
      BY <1>8, <3>2 DEF v
    <3>3. CASE w = p
      BY <3>1, <3>3, SameBlocks
    <3>4. CASE w # v /\ w # p
      BY <3>1, <3>4 DEF v
    <3> QED BY <3>2, <3>3, <3>4
  <2>2. ASSUME NEW c \in a, \A k \in 1..Len(ch) : ch[k] # c, ~ q[c].at_end
        PROVE  ~ InNoint(q[c])
    <3>1. c # v /\ c \in alive /\ c \in VM
      BY <2>2 DEF v, TypeOK, VM
    <3>2. c # p
      BY <1>1, <1>2, <1>3, <2>2 DEF n
    <3>3. \A k \in 1..n : chain[k] # c
      <4> SUFFICES ASSUME NEW k \in 1..n PROVE chain[k] # c
        OBVIOUS
      <4>1. CASE k = n
        BY <1>1, <3>1, <4>1
      <4>2. CASE k \in 1..(n - 1)
        BY <1>3, <2>2, <4>2
      <4> QED BY <1>1, <4>1, <4>2
    <3>4. q[c] = qvm[c]
      BY <3>1, <3>2 DEF v
    <3> QED BY <1>8, <2>2, <3>1, <3>3, <3>4 DEF Inv, Safe, Held, n
  <2> QED BY <2>1, <2>2 DEF Held
<1> QED BY <1>5, <1>6, <1>7, <1>8 DEF Safe, ch, n

\* The running VM resumes quaint c and is suspended at its WAIT or RTE.
LEMMA PushSafe ==
  ASSUME TypeOK, Inv, NEW c \in alive, ~ qvm[c].at_end,
         \A k \in 1..Len(chain) : chain[k] # c,
         NEW z \in Struct, NEW t \in {now, clock}, Suspended(z),
         z.at_end = qvm[Running].at_end, z.frames = qvm[Running].frames,
         z.noint = qvm[Running].noint,
         z.wait.mode = "for" => z.wait.start <= t
  PROVE  Safe(Append(chain, c), [qvm EXCEPT ![Running] = z], alive, t)
<1> DEFINE v == Running
           n == Len(chain)
           q == [qvm EXCEPT ![v] = z]
           ch == Append(chain, c)
<1>1. v \in VM /\ n \in Nat \ {0} /\ v = chain[n] /\ qvm \in [VM -> Struct]
      /\ c \in VM /\ c # v
      /\ \A k \in 1..n : chain[k] \in VM
  BY RunningType, ElementOfSeq DEF TypeOK, Running, VM
<1>2. Len(ch) = n + 1 /\ ch[n + 1] = c /\ \A k \in 1..n : ch[k] = chain[k]
  BY <1>1, AppendProperties DEF TypeOK
<1>3. now <= t /\ t <= clock /\ now \in Nat /\ clock \in Nat
  BY BoundAssumption DEF Inv, Safe, TypeOK
<1>4. \A w \in VM : q[w] = IF w = v THEN z ELSE qvm[w]
  BY <1>1
<1> HIDE DEF v, n, q, ch
<1>5. Linked(ch, q, alive)
  <2>1. ch[1] = Root
    BY <1>1, <1>2 DEF Inv, Safe, Linked, n
  <2>2. ASSUME NEW i \in 1..(n + 1), NEW j \in 1..(n + 1), ch[i] = ch[j]
        PROVE  i = j
    <3>1. CASE i \in 1..n /\ j \in 1..n
      BY <1>2, <2>2, <3>1 DEF Inv, Safe, Linked, n
    <3>2. CASE i = n + 1 /\ j \in 1..n
      BY <1>2, <2>2, <3>2 DEF n
    <3>3. CASE i \in 1..n /\ j = n + 1
      BY <1>2, <2>2, <3>3 DEF n
    <3> QED BY <1>1, <3>1, <3>2, <3>3
  <2>3. ASSUME NEW k \in 2..(n + 1)
        PROVE  ch[k] \in alive /\ ~ q[ch[k]].at_end
    <3>1. CASE k \in 2..n
      BY <1>1, <1>2, <1>4, <3>1 DEF Inv, Safe, Linked, n, v
    <3>2. CASE k = n + 1
      BY <1>1, <1>2, <1>4, <3>2
    <3> QED BY <1>1, <3>1, <3>2
  <2>4. ASSUME NEW k \in 1..n
        PROVE  Suspended(q[ch[k]])
    <3>1. CASE k \in 1..(n - 1)
      BY <1>1, <1>2, <1>4, <3>1 DEF Inv, Safe, Linked, n
    <3>2. CASE k = n
      BY <1>1, <1>2, <1>4, <3>2
    <3> QED BY <1>1, <3>1, <3>2
  <2> QED BY <1>1, <1>2, <2>1, <2>2, <2>3, <2>4 DEF Linked
<1>6. Timed(q, t)
  <2> SUFFICES ASSUME NEW w \in VM, q[w].wait.mode = "for"
               PROVE  q[w].wait.start <= t
    BY DEF Timed
  <2>1. CASE w = v
    BY <1>4, <2>1
  <2>2. CASE w # v
    BY <1>1, <1>3, <1>4, <2>2, TimedLater DEF Inv, Safe, Timed
  <2> QED BY <2>1, <2>2
<1>7. ASSUME Disciplined
      PROVE  Held(ch, q, alive) /\ Blocks(q)
  <2>1. Blocks(q)
    <3> SUFFICES ASSUME NEW w \in VM PROVE BlockInv(q[w])
      BY DEF Blocks
    <3>1. BlockInv(qvm[w])
      BY <1>7 DEF Inv, Safe, Blocks
    <3>2. CASE w = v
      BY <1>4, <3>1, <3>2 DEF BlockInv, InNoint, v
    <3> QED BY <1>4, <3>1, <3>2
  <2>2. ASSUME NEW d \in alive, \A k \in 1..Len(ch) : ch[k] # d, ~ q[d].at_end
        PROVE  ~ InNoint(q[d])
    <3>1. d \in VM
      BY DEF TypeOK, VM
    <3>2. \A k \in 1..n : chain[k] # d
      BY <1>1, <1>2, <2>2
    <3>3. d # v
      BY <1>1, <3>2
    <3> QED BY <1>4, <1>7, <2>2, <3>1, <3>2, <3>3 DEF Inv, Safe, Held, n
  <2> QED BY <2>1, <2>2 DEF Held
<1> QED BY <1>3, <1>5, <1>6, <1>7 DEF Safe, ch, q, v

\* The running activation enters its body, enters or leaves a noint block.
LEMMA BlockTop ==
  ASSUME NEW s \in Struct, s.frames # <<>>, BlockInv(s), NEW z \in Struct,
         NEW g \in Frame, g = s.frames[Len(s.frames)],
         NEW f \in Frame, z.frames = SetTop(s.frames, f), z.at_end = s.at_end,
         \/ f.noint = g.noint /\ f.at = "body" /\ z.noint = s.noint
         \/ ~ InNoint(s) /\ f.noint = g.noint + 1 /\ f.at = "body" /\ z.noint
         \/ g.noint > 0 /\ f.noint = g.noint - 1 /\ f.at = "body" /\ ~ z.noint
  PROVE  BlockInv(z)
<1> DEFINE fr == s.frames
           n == Len(s.frames)
<1>1. fr \in Seq(Frame) /\ n \in Nat \ {0} /\ fr # <<>> /\ n = Len(fr)
  BY EmptySeq DEF Struct
<1>2. /\ Len(z.frames) = n /\ z.frames[n] = f
      /\ \A k \in 1..(n - 1) : z.frames[k] = s.frames[k]
  <2> HIDE DEF fr
  <2>1. z.frames = SetTop(fr, f)
    BY DEF fr
  <2>2. /\ Len(SetTop(fr, f)) = Len(fr)
        /\ SetTop(fr, f)[Len(fr)] = f
        /\ \A k \in 1..(Len(fr) - 1) : SetTop(fr, f)[k] = fr[k]
    BY <1>1, SetTopType
  <2> QED BY <1>1, <2>1, <2>2 DEF fr
<1>3. \A k \in 1..n : s.frames[k].noint \in Nat /\ s.frames[k] \in Frame
  <2>1. \A k \in 1..n : s.frames[k] \in Frame
    BY <1>1, ElementOfSeq
  <2>2. \A h \in Frame : h.noint \in Nat
    BY BoundAssumption DEF Frame
  <2> QED BY <2>1, <2>2
<1>4. z.noint \in BOOLEAN /\ s.noint \in BOOLEAN /\ f.noint \in Nat
      /\ g.noint \in Nat
  BY BoundAssumption DEF Struct, Frame
<1>5. n \in 1..n
  BY <1>1
<1> HIDE DEF n
<1>6. /\ \A k, l \in 1..n :
           s.frames[k].noint > 0 /\ s.frames[l].noint > 0 => k = l
      /\ \A k \in 1..n : s.frames[k].noint <= 1
      /\ \A k \in 1..n : s.frames[k].at # "body" => s.frames[k].noint = 0
      /\ ~ s.at_end => (s.noint <=> \E k \in 1..n : s.frames[k].noint > 0)
  BY <1>4 DEF BlockInv, InNoint, n
<1>7. CASE f.noint = g.noint /\ f.at = "body" /\ z.noint = s.noint
  <2>1. \A k \in 1..n : z.frames[k].noint = s.frames[k].noint
    BY <1>1, <1>2, <1>7 DEF n
  <2>2. \A k \in 1..n : z.frames[k].at # "body" => s.frames[k].at # "body"
    BY <1>1, <1>2, <1>7 DEF n
  <2> QED BY ZenonT(40), <1>2, <1>4, <1>6, <1>7, <2>1, <2>2 DEF BlockInv, InNoint
<1>8. CASE ~ InNoint(s) /\ f.noint = g.noint + 1 /\ f.at = "body" /\ z.noint
  <2>1. \A k \in 1..n : s.frames[k].noint = 0
    BY <1>3, <1>8 DEF InNoint, n
  <2>2. f.noint = 1
    BY <1>5, <1>8, <2>1 DEF n
  <2>3. \A k \in 1..n : z.frames[k].noint = (IF k = n THEN 1 ELSE 0)
    BY <1>1, <1>2, <2>1, <2>2 DEF n
  <2>4. \A k \in 1..n : z.frames[k].at # "body" => z.frames[k].noint = 0
    BY <1>2, <1>8, <2>3
  <2>5. InNoint(z) /\ z.noint = TRUE
    BY <1>2, <1>4, <1>5, <1>8, <2>3 DEF InNoint
  <2>6. \A k, l \in 1..n :
          z.frames[k].noint > 0 /\ z.frames[l].noint > 0 => k = l
    BY <2>3
  <2>7. \A k \in 1..n : z.frames[k].noint <= 1
    BY <2>3
  <2> QED BY <1>2, <2>4, <2>5, <2>6, <2>7 DEF BlockInv
<1>9. CASE g.noint > 0 /\ f.noint = g.noint - 1 /\ f.at = "body" /\ ~ z.noint
  <2>1. \A k \in 1..n : k # n => s.frames[k].noint = 0
    BY <1>3, <1>5, <1>6, <1>9 DEF n
  <2>2. f.noint = 0
    <3>1. g.noint <= 1
      BY <1>5, <1>6 DEF n
    <3> QED BY <1>4, <1>9, <3>1
  <2>3. \A k \in 1..n : z.frames[k].noint = 0
    BY <1>1, <1>2, <2>1, <2>2 DEF n
  <2> QED BY <1>2, <1>4, <1>9, <2>3 DEF BlockInv, InNoint
<1> QED BY <1>7, <1>8, <1>9

\* A call adds an activation that is in no noint block.
LEMMA BlockCall ==
  ASSUME NEW s \in Struct, BlockInv(s), NEW z \in Struct,
         NEW where \in {"entry", "bfun"},
         z.frames = s.frames \o Entered(where),
         z.at_end = s.at_end, z.noint = s.noint
  PROVE  BlockInv(z)
<1> DEFINE fr == s.frames
           n == Len(s.frames)
           e == Entered(where)
<1>1. fr \in Seq(Frame) /\ n \in Nat /\ e \in Seq(Frame) /\ n = Len(fr)
  BY ZeroedType DEF Struct
<1>2. Len(e) = 1 /\ e[1].noint = 0
  BY DEF Entered
<1> HIDE DEF e
<1>3. /\ Len(z.frames) = n + 1 /\ z.frames[n + 1].noint = 0
      /\ \A k \in 1..n : z.frames[k] = s.frames[k]
  <2> HIDE DEF fr, n
  <2>1. z.frames = fr \o e
    BY DEF fr, e
  <2>2. /\ Len(fr \o e) = n + 1
        /\ \A k \in 1..(n + 1) : (fr \o e)[k] = IF k <= n THEN fr[k] ELSE e[k - n]
    <3>1. /\ Len(fr \o e) = Len(fr) + Len(e)
          /\ \A k \in 1..(Len(fr) + Len(e)) :
               (fr \o e)[k] = IF k <= Len(fr) THEN fr[k] ELSE e[k - Len(fr)]
      BY <1>1, ConcatProperties
    <3> QED BY <1>1, <1>2, <3>1
  <2>3. n + 1 \in 1..(n + 1) /\ ~ (n + 1 <= n) /\ (n + 1) - n = 1
    BY <1>1
  <2>4. \A k \in 1..n : k \in 1..(n + 1) /\ k <= n
    BY <1>1
  <2> QED BY <1>2, <2>1, <2>2, <2>3, <2>4 DEF fr
<1> HIDE DEF n
<1>4. \A k \in 1..(n + 1) : k \in 1..n \/ k = n + 1
  BY <1>1
<1>5. \A k \in 1..n : k \in 1..(n + 1)
  BY <1>1
<1>6. InNoint(z) <=> InNoint(s)
  BY <1>3, <1>4, <1>5 DEF InNoint, n
<1>7. ASSUME NEW k \in 1..(n + 1), NEW l \in 1..(n + 1),
             z.frames[k].noint > 0, z.frames[l].noint > 0
      PROVE  k = l
  <2>1. k \in 1..n /\ l \in 1..n
    BY SMTT(30), <1>3, <1>4, <1>7
  <2> QED BY <1>3, <1>7, <2>1 DEF BlockInv, n
<1>8. ASSUME NEW k \in 1..(n + 1)
      PROVE  /\ z.frames[k].noint <= 1
             /\ z.frames[k].at # "body" => z.frames[k].noint = 0
  BY <1>3, <1>4, <1>8 DEF BlockInv, n
<1> QED BY <1>3, <1>6, <1>7, <1>8 DEF BlockInv

\* A return removes an activation that is in no noint block.
LEMMA BlockReturn ==
  ASSUME NEW s \in Struct, BlockInv(s), NEW z \in Struct, Len(s.frames) > 1,
         s.frames[Len(s.frames)].noint = 0,
         z.frames = SubSeq(s.frames, 1, Len(s.frames) - 1),
         z.at_end = s.at_end, z.noint = s.noint
  PROVE  BlockInv(z)
<1> DEFINE n == Len(s.frames)
<1>1. s.frames \in Seq(Frame) /\ n \in Nat
      /\ \A k \in 1..(n - 1) : s.frames[k] \in Frame
  BY ElementOfSeq DEF Struct
<1>2. Len(z.frames) = n - 1 /\ \A k \in 1..(n - 1) : z.frames[k] = s.frames[k]
  BY <1>1, SubSeqProperties
<1>3. \A k \in 1..n : k \in 1..(n - 1) \/ k = n
  BY <1>1
<1>4. \A k \in 1..(n - 1) : k \in 1..n
  BY <1>1
<1>5. s.frames[n].noint = 0
  OBVIOUS
<1> HIDE DEF n
<1>6. InNoint(z) <=> InNoint(s)
  BY <1>2, <1>3, <1>4, <1>5 DEF InNoint, n
<1> QED BY <1>2, <1>4, <1>6 DEF BlockInv, n

\* handle_return() preserves the invariant.
LEMMA ReturnSafe ==
  ASSUME TypeOK, TypeOK', Inv, NEW t \in {now, clock}, AnyReturn(t),
         qvm[Running].frames # <<>>, Disciplined => Top(Running).noint = 0
  PROVE  Inv'
<1> DEFINE v == Running
           p == chain[Len(chain) - 1]
<1>1. v \in VM /\ qvm[v] \in Struct /\ qvm \in [VM -> Struct]
      /\ chain \in Seq(VM) /\ chain # <<>> /\ Len(chain) \in Nat \ {0}
  BY RunningType DEF TypeOK
<1>2. t \in 0..MaxClock /\ alive' \subseteq Quaint
  BY DEF TypeOK
<1>3. CASE ReturnToCaller(t)
  <2> DEFINE n == Len(qvm[v].frames)
             z == [qvm[v] EXCEPT !.frames = SubSeq(qvm[v].frames, 1, n - 1)]
  <2>1. qvm[v].frames \in Seq(Frame)
    BY <1>1 DEF Struct
  <2>2. SubSeq(qvm[v].frames, 1, n - 1) \in Seq(Frame)
    BY <2>1, ElementOfSeq, LenProperties, SubSeqProperties
  <2>3. z \in Struct
    BY <1>1, <2>2 DEF Struct
  <2>4. /\ z.frames = SubSeq(qvm[v].frames, 1, n - 1) /\ z.wait = qvm[v].wait
        /\ z.at_end = qvm[v].at_end /\ z.noint = qvm[v].noint
    BY <1>1 DEF Struct
  <2>5. n > 1 /\ Poll(chain, [qvm EXCEPT ![v] = z], t) /\ alive' = alive
    BY <1>3 DEF ReturnToCaller
  <2>6. [qvm EXCEPT ![v] = z] \in [VM -> Struct]
    BY <1>1, <2>3
  <2> HIDE DEF z
  <2>7. ASSUME Disciplined PROVE BlockInv(z)
    BY <1>1, <2>3, <2>4, <2>5, <2>7, BlockReturn DEF Inv, Safe, Blocks, Top
  <2>8. Safe(chain, [qvm EXCEPT ![v] = z], alive, t)
    BY <2>3, <2>4, <2>7, LocalSafe
  <2> QED BY <1>1, <1>2, <2>5, <2>6, <2>8, PollSafe
<1>4. ASSUME NEW why, Stop(why)
      PROVE  Inv'
  BY <1>4 DEF Stop, Inv, Safe
<1>5. ASSUME Len(chain) > 1
      PROVE  /\ p \in VM /\ p # v
             /\ SubSeq(chain, 1, Len(chain) - 1) \in Seq(VM)
             /\ SubSeq(chain, 1, Len(chain) - 1) # <<>>
  <2>1. Len(chain) - 1 \in 1..Len(chain) /\ Len(chain) \in 1..Len(chain)
    BY <1>1, <1>5
  <2>2. p # v
    BY <1>1, <2>1 DEF Inv, Safe, Linked, Running
  <2> QED BY <1>5, <2>2, ChainType
<1>6. CASE Len(chain) > 1 /\ ReturnToRte(t)
  <2> DEFINE q == Advance([qvm EXCEPT ![v] = Zeroed], p)
  <2>1. p \in VM /\ p # v
    BY <1>5, <1>6
  <2>2. q \in [VM -> Struct]
    BY <1>1, <2>1, ZeroedType DEF Advance, Struct
  <2>3. /\ \A w \in VM \ {v, p} : q[w] = qvm[w]
        /\ q[v] = Zeroed
        /\ q[p].at_end = qvm[p].at_end /\ q[p].frames = qvm[p].frames
        /\ q[p].noint = qvm[p].noint /\ q[p].wait = qvm[p].wait
    BY <1>1, <2>1 DEF Advance, Struct
  <2>4. /\ Poll(SubSeq(chain, 1, Len(chain) - 1), q, t)
        /\ alive' = alive \ {v}
    BY <1>6 DEF ReturnToRte
  <2>5. Zeroed.wait = NotWaiting /\ BlockInv(Zeroed)
    BY FreshBlocks DEF Zeroed
  <2> HIDE DEF q
  <2>6. Safe(SubSeq(chain, 1, Len(chain) - 1), q, alive', t)
    BY <1>6, <2>2, <2>3, <2>4, <2>5, PopSafe
  <2> QED BY <1>2, <1>5, <1>6, <2>2, <2>4, <2>6, PollSafe
<1>7. CASE Len(chain) > 1 /\ ReturnToWait(t)
  <2> DEFINE s == qvm[v]
             z == [s EXCEPT !.at_end = TRUE, !.last_passed = NoLabel,
                            !.frames = <<>>]
             r == [qvm EXCEPT ![v] = z]
             q == EndWait(r, p)
  <2>1. p \in VM /\ p # v
    BY <1>5, <1>7
  <2>2. /\ Poll(SubSeq(chain, 1, Len(chain) - 1), q, t)
        /\ alive' = alive
    BY <1>7 DEF ReturnToWait
  <2>3. s \in Struct
    BY <1>1
  <2>4. z \in Struct /\ z.at_end = TRUE /\ z.wait = s.wait /\ z.frames = <<>>
    <3> HIDE DEF s
    <3>1. <<>> \in Seq(Frame)
      OBVIOUS
    <3> QED BY <2>3, <3>1 DEF Struct
  <2> HIDE DEF z
  <2>5. r \in [VM -> Struct] /\ r[v] = z /\ \A w \in VM \ {v} : r[w] = qvm[w]
    BY <1>1, <2>4
  <2> HIDE DEF r
  <2>6. q \in [VM -> Struct]
    BY <2>1, <2>5, ZeroedType DEF EndWait, Struct
  <2>7. /\ \A w \in VM \ {v, p} : q[w] = qvm[w]
        /\ q[v] = z
        /\ q[p].at_end = qvm[p].at_end /\ q[p].frames = qvm[p].frames
        /\ q[p].noint = qvm[p].noint /\ q[p].wait = NotWaiting
    BY <1>1, <2>1, <2>5 DEF EndWait, Struct
  <2>8. BlockInv(z)
    BY <2>4 DEF BlockInv
  <2> HIDE DEF q
  <2>9. Safe(SubSeq(chain, 1, Len(chain) - 1), q, alive', t)
    BY <1>7, <2>2, <2>4, <2>6, <2>7, <2>8, PopSafe DEF s
  <2>10. /\ SubSeq(chain, 1, Len(chain) - 1) \in Seq(VM)
         /\ SubSeq(chain, 1, Len(chain) - 1) # <<>>
    BY <1>5, <1>7
  <2> QED BY <1>2, <2>2, <2>6, <2>9, <2>10, PollSafe
<1> QED BY <1>3, <1>4, <1>6, <1>7 DEF AnyReturn

\* The resumption of a quaint that is in the chain already.
LEMMA KnotSafe ==
  ASSUME TypeOK, Inv, NEW c, ~ qvm[c].at_end, c \in alive,
         NEW z \in Struct, NEW t \in {now, clock}, Suspended(z),
         z.at_end = qvm[Running].at_end, z.frames = qvm[Running].frames,
         z.noint = qvm[Running].noint,
         z.wait.mode = "for" => z.wait.start <= t,
         Knot(c, [qvm EXCEPT ![Running] = z], t)
  PROVE  status' = "cyclic" /\ Lasting'
<1> DEFINE v == Running
           n == Len(chain)
<1>1. /\ v \in VM /\ n \in Nat \ {0} /\ v = chain[n]
      /\ qvm \in [VM -> Struct] /\ c \in VM
      /\ \A j \in 1..n : chain[j] \in VM
  BY RunningType, ElementOfSeq DEF TypeOK, VM, Running
<1>2. PICK k \in 1..n :
        chain[k] = c /\ chain' = Append(SubSeq(chain, k, n), c)
  BY DEF Knot
<1>3. /\ qvm' = [qvm EXCEPT ![v] = z] /\ now' = t /\ status' = "cyclic"
      /\ alive' = alive /\ clock' = clock
  BY DEF Knot
<1> HIDE DEF v, n
<1>4. \A w \in VM : qvm'[w] = IF w = v THEN z ELSE qvm[w]
  BY <1>1, <1>3
<1>5. now <= t /\ t <= clock /\ now \in Nat /\ clock \in Nat
  BY BoundAssumption DEF Inv, Safe, TypeOK
<1>6. /\ Len(chain') = n - k + 2 /\ chain'[n - k + 2] = c
      /\ \A j \in 1..(n - k + 1) : chain'[j] = chain[k + j - 1]
  <2> DEFINE s == SubSeq(chain, k, n)
  <2>1. s \in Seq(VM) /\ Len(s) = n - k + 1
        /\ \A j \in 1..(n - k + 1) : s[j] = chain[k + j - 1]
    <3>1. \A j \in k..n : chain[j] \in VM
      BY <1>1
    <3> QED BY <1>1, <3>1, SubSeqProperties
  <2> HIDE DEF s
  <2> QED BY <1>1, <1>2, <2>1, AppendProperties DEF s
<1>7. ASSUME NEW j \in 1..n
      PROVE  chain[j] = Root \/ (chain[j] \in alive /\ ~ qvm'[chain[j]].at_end)
  <2>1. j = 1 \/ j \in 2..n
    BY <1>1
  <2> QED BY <1>1, <1>4, <2>1 DEF Inv, Safe, Linked, n, v
<1>8. ASSUME NEW j \in 1..n PROVE Suspended(qvm'[chain[j]])
  <2>1. j = n \/ j \in 1..(n - 1)
    BY <1>1
  <2> QED BY <1>1, <1>4, <2>1 DEF Inv, Safe, Linked, n
<1>9. Usable(chain, qvm, alive)'
  <2>1. ASSUME NEW j \in 1..Len(chain')
        PROVE  \E i \in 1..n : chain'[j] = chain[i]
    <3>1. CASE j = n - k + 2
      BY <1>1, <1>2, <1>6, <3>1
    <3>2. CASE j \in 1..(n - k + 1)
      <4>1. k + j - 1 \in 1..n
        BY <1>1, <3>2
      <4> QED BY <1>6, <3>2, <4>1
    <3> QED BY <1>1, <1>6, <3>1, <3>2
  <2>2. \A j \in 1..(Len(chain') - 1) : j \in 1..Len(chain')
    BY <1>1, <1>6
  <2> QED BY <1>3, <1>7, <1>8, <2>1, <2>2 DEF Usable
<1>10. Timed(qvm', t)
  <2> SUFFICES ASSUME NEW w \in VM, qvm'[w].wait.mode = "for"
               PROVE  qvm'[w].wait.start <= t
    BY DEF Timed
  <2>1. CASE w = v
    BY <1>4, <2>1
  <2>2. CASE w # v
    BY <1>1, <1>4, <1>5, <2>2, TimedLater DEF Inv, Safe, Timed
  <2> QED BY <2>1, <2>2
<1>11. ASSUME Disciplined PROVE Blocks(qvm')
  <2> SUFFICES ASSUME NEW w \in VM PROVE BlockInv(qvm'[w])
    BY DEF Blocks
  <2>1. BlockInv(qvm[w])
    BY <1>11 DEF Inv, Safe, Blocks
  <2>2. CASE w = v
    BY <1>4, <2>1, <2>2, SameBlocks DEF v
  <2> QED BY <1>4, <2>1, <2>2
<1> QED BY <1>3, <1>5, <1>9, <1>10, <1>11 DEF Lasting, Timed, Blocks

\* Every instruction preserves the invariant, or ties the knot.
LEMMA SafeStep ==
  ASSUME TypeOK, TypeOK', Inv, Step
  PROVE  Inv' \/ (status' = "cyclic" /\ Lasting')
<1> DEFINE v == Running
<1>1. v \in VM /\ qvm[v] \in Struct /\ qvm \in [VM -> Struct]
      /\ chain \in Seq(VM) /\ chain # <<>>
  BY RunningType DEF TypeOK
<1>2. now \in 0..MaxClock /\ clock \in 0..MaxClock /\ alive' \subseteq Quaint
  BY DEF TypeOK
<1>3. qvm[v].noint \in BOOLEAN
  BY <1>1 DEF Struct
<1>4. ASSUME NEW z \in Struct, Poll(chain, [qvm EXCEPT ![v] = z], now),
             alive' = alive, z.at_end = qvm[v].at_end, z.wait = qvm[v].wait,
             Disciplined => BlockInv(z)
      PROVE  Inv'
  <2>1. [qvm EXCEPT ![v] = z] \in [VM -> Struct]
    BY <1>1
  <2>2. Safe(chain, [qvm EXCEPT ![v] = z], alive', now)
    BY <1>4, LocalSafe
  <2> QED BY <1>1, <1>2, <1>4, <2>1, <2>2, PollSafe
<1>5. ASSUME NEW why, Stop(why)
      PROVE  Inv'
  BY <1>5 DEF Stop, Inv, Safe
<1>6. Disciplined => BlockInv(qvm[v])
  BY <1>1 DEF Inv, Safe, Blocks
<1>7. ASSUME Poll(chain, qvm, now), alive' = alive
      PROVE  Inv'
  BY <1>1, <1>2, <1>7, PollSafe DEF Inv
<1>8. CASE Compute
  BY <1>7, <1>8 DEF Compute
<1>9. ASSUME NEW f \in Frame, NEW b \in BOOLEAN, NEW c \in BOOLEAN, NEW z,
             z = [qvm[v] EXCEPT !.noint = b, !.at_start = c,
                                !.frames = SetTop(qvm[v].frames, f)],
             qvm[v].frames # <<>>, f.at = "body",
             \/ f.noint = Top(v).noint /\ b = qvm[v].noint
             \/ /\ f.noint = Top(v).noint + 1 /\ b = TRUE
                /\ Disciplined => ~ InNoint(qvm[v])
             \/ f.noint = Top(v).noint - 1 /\ Top(v).noint > 0 /\ b = FALSE,
             Poll(chain, [qvm EXCEPT ![v] = z], now), alive' = alive
      PROVE  Inv'
  <2> DEFINE s == qvm[v]
             fr == SetTop(qvm[v].frames, f)
  <2>1. s \in Struct /\ fr \in Seq(Frame)
    BY <1>1, <1>9, SetTopType DEF Struct
  <2>2. z = [s EXCEPT !.noint = b, !.at_start = c, !.frames = fr]
    BY <1>9
  <2> HIDE DEF s, fr
  <2>3. z \in Struct /\ z.at_end = s.at_end /\ z.wait = s.wait
        /\ z.frames = fr /\ z.noint = b
    BY <2>1, <2>2 DEF Struct
  <2>4. Top(v) \in Frame
    BY <1>1, <1>9, TopType
  <2>5. ASSUME Disciplined PROVE BlockInv(z)
    BY <1>6, <1>9, <2>1, <2>3, <2>4, <2>5, BlockTop DEF s, fr, Top
  <2> QED BY <1>4, <1>9, <2>3, <2>5 DEF s
<1>10. ASSUME Incsp
       PROVE  Inv'
  <2> DEFINE f == [Top(v) EXCEPT !.at = "body"]
             z == [qvm[v] EXCEPT !.at_start = FALSE,
                                 !.frames = SetTop(qvm[v].frames, f)]
  <2>1. CASE Poll(chain, [qvm EXCEPT ![v] = z], now) /\ alive' = alive
    <3>1. Top(v) \in Frame /\ qvm[v].frames # <<>>
      BY <1>1, <1>10, TopType DEF Incsp
    <3>2. f \in Frame /\ f.at = "body" /\ f.noint = Top(v).noint
      BY <3>1 DEF Frame
    <3>3. z = [qvm[v] EXCEPT !.noint = qvm[v].noint, !.at_start = FALSE,
                             !.frames = SetTop(qvm[v].frames, f)]
      <4> DEFINE s == qvm[v]
                 fr == SetTop(qvm[v].frames, f)
      <4>1. s \in Struct
        BY <1>1
      <4> HIDE DEF s, fr
      <4>2. [s EXCEPT !.at_start = FALSE, !.frames = fr]
              = [s EXCEPT !.noint = s.noint, !.at_start = FALSE, !.frames = fr]
        BY <4>1 DEF Struct
      <4> QED BY <4>2 DEF s, fr
    <3> HIDE DEF f, z
    <3> QED BY <1>3, <1>9, <2>1, <3>1, <3>2, <3>3
  <2>2. CASE Stop("nomem")
    BY <1>5, <2>2
  <2> QED BY <1>10, <2>1, <2>2 DEF Incsp
<1>11. ASSUME NEW l \in Label, Wlab(l)
       PROVE  Inv'
  <2> DEFINE z == [qvm[v] EXCEPT !.last_passed = l]
  <2>1. z \in Struct /\ z.at_end = qvm[v].at_end /\ z.wait = qvm[v].wait
        /\ z.frames = qvm[v].frames /\ z.noint = qvm[v].noint
    BY <1>1 DEF Struct
  <2>2. Poll(chain, [qvm EXCEPT ![v] = z], now) /\ alive' = alive
    BY <1>11 DEF Wlab
  <2> HIDE DEF z
  <2>3. Disciplined => BlockInv(z)
    BY <1>6, <2>1 DEF BlockInv, InNoint
  <2> QED BY <1>4, <2>1, <2>2, <2>3
<1>12. ASSUME NointInsn \/ IntInsn
       PROVE  Inv'
  <2> SUFFICES ASSUME NEW b \in BOOLEAN, NEW f,
                      f = [Top(v) EXCEPT !.noint = IF b THEN @ + 1 ELSE @ - 1],
                      Free(v),
                      b = TRUE => /\ Top(v).noint < MaxNoint
                                  /\ "nest" \in Features \/ ~ InNoint(qvm[v]),
                      b = FALSE => Top(v).noint > 0,
                      Poll(chain, [qvm EXCEPT ![v] =
                             [qvm[v] EXCEPT !.noint = b,
                                !.frames = SetTop(qvm[v].frames, f)]], now),
                      alive' = alive
               PROVE  Inv'
    BY <1>12 DEF NointInsn, IntInsn
  <2>1. Top(v) \in Frame /\ qvm[v].frames # <<>> /\ Top(v).at = "body"
    BY <1>1, TopType DEF Free
  <2>2. /\ f \in Frame /\ f.at = "body"
        /\ f.noint = IF b THEN Top(v).noint + 1 ELSE Top(v).noint - 1
    BY <2>1, BoundAssumption DEF Frame
  <2> DEFINE s == qvm[v]
             fr == SetTop(qvm[v].frames, f)
  <2>3. s \in Struct
    BY <1>1
  <2>4. [s EXCEPT !.noint = b, !.frames = fr]
          = [s EXCEPT !.noint = b, !.at_start = s.at_start, !.frames = fr]
        /\ s.at_start \in BOOLEAN
    <3> HIDE DEF s, fr
    <3> QED BY <2>3 DEF Struct
  <2> QED BY <1>9, <2>1, <2>2, <2>4 DEF Disciplined
<1>13. ASSUME NEW where \in {"entry", "bfun"}, Call(where)
       PROVE  Inv'
  <2> DEFINE fr == qvm[v].frames \o Entered(where)
             z == [qvm[v] EXCEPT !.frames = fr]
  <2>1. fr \in Seq(Frame)
    BY <1>1, ZeroedType, ConcatProperties DEF Struct
  <2>2. Poll(chain, [qvm EXCEPT ![v] = z], now) /\ alive' = alive
    BY <1>13 DEF Call
  <2> HIDE DEF fr
  <2>3. z \in Struct /\ z.at_end = qvm[v].at_end /\ z.wait = qvm[v].wait
        /\ z.frames = fr /\ z.noint = qvm[v].noint
    BY <1>1, <2>1 DEF Struct
  <2> HIDE DEF z
  <2>4. Disciplined => BlockInv(z)
    BY <1>1, <1>6, <2>3, BlockCall DEF fr
  <2> QED BY <1>4, <2>2, <2>3, <2>4
<1>14. ASSUME NEW b \in BOOLEAN, Ret(b)
       PROVE  Inv'
  <2>1. AnyReturn(now)
    BY <1>14 DEF Ret, HandleReturn, AnyReturn
  <2>2. qvm[v].frames # <<>> /\ (Disciplined => Top(v).noint = 0)
    BY <1>14 DEF Ret, Free, Disciplined
  <2> QED BY <2>1, <2>2, ReturnSafe
<1>15. ASSUME Bfun
       PROVE  Inv'
  <2>1. qvm[v].frames # <<>> /\ Top(v).at = "bfun"
    BY <1>15 DEF Bfun
  <2>2. Disciplined => Top(v).noint = 0
    <3>1. Len(qvm[v].frames) \in 1..Len(qvm[v].frames)
      BY <1>1, <2>1, EmptySeq DEF Struct
    <3> QED BY <1>6, <2>1, <3>1 DEF BlockInv, Top
  <2>3. ASSUME NEW t \in {now, clock}, HandleReturn(v \in Valued, t)
        PROVE  Inv'
    <3>1. AnyReturn(t)
      BY <2>3 DEF HandleReturn, AnyReturn
    <3> QED BY <2>1, <2>2, <3>1, ReturnSafe
  <2> QED BY <1>5, <1>15, <2>3 DEF Bfun
<1>16. ASSUME NEW x \in Var, NEW c \in Quaint \ alive, NEW z \in Struct,
              z.wait = NotWaiting, BlockInv(z), ~ InNoint(z), Created(x, c, z)
       PROVE  Inv'
  <2> DEFINE i == [op |-> "MOV", dst |-> x, src |-> c]
             q == [qvm EXCEPT ![c] = z]
             r == [q EXCEPT ![v].insn = i]
  <2>1. i \in Insn
    BY DEF Insn
  <2>2. q \in [VM -> Struct]
    BY <1>1
  <2>3. [qvm EXCEPT ![v].insn = i, ![c] = z] = r
    <3>1. Len(chain) \in 1..Len(chain)
      BY RunningType
    <3>2. v # c /\ c \in VM
      BY <3>1, ChainAlive DEF Running, VM
    <3> HIDE DEF i, v
    <3> QED BY <1>1, <3>2
  <2>4. /\ Poll(chain, [qvm EXCEPT ![v].insn = i, ![c] = z], now)
        /\ alive' = alive \cup {c}
    BY <1>16 DEF Created
  <2>5. Safe(chain, q, alive', now)
    BY <1>16, <2>4, CreateSafe
  <2> HIDE DEF q
  <2>6. r \in [VM -> Struct] /\ Safe(chain, r, alive', now)
    BY <1>2, <2>1, <2>2, <2>5, InsnSafe
  <2> QED BY <1>1, <1>2, <2>3, <2>4, <2>6, PollSafe
<1>17. ASSUME NEW x \in Var, NEW where \in {"entry", "bfun"}, Qnt(x, where)
       PROVE  Inv'
  <2> DEFINE z == [Zeroed EXCEPT !.at_start = TRUE, !.frames = Entered(where)]
  <2>1. z \in Struct /\ z.wait = NotWaiting
    BY ZeroedType DEF Struct, Zeroed
  <2>2. BlockInv(z) /\ ~ InNoint(z)
    BY FreshBlocks
  <2>3. (\E c \in Quaint \ alive : Created(x, c, z)) \/ Stop("nomem")
    BY <1>17 DEF Qnt
  <2> HIDE DEF z
  <2> QED BY <1>5, <1>16, <2>1, <2>2, <2>3
<1>18. ASSUME NEW x \in Var, Qntv(x)
       PROVE  Inv'
  <2> DEFINE z == [Zeroed EXCEPT !.at_start = TRUE, !.at_end = TRUE]
  <2>1. z \in Struct /\ z.wait = NotWaiting
    BY ZeroedType DEF Struct, Zeroed
  <2>2. BlockInv(z) /\ ~ InNoint(z)
    BY FreshBlocks
  <2>3. (\E c \in Quaint \ alive : Created(x, c, z)) \/ Stop("nomem")
    BY <1>18, VmAssumption DEF Qntv
  <2> HIDE DEF z
  <2> QED BY <1>5, <1>16, <2>1, <2>2, <2>3
<1>19. ASSUME NEW x \in Var, Drop(x)
       PROVE  Inv'
  BY <1>7, <1>19 DEF Drop
<1>20. ASSUME Poll(chain, Advance(qvm, v), now), alive' = alive
       PROVE  Inv'
  <2>1. Advance(qvm, v) \in [VM -> Struct]
        /\ Safe(chain, Advance(qvm, v), alive', now)
    BY <1>1, <1>2, <1>20, ZeroedType, InsnSafe DEF Inv, Advance
  <2> QED BY <1>1, <1>2, <1>20, <2>1, PollSafe
<1>21. ASSUME NEW c, ~ qvm[c].at_end, NEW z \in Struct, NEW t \in {now, clock},
              Suspended(z), z.at_end = qvm[v].at_end,
              z.frames = qvm[v].frames, z.noint = qvm[v].noint,
              z.wait.mode = "for" => z.wait.start <= t,
              Resume(c, [qvm EXCEPT ![v] = z], t)
       PROVE  Inv' \/ (status' = "cyclic" /\ Lasting')
  <2>1. CASE /\ c \in alive /\ \A k \in 1..Len(chain) : chain[k] # c
             /\ Poll(Append(chain, c), [qvm EXCEPT ![v] = z], t)
             /\ UNCHANGED <<mem, alive>>
    <3>1. Safe(Append(chain, c), [qvm EXCEPT ![v] = z], alive, t)
      BY <1>21, <2>1, PushSafe
    <3>2. Append(chain, c) \in Seq(VM) /\ Append(chain, c) # <<>>
      BY <2>1, ChainType DEF TypeOK, VM
    <3>3. [qvm EXCEPT ![v] = z] \in [VM -> Struct]
      BY <1>1
    <3> QED BY <1>2, <2>1, <3>1, <3>2, <3>3, PollSafe
  <2>2. CASE c \in alive /\ Knot(c, [qvm EXCEPT ![v] = z], t)
    BY <1>21, <2>2, KnotSafe
  <2> QED BY <1>21, <2>1, <2>2 DEF Resume
<1>22. ASSUME NEW i \in Rtes, Rte(i)
       PROVE  Inv' \/ (status' = "cyclic" /\ Lasting')
  <2> DEFINE c == Value(i.src)
             r == [qvm EXCEPT ![c] = Zeroed]
  <2>1. CASE Poll(chain, Advance(qvm, v), now) /\ alive' = alive
    BY <1>20, <2>1
  <2>2. CASE /\ c \in alive /\ qvm[c].at_end /\ alive' = alive \ {c}
             /\ Poll(chain, Advance(r, v), now)
    <3>1. \A k \in 1..Len(chain) : chain[k] # c
      BY <2>2, VmAssumption, RunningType DEF Inv, Safe, Linked, TypeOK
    <3>2. c \in VM /\ c # v
      BY <2>2, <3>1, RunningType DEF TypeOK, VM, Running
    <3>3. r \in [VM -> Struct] /\ r[v] = qvm[v]
      BY <1>1, <3>2, ZeroedType
    <3>4. Safe(chain, r, alive \ {c}, now)
      BY <2>2, <3>1, FreeSafe
    <3> HIDE DEF r
    <3>5. alive \ {c} \subseteq Quaint
      BY DEF TypeOK
    <3>6. Advance(r, v) \in [VM -> Struct]
          /\ Safe(chain, Advance(r, v), alive \ {c}, now)
      BY <3>3, <3>4, <3>5, ZeroedType, InsnSafe DEF Advance
    <3> QED BY <1>1, <1>2, <2>2, <3>6, PollSafe
  <2>3. CASE ~ qvm[c].at_end /\ Resume(c, [qvm EXCEPT ![v].insn = i], now)
    <3> DEFINE z == [qvm[v] EXCEPT !.insn = i]
    <3>1. i \in Insn /\ i.op = "RTE"
      BY DEF Rtes, Insn
    <3>2. z \in Struct /\ z.at_end = qvm[v].at_end /\ z.wait = qvm[v].wait
          /\ z.frames = qvm[v].frames /\ z.noint = qvm[v].noint /\ z.insn = i
      BY <1>1, <3>1 DEF Struct
    <3>3. z.wait.mode = "for" => z.wait.start <= now
      BY <1>1, <3>2 DEF Inv, Safe, Timed
    <3>4. Resume(c, [qvm EXCEPT ![v] = z], now) /\ ~ qvm[c].at_end
      BY <2>3
    <3>5. now \in {now, clock}
      OBVIOUS
    <3>6. Suspended(z)
      BY <3>1, <3>2 DEF Suspended
    <3> HIDE DEF z, c
    <3> QED BY <1>21, <3>2, <3>3, <3>4, <3>5, <3>6
  <2>4. CASE Stop("undefined")
    BY <1>5, <2>4
  <2> QED BY <1>22, <2>1, <2>2, <2>3, <2>4 DEF Rte
<1>23. ASSUME NEW i \in Waits, Wait(i)
       PROVE  Inv' \/ (status' = "cyclic" /\ Lasting')
  <2> DEFINE c == Value(i.src)
             t == IF i.mode = "for" THEN clock ELSE now
             s == qvm[v]
             z == [s EXCEPT !.insn = i, !.wait = Flags(i)]
  <2>1. CASE Poll(chain, Advance(qvm, v), now) /\ alive' = alive
    BY <1>20, <2>1
  <2>2. CASE ~ qvm[c].at_end /\ Resume(c, [qvm EXCEPT ![v] = z], t)
    <3>1. i \in Insn /\ i.op = "WAIT" /\ Flags(i) \in Waiting
      BY FlagsType DEF Waits
    <3>2. s \in Struct
      BY <1>1
    <3> HIDE DEF s
    <3>3. z \in Struct /\ z.at_end = s.at_end /\ z.wait = Flags(i)
          /\ z.frames = s.frames /\ z.noint = s.noint /\ z.insn = i
      BY <3>1, <3>2 DEF Struct
    <3>4. z.wait.mode = "for" => z.wait.start <= t
      <4> SUFFICES ASSUME Flags(i).mode = "for" PROVE Flags(i).start <= t
        BY <3>3
      <4>1. clock \in Int
        BY <1>2
      <4>2. CASE i.mode = "for"
        BY <4>1, <4>2 DEF Flags
      <4>3. CASE i.mode = "plain" \/ i.mode = "until"
        BY <4>3 DEF Flags
      <4>4. i.mode \in {"plain", "for", "until"}
        BY DEF Waits, Insn, Run
      <4> QED BY <4>2, <4>3, <4>4
    <3>5. t \in {now, clock}
      OBVIOUS
    <3>6. Suspended(z)
      BY <3>1, <3>3 DEF Suspended
    <3> HIDE DEF z, c, t
    <3> QED BY <1>21, <2>2, <3>3, <3>4, <3>5, <3>6 DEF s
  <2>3. CASE Stop("undefined") \/ Stop("nomem")
    BY <1>5, <2>3
  <2> QED BY <1>23, <2>1, <2>2, <2>3 DEF Wait
<1>24. CASE Mov
  BY <1>20, <1>24 DEF Mov
<1>25. ASSUME NEW x \in Var, NEW y \in Var, Copy(x, y)
       PROVE  Inv'
  BY <1>7, <1>25 DEF Copy
<1> QED
  BY <1>8, <1>10, <1>11, <1>12, <1>13, <1>14, <1>15, <1>17, <1>18, <1>19,
     <1>22, <1>23, <1>24, <1>25
  DEF Step

\* The invariant holds in every state of every behaviour, until the parents
\* go round; then what is left of it does.
GenInv == Lasting /\ (status # "cyclic" => Inv)

LEMMA StillLasting ==
  ASSUME TypeOK, Inv
  PROVE  Lasting
<1>1. \A i \in 1..Len(chain) : i = 1 \/ i \in 2..Len(chain)
  BY RunningType
<1> QED BY <1>1 DEF Inv, Safe, Linked, Usable, Lasting

LEMMA InvHolds == Spec => []GenInv
<1>1. Init => Inv
  <2> SUFFICES ASSUME Init PROVE Inv
    OBVIOUS
  <2> DEFINE z == [Zeroed EXCEPT !.frames = Entered("entry")]
  <2>1. \A w \in VM : qvm[w] = IF w = Root THEN z ELSE Zeroed
    BY DEF Init
  <2>2. /\ z.wait = NotWaiting /\ z.noint = FALSE /\ z.frames = Entered("entry")
        /\ Zeroed.wait = NotWaiting
    BY DEF Zeroed
  <2>3. Len(Entered("entry")) = 1 /\ Entered("entry")[1].noint = 0
    BY DEF Entered
  <2> HIDE DEF z
  <2>4. Linked(chain, qvm, alive)
    BY DEF Init, Linked
  <2>5. now <= clock /\ Timed(qvm, now)
    BY <2>1, <2>2 DEF Init, Timed, NotWaiting
  <2>6. Held(chain, qvm, alive)
    BY DEF Init, Held
  <2>7. BlockInv(z)
    BY <2>2, <2>3 DEF BlockInv, InNoint
  <2>8. Blocks(qvm)
    BY <2>1, <2>7, FreshBlocks DEF Blocks
  <2> QED BY <2>4, <2>5, <2>6, <2>8 DEF Inv, Safe
<1>2. Init => TypeOK /\ status # "cyclic"
  BY InitType DEF Init
<1>3. TypeOK /\ TypeOK' /\ (Inv' => Lasting') /\ GenInv /\ [Next]_vars => GenInv'
  <2> SUFFICES ASSUME TypeOK, TypeOK', Inv' => Lasting', GenInv, [Next]_vars
               PROVE  GenInv'
    OBVIOUS
  <2>1. CASE Exec
    <3>1. Inv' \/ (status' = "cyclic" /\ Lasting')
      BY <2>1, SafeStep DEF Exec, GenInv
    <3> QED BY <3>1 DEF GenInv
  <2>2. CASE Tick
    BY <2>2 DEF Tick, GenInv, Inv, Safe, Lasting, TypeOK
  <2>3. CASE UNCHANGED vars
    BY <2>3 DEF vars, GenInv, Inv, Safe, Lasting
  <2> QED BY <2>1, <2>2, <2>3 DEF Next, Ended
<1>4. TypeOK /\ Inv => Lasting
  BY StillLasting
<1> QED BY <1>1, <1>2, <1>3, <1>4, TypeCorrect, PTL DEF Spec, GenInv

\* For every program, handles in global variables and copies of them included:
\* the parents that handle_return() and the poll follow are allocated and
\* unfinished, and each that has resumed another is at its WAIT or RTE, even
\* where the parents go round.
THEOREM ParentsCorrect == Spec => []ParentsUsable
<1>1. GenInv => ParentsUsable
  BY DEF GenInv, Lasting, ParentsUsable
<1> QED BY <1>1, InvHolds, PTL

\* For every program: no running timer starts after the now it is compared
\* with, so that the unsigned subtraction of the poll does not wrap.
THEOREM TimersCorrect == Spec => []TimersSane
<1>1. GenInv => TimersSane
  BY DEF GenInv, Lasting, TimersSane
<1> QED BY <1>1, InvHolds, PTL

\* For every program that neither nests noint blocks nor returns out of one,
\* no quaint is ever frozen in the middle of a noint block, unless the program
\* has tied its resumers into a knot, which leaves out the VMs above.
THEOREM NointCorrect ==
  ASSUME "nest" \notin Features, "retnoint" \notin Features
  PROVE  Spec => [](status # "cyclic" => NointHeld)
<1>1. GenInv => (status # "cyclic" => NointHeld)
  BY DEF GenInv, Inv, Safe, NointHeld, Disciplined
<1> QED BY <1>1, InvHolds, PTL

\* For the same programs the flag of a VM is set only inside a block.
THEOREM NointFlagCorrect ==
  ASSUME "nest" \notin Features, "retnoint" \notin Features
  PROVE  Spec => []NointOnlyInside
<1>1. GenInv => NointOnlyInside
  BY DEF GenInv, Lasting, NointOnlyInside, Disciplined, Blocks, BlockInv
<1> QED BY <1>1, InvHolds, PTL

-----------------------------------------------------------------------------
(***************************************************************************)
(* What the instructions of Qvm come to.  Every step of exec() is one of   *)
(* eleven effects: a change of the running VM alone, a * or wait that has  *)
(* nothing to do, the creation of a quaint, the storing of its handle, the *)
(* loss of a handle, the copy of one, the taking of an ended quaint, a     *)
(* resumption, the knot of a resumption of one's own resumers, a return to *)
(* the resumer, and a stop.  The theorems about private programs and about *)
(* the promise argue by effect, not by instruction.                        *)
(***************************************************************************)

-----------------------------------------------------------------------------
(***************************************************************************)
(* The life of a VM of struct s.  It stays at an instruction only in the   *)
(* body of a function; an ended one has no activation, no instruction and  *)
(* no label; and one that is still at its start has not executed the first *)
(* instruction of its function (a built-in function has just one).         *)
(***************************************************************************)
Life(s) ==
  /\ s.insn # Run => /\ s.frames # <<>>
                     /\ s.frames[Len(s.frames)].at = "body"
  /\ s.at_end => s.insn = Run /\ s.frames = <<>> /\ s.last_passed = NoLabel
  /\ s.at_start /\ ~ s.at_end =>
       \/ s.frames = Entered("entry")
       \/ "bfun" \in Features /\ s.frames = Entered("bfun")

\* Everybody's life, and the structs of the quaints that are not allocated
Lives(q, a) ==
  /\ \A v \in VM : Life(q[v])
  /\ \A c \in Quaint \ a : q[c] = Zeroed

LifeInv == Lives(qvm, alive)

\* A VM that has an activation has not ended; at its own choice of an
\* instruction it has started, and at its first one it is not yet suspended.
LEMMA Awake ==
  ASSUME TypeOK, LifeInv, NEW v \in VM, qvm[v].frames # <<>>
  PROVE  /\ ~ qvm[v].at_end
         /\ Top(v).at # "body" => qvm[v].insn = Run
         /\ qvm[v].at_start =>
              /\ Len(qvm[v].frames) = 1
              /\ Top(v).at # "body"
              /\ "bfun" \notin Features => Top(v).at = "entry"
         /\ Free(v) => qvm[v].insn = Run /\ ~ qvm[v].at_start
<1>1. Life(qvm[v])
  BY DEF LifeInv, Lives
<1>2. ~ qvm[v].at_end
  BY <1>1 DEF Life
<1>3. Top(v).at # "body" => qvm[v].insn = Run
  BY <1>1 DEF Life, Top
<1>4. ASSUME qvm[v].at_start
      PROVE  /\ Len(qvm[v].frames) = 1
             /\ Top(v).at # "body"
             /\ "bfun" \notin Features => Top(v).at = "entry"
  <2>1. ASSUME NEW where \in {"entry", "bfun"}, qvm[v].frames = Entered(where)
        PROVE  Len(qvm[v].frames) = 1 /\ Top(v).at = where
    BY <2>1 DEF Entered, Top
  <2> QED BY <1>1, <1>2, <1>4, <2>1 DEF Life
<1> QED BY <1>2, <1>3, <1>4 DEF Free

\* A VM that has started and is free to go on has the life of any other.
LEMMA Active ==
  ASSUME NEW s \in Struct, s.insn = Run, ~ s.at_end, ~ s.at_start
  PROVE  Life(s)
BY DEF Life

\* The new structs: of a VM of zeroes, of a quaint about to begin, and of a
\* quaint that holds a value.
LEMMA FreshLife ==
  /\ Life(Zeroed)
  /\ \A where \in {"entry", "bfun"} :
       (where = "bfun" => "bfun" \in Features) =>
         Life([Zeroed EXCEPT !.at_start = TRUE, !.frames = Entered(where)])
  /\ Life([Zeroed EXCEPT !.at_start = TRUE, !.at_end = TRUE])
  /\ Life([Zeroed EXCEPT !.frames = Entered("entry")])
BY DEF Life, Zeroed

-----------------------------------------------------------------------------
(***************************************************************************)
(* The effects.                                                            *)
(***************************************************************************)

\* What a VM of struct s may do by itself to become z: nothing that is seen
\* from outside but a noint block, leave the start, or pass a label.
LocalChange(s, z) ==
  /\ z.insn = s.insn /\ z.wait = s.wait /\ z.at_end = s.at_end
  /\ \/ z.at_start = s.at_start /\ z.last_passed = s.last_passed
     \/ /\ ~ z.at_start /\ z.last_passed = s.last_passed
        /\ InNoint(z) = InNoint(s)
     \/ /\ z.at_start = s.at_start /\ z.last_passed \in Label
        /\ InNoint(z) = InNoint(s)

\* The running VM becomes z: it neither ends nor takes up a * or wait.
LocalEffect(z, t) ==
  /\ qvm[Running].insn = Run
  /\ LocalChange(qvm[Running], z)
  /\ Life(z)
  /\ Poll(chain, [qvm EXCEPT ![Running] = z], t)
  /\ UNCHANGED <<mem, alive>>

\* A * or wait i on null, on an ended quaint or for no time at all.
SkipEffect(i) ==
  LET c == Value(i.src) IN
  /\ At(i)
  /\ \/ c = Null
     \/ c \in alive /\ i.op = "WAIT" /\ qvm[c].at_end
     \/ c \in alive /\ i.op = "WAIT" /\ i.mode = "for" /\ i.arg = 0
  /\ Poll(chain, Advance(qvm, Running), now)
  /\ UNCHANGED <<mem, alive>>

\* A quaint of struct z is allocated at c, for x.
CreateEffect(x, c, z) ==
  /\ Free(Running) /\ Running \in CanUse[x]
  /\ z.insn = Run /\ z.wait = NotWaiting /\ z.last_passed = NoLabel
  /\ z.at_start /\ ~ InNoint(z) /\ Life(z)
  /\ Created(x, c, z)

\* The * of i takes an ended quaint.
TakeEffect(i) ==
  LET c == Value(i.src) IN
  /\ At(i)
  /\ c \in alive /\ qvm[c].at_end
  /\ alive' = alive \ {c}
  /\ mem' = IF i.src \in Var THEN [mem EXCEPT ![i.src] = Null] ELSE mem
  /\ Poll(chain, Advance([qvm EXCEPT ![c] = Zeroed], Running), now)

\* The * or wait i resumes a quaint, and the running VM becomes z.
PushEffect(i, z, t) ==
  LET c == Value(i.src)
      s == qvm[Running] IN
  /\ At(i)
  /\ c \in alive /\ ~ qvm[c].at_end
  /\ \A k \in 1..Len(chain) : chain[k] # c
  /\ i.op = "WAIT" /\ i.mode = "for" => i.arg # 0
  /\ z = [s EXCEPT !.insn = i,
                   !.wait = IF i.op = "WAIT" THEN Flags(i) ELSE s.wait]
  /\ Poll(Append(chain, c), [qvm EXCEPT ![Running] = z], t)
  /\ UNCHANGED <<mem, alive>>

\* The * or wait i finds a quaint that is in the chain already, or the running
\* VM itself.
KnotEffect(i, z, t) ==
  LET c == Value(i.src)
      s == qvm[Running] IN
  /\ At(i)
  /\ c \in alive /\ ~ qvm[c].at_end
  /\ z = [s EXCEPT !.insn = i,
                   !.wait = IF i.op = "WAIT" THEN Flags(i) ELSE s.wait]
  /\ Knot(c, [qvm EXCEPT ![Running] = z], t)

\* The function of the running VM returns to the resumer.
PopEffect(t) ==
  /\ Len(chain) > 1
  /\ qvm[Running].insn = Run
  /\ Len(qvm[Running].frames) = 1
  /\ "bfun" \notin Features => ~ qvm[Running].at_start
  /\ Disciplined => Top(Running).noint = 0
  /\ ReturnToRte(t) \/ ReturnToWait(t)

\* The interpreter stops, and why.
StopEffect(why) ==
  /\ Stop(why)
  /\ why = "illegal" => "falloff" \in Features
  /\ why = "undefined" =>
       \E i \in Rtes \cup Waits : At(i) /\ Value(i.src) \in Quaint \ alive

Effect ==
  \/ \E z \in Struct, t \in {now, clock} : LocalEffect(z, t)
  \/ \E i \in Rtes \cup Waits : SkipEffect(i)
  \/ \E x \in Var, c \in Quaint \ alive, z \in Struct : CreateEffect(x, c, z)
  \/ Mov
  \/ \E x \in Var : Drop(x)
  \/ "copy" \in Features /\ \E x, y \in Var : Copy(x, y)
  \/ \E i \in Rtes : TakeEffect(i)
  \/ \E i \in Rtes \cup Waits, z \in Struct, t \in {now, clock} :
       PushEffect(i, z, t) \/ KnotEffect(i, z, t)
  \/ \E t \in {now, clock} : PopEffect(t)
  \/ \E why \in {"exited", "illegal", "nomem", "undefined"} : StopEffect(why)

\* The end of an activation: the VM goes on in its caller, or its resumer
\* does, or the interpreter stops; and only a function that ends without the
\* value it owes makes the return illegal.
LEMMA ReturnEffect ==
  ASSUME TypeOK, Inv, LifeInv, NEW t \in {now, clock}, NEW b \in BOOLEAN,
         HandleReturn(b, t), qvm[Running].frames # <<>>,
         Free(Running) \/ Top(Running).at = "bfun",
         Disciplined => Top(Running).noint = 0,
         b = (Running \in Valued) \/ "falloff" \in Features
  PROVE  Effect
<1> DEFINE v == Running
           p == chain[Len(chain) - 1]
<1>1. v \in VM /\ qvm[v] \in Struct /\ qvm \in [VM -> Struct]
      /\ Len(chain) \in Nat \ {0}
  BY RunningType DEF TypeOK
<1>2. /\ ~ qvm[v].at_end /\ qvm[v].insn = Run
      /\ qvm[v].at_start => Len(qvm[v].frames) = 1
      /\ "bfun" \notin Features => ~ qvm[v].at_start
  BY <1>1, Awake
<1>3. CASE ReturnToCaller(t)
  <2> DEFINE s == qvm[v]
             n == Len(s.frames)
             f == SubSeq(s.frames, 1, n - 1)
             z == [s EXCEPT !.frames = f]
  <2>0. n # 1
    <3>1. n > 1
      BY <1>3 DEF ReturnToCaller
    <3>2. n \in Nat
      BY <1>1 DEF Struct
    <3> HIDE DEF n
    <3> QED BY <3>1, <3>2
  <2>1. Poll(chain, [qvm EXCEPT ![v] = z], t)
        /\ UNCHANGED <<mem, alive>>
    BY <1>3 DEF ReturnToCaller
  <2>2. s \in Struct /\ s.frames \in Seq(Frame)
    BY <1>1 DEF Struct
  <2>3. f \in Seq(Frame)
    BY <2>2, ElementOfSeq, LenProperties, SubSeqProperties
  <2>4. s.insn = Run /\ ~ s.at_end /\ ~ s.at_start
    BY <1>2, <2>0
  <2> HIDE DEF s, f
  <2>5. z \in Struct /\ z.insn = s.insn /\ z.wait = s.wait
        /\ z.at_end = s.at_end /\ z.at_start = s.at_start
        /\ z.last_passed = s.last_passed
    BY <2>2, <2>3 DEF Struct
  <2> HIDE DEF z
  <2>6. LocalEffect(z, t)
    BY <2>1, <2>4, <2>5, Active DEF LocalEffect, LocalChange, s
  <2> QED BY <2>5, <2>6 DEF Effect
<1>4. CASE /\ Len(qvm[v].frames) = 1 /\ Len(chain) > 1
           /\ ReturnToRte(t) \/ ReturnToWait(t)
  BY <1>2, <1>4 DEF PopEffect, Effect
<1>5. CASE Stop("exited")
  BY <1>5 DEF StopEffect, Effect
<1>6. CASE /\ Len(chain) > 1 /\ qvm[p].insn.op # "WAIT"
           /\ qvm[p].insn.op = "RTE" => b # (v \in Valued)
           /\ Stop("illegal")
  <2>1. Suspended(qvm[p])
    <3>1. Len(chain) - 1 \in 1..(Len(chain) - 1)
      BY <1>1, <1>6
    <3> QED BY <3>1 DEF Inv, Safe, Linked
  <2>2. "falloff" \in Features
    BY <1>6, <2>1 DEF Suspended
  <2> QED BY <1>6, <2>2 DEF StopEffect, Effect
<1> QED BY <1>3, <1>4, <1>5, <1>6 DEF HandleReturn

\* Every instruction has one of these effects.
LEMMA StepEffect ==
  ASSUME TypeOK, Inv, LifeInv, Step
  PROVE  Effect
<1> DEFINE v == Running
           s == qvm[v]
<1>1. v \in VM /\ s \in Struct /\ qvm \in [VM -> Struct]
      /\ s.frames \in Seq(Frame)
  BY RunningType DEF TypeOK, Struct
<1>2. now \in {now, clock} /\ clock \in {now, clock}
  OBVIOUS
<1>3. ASSUME NEW z \in Struct, Poll(chain, [qvm EXCEPT ![v] = z], now),
             UNCHANGED <<mem, alive>>, s.insn = Run, LocalChange(s, z), Life(z)
      PROVE  Effect
  BY <1>3 DEF LocalEffect, Effect
<1>4. ASSUME Free(v)
      PROVE  s.frames # <<>> /\ s.insn = Run /\ ~ s.at_end /\ ~ s.at_start
  BY <1>1, <1>4, Awake DEF Free
<1>5. ASSUME Stop("nomem") \/ Stop("exited")
      PROVE  Effect
  BY <1>5 DEF StopEffect, Effect
<1>6. Life(s)
  BY <1>1 DEF LifeInv, Lives
<1> HIDE DEF s
<1>7. CASE Compute
  <2>1. [qvm EXCEPT ![v] = s] = qvm
    BY <1>1 DEF s
  <2>2. s.insn = Run /\ LocalChange(s, s)
    BY <1>4, <1>7 DEF Compute, LocalChange
  <2> QED BY <1>1, <1>3, <1>6, <1>7, <2>1, <2>2 DEF Compute
<1>8. CASE Incsp
  <2> DEFINE f == SetTop(s.frames, [Top(v) EXCEPT !.at = "body"])
             z == [s EXCEPT !.at_start = FALSE, !.frames = f]
  <2>1. s.frames # <<>> /\ Top(v).at = "entry" /\ Top(v) \in Frame
    BY <1>1, <1>8, TopType DEF Incsp, s
  <2>2. [Top(v) EXCEPT !.at = "body"] \in Frame
    BY <2>1 DEF Frame
  <2>3. f \in Seq(Frame)
    BY <1>1, <2>1, <2>2, SetTopType
  <2>4. s.insn = Run /\ ~ s.at_end
    BY <1>1, <2>1, Awake DEF s
  <2>5. \/ Poll(chain, [qvm EXCEPT ![v] = z], now) /\ UNCHANGED <<mem, alive>>
        \/ Stop("nomem")
    BY <1>8 DEF Incsp, s
  <2> HIDE DEF f
  <2>6. z \in Struct /\ z.insn = s.insn /\ z.wait = s.wait
        /\ z.at_end = s.at_end /\ z.at_start = FALSE
        /\ z.last_passed = s.last_passed /\ z.frames = f
    BY <1>1, <2>3 DEF Struct
  <2> HIDE DEF z
  <2>7. Life(z)
    BY <2>4, <2>6, Active
  <2>8. InNoint(z) = InNoint(s)
    <3> DEFINE n == Len(s.frames)
               g == [Top(v) EXCEPT !.at = "body"]
    <3>1. g.noint = Top(v).noint /\ Top(v) = s.frames[n]
      BY <2>1 DEF Frame, Top, s
    <3>2. Len(f) = n /\ f[n] = g /\ \A k \in 1..(n - 1) : f[k] = s.frames[k]
      BY <1>1, <2>1, <2>2, SetTopType DEF f
    <3>3. n \in Nat
      BY <1>1
    <3> HIDE DEF n, g
    <3>4. \A k \in 1..n : f[k].noint = s.frames[k].noint
      BY <3>1, <3>2, <3>3
    <3> QED BY <2>6, <3>2, <3>4 DEF InNoint, n
  <2>9. LocalChange(s, z)
    BY <2>6, <2>8 DEF LocalChange
  <2> QED BY <1>3, <1>5, <2>4, <2>5, <2>6, <2>7, <2>9
<1>9. ASSUME NEW l \in Label, Wlab(l)
      PROVE  Effect
  <2> DEFINE z == [s EXCEPT !.last_passed = l]
  <2>1. Free(v) /\ UNCHANGED <<mem, alive>>
        /\ Poll(chain, [qvm EXCEPT ![v] = z], now)
    BY <1>9 DEF Wlab, s
  <2>2. z \in Struct /\ z.insn = s.insn /\ z.wait = s.wait
        /\ z.at_end = s.at_end /\ z.at_start = s.at_start
        /\ z.last_passed = l /\ z.frames = s.frames
    BY <1>1 DEF Struct
  <2> HIDE DEF z
  <2>3. LocalChange(s, z)
    BY <2>2 DEF LocalChange, InNoint
  <2> QED BY <1>3, <1>4, <2>1, <2>2, <2>3, Active
<1>10. CASE NointInsn \/ IntInsn
  <2> SUFFICES ASSUME NEW b \in BOOLEAN, NEW f,
                      f = [Top(v) EXCEPT !.noint = IF b THEN @ + 1 ELSE @ - 1],
                      Free(v), b = TRUE => Top(v).noint < MaxNoint,
                      b = FALSE => Top(v).noint > 0,
                      Poll(chain, [qvm EXCEPT ![v] =
                             [s EXCEPT !.noint = b,
                                       !.frames = SetTop(s.frames, f)]], now),
                      UNCHANGED <<mem, alive>>
               PROVE  Effect
    BY <1>10 DEF NointInsn, IntInsn, s
  <2> DEFINE fr == SetTop(s.frames, f)
             z == [s EXCEPT !.noint = b, !.frames = fr]
  <2>1. Top(v) \in Frame /\ s.frames # <<>>
    BY <1>1, TopType DEF Free, s
  <2>2. f \in Frame
    BY <2>1, BoundAssumption DEF Frame
  <2>3. fr \in Seq(Frame)
    BY <1>1, <2>1, <2>2, SetTopType
  <2>4. Poll(chain, [qvm EXCEPT ![v] = z], now)
    OBVIOUS
  <2> HIDE DEF fr
  <2>5. z \in Struct /\ z.insn = s.insn /\ z.wait = s.wait
        /\ z.at_end = s.at_end /\ z.at_start = s.at_start
        /\ z.last_passed = s.last_passed
    BY <1>1, <2>3 DEF Struct
  <2> HIDE DEF z
  <2>6. LocalChange(s, z)
    BY <2>5 DEF LocalChange
  <2> QED BY <1>3, <1>4, <2>4, <2>5, <2>6, Active
<1>11. ASSUME NEW where \in {"entry", "bfun"}, Call(where)
       PROVE  Effect
  <2> DEFINE fr == s.frames \o Entered(where)
             z == [s EXCEPT !.frames = fr]
  <2>1. fr \in Seq(Frame)
    BY <1>1, ZeroedType, ConcatProperties
  <2>2. Free(v) /\ UNCHANGED <<mem, alive>>
        /\ Poll(chain, [qvm EXCEPT ![v] = z], now)
    BY <1>11 DEF Call, s
  <2> HIDE DEF fr
  <2>3. z \in Struct /\ z.insn = s.insn /\ z.wait = s.wait
        /\ z.at_end = s.at_end /\ z.at_start = s.at_start
        /\ z.last_passed = s.last_passed
    BY <1>1, <2>1 DEF Struct
  <2> HIDE DEF z
  <2>4. LocalChange(s, z)
    BY <2>3 DEF LocalChange
  <2> QED BY <1>3, <1>4, <2>2, <2>3, <2>4, Active
<1>12. ASSUME NEW b \in BOOLEAN, Ret(b)
       PROVE  Effect
  <2>1. /\ HandleReturn(b, now) /\ Free(v) /\ qvm[v].frames # <<>>
        /\ b = (v \in Valued) \/ "falloff" \in Features
        /\ Disciplined => Top(v).noint = 0
    BY <1>12 DEF Ret, Free, Disciplined
  <2> QED BY <1>2, <2>1, ReturnEffect
<1>13. CASE Bfun
  <2>1. s.frames # <<>> /\ Top(v).at = "bfun"
    BY <1>13 DEF Bfun, s
  <2>2. Disciplined => Top(v).noint = 0
    <3>1. Len(s.frames) \in 1..Len(s.frames)
      BY <1>1, <2>1, EmptySeq
    <3> QED BY <1>1, <2>1, <3>1 DEF Inv, Safe, Blocks, BlockInv, Top, s
  <2>3. ASSUME NEW t \in {now, clock}, HandleReturn(v \in Valued, t)
        PROVE  Effect
    <3> DEFINE b == v \in Valued
    <3>1. b \in BOOLEAN /\ b = (v \in Valued)
      OBVIOUS
    <3>2. HandleReturn(b, t)
      BY <2>3
    <3> HIDE DEF b
    <3> QED BY <2>1, <2>2, <3>1, <3>2, ReturnEffect DEF s
  <2> QED BY <1>5, <1>13, <2>3 DEF Bfun
<1>14. ASSUME NEW x \in Var, NEW where \in {"entry", "bfun"}, Qnt(x, where),
              where = "bfun" => "bfun" \in Features
       PROVE  Effect
  <2> DEFINE z == [Zeroed EXCEPT !.at_start = TRUE, !.frames = Entered(where)]
  <2>1. z \in Struct /\ Life(z) /\ ~ InNoint(z)
    BY <1>14, ZeroedType, FreshLife, FreshBlocks DEF Struct
  <2>2. z.insn = Run /\ z.wait = NotWaiting /\ z.last_passed = NoLabel
        /\ z.at_start
    BY DEF Zeroed
  <2>3. /\ Free(v) /\ v \in CanUse[x]
        /\ (\E c \in Quaint \ alive : Created(x, c, z)) \/ Stop("nomem")
    BY <1>14 DEF Qnt
  <2> HIDE DEF z
  <2> QED BY <1>5, <2>1, <2>2, <2>3 DEF CreateEffect, Effect
<1>15. ASSUME NEW x \in Var, Qntv(x)
       PROVE  Effect
  <2> DEFINE z == [Zeroed EXCEPT !.at_start = TRUE, !.at_end = TRUE]
  <2>1. z \in Struct /\ Life(z) /\ ~ InNoint(z)
    BY ZeroedType, FreshLife, FreshBlocks DEF Struct
  <2>2. z.insn = Run /\ z.wait = NotWaiting /\ z.last_passed = NoLabel
        /\ z.at_start
    BY DEF Zeroed
  <2>3. /\ Free(v) /\ v \in CanUse[x]
        /\ (\E c \in Quaint \ alive : Created(x, c, z)) \/ Stop("nomem")
    BY <1>15, VmAssumption DEF Qntv
  <2> HIDE DEF z
  <2> QED BY <1>5, <2>1, <2>2, <2>3 DEF CreateEffect, Effect
<1>16. ASSUME NEW i \in Rtes \cup Waits, NEW z, NEW t \in {now, clock},
              At(i), ~ qvm[Value(i.src)].at_end,
              i.op = "WAIT" /\ i.mode = "for" => i.arg # 0,
              z = [s EXCEPT !.insn = i,
                            !.wait = IF i.op = "WAIT" THEN Flags(i) ELSE s.wait],
              Resume(Value(i.src), [qvm EXCEPT ![v] = z], t)
       PROVE  Effect
  <2>1. i \in Insn
    BY DEF Rtes, Waits, Insn
  <2>2. i.op = "WAIT" => Flags(i) \in Waiting
    BY FlagsType DEF Rtes, Waits
  <2>3. z \in Struct
    BY <1>1, <1>16, <2>1, <2>2 DEF Struct
  <2>4. CASE /\ Value(i.src) \in alive
             /\ \A k \in 1..Len(chain) : chain[k] # Value(i.src)
             /\ Poll(Append(chain, Value(i.src)), [qvm EXCEPT ![v] = z], t)
             /\ UNCHANGED <<mem, alive>>
    BY <1>16, <2>3, <2>4 DEF PushEffect, Effect, s
  <2>5. CASE /\ Value(i.src) \in alive
             /\ Knot(Value(i.src), [qvm EXCEPT ![v] = z], t)
    BY <1>16, <2>3, <2>5 DEF KnotEffect, Effect, s
  <2> QED BY <1>16, <2>4, <2>5 DEF Resume
<1>17. ASSUME NEW i \in Rtes \cup Waits, At(i),
              Value(i.src) \in Quaint \ alive, Stop("undefined")
       PROVE  Effect
  BY <1>17 DEF StopEffect, Effect
<1>18. ASSUME NEW i \in Rtes, Rte(i)
       PROVE  Effect
  <2> DEFINE c == Value(i.src)
             z == [s EXCEPT !.insn = i]
  <2>0. i.op = "RTE" /\ i \in Rtes \cup Waits
    BY DEF Rtes
  <2>1. CASE c = Null /\ Poll(chain, Advance(qvm, v), now)
             /\ UNCHANGED <<mem, alive>>
    BY <1>18, <2>0, <2>1 DEF Rte, SkipEffect, Effect
  <2>2. CASE /\ c \in alive /\ qvm[c].at_end /\ alive' = alive \ {c}
             /\ mem' = IF i.src \in Var THEN [mem EXCEPT ![i.src] = Null] ELSE mem
             /\ Poll(chain, Advance([qvm EXCEPT ![c] = Zeroed], v), now)
    BY <1>18, <2>2 DEF Rte, TakeEffect, Effect
  <2>3. CASE ~ qvm[c].at_end /\ Resume(c, [qvm EXCEPT ![v].insn = i], now)
    <3>1. z = [s EXCEPT !.insn = i,
                        !.wait = IF i.op = "WAIT" THEN Flags(i) ELSE s.wait]
      BY <1>1, <2>0 DEF Struct
    <3>2. Resume(c, [qvm EXCEPT ![v] = z], now)
      BY <2>3 DEF s
    <3>3. At(i)
      BY <1>18 DEF Rte
    <3> HIDE DEF z
    <3> QED BY <1>2, <1>16, <2>0, <2>3, <3>1, <3>2, <3>3
  <2>4. CASE c \in Quaint \ alive /\ Stop("undefined")
    BY <1>17, <1>18, <2>4 DEF Rte
  <2> QED BY <1>18, <2>1, <2>2, <2>3, <2>4 DEF Rte
<1>19. ASSUME NEW i \in Waits, Wait(i)
       PROVE  Effect
  <2> DEFINE c == Value(i.src)
             z == [s EXCEPT !.insn = i, !.wait = Flags(i)]
             t == IF i.mode = "for" THEN clock ELSE now
  <2>0. i.op = "WAIT" /\ i \in Rtes \cup Waits /\ At(i)
    BY <1>19 DEF Waits, Wait
  <2>1. CASE /\ \/ c = Null
                \/ c \in alive /\ qvm[c].at_end
                \/ c \in alive /\ i.mode = "for" /\ i.arg = 0
             /\ Poll(chain, Advance(qvm, v), now) /\ UNCHANGED <<mem, alive>>
    BY <2>0, <2>1 DEF SkipEffect, Effect
  <2>2. CASE /\ ~ qvm[c].at_end /\ (i.mode = "for" => i.arg # 0)
             /\ Resume(c, [qvm EXCEPT ![v] = z], t)
    <3>1. z = [s EXCEPT !.insn = i,
                        !.wait = IF i.op = "WAIT" THEN Flags(i) ELSE s.wait]
      BY <2>0
    <3>2. t \in {now, clock}
      OBVIOUS
    <3> HIDE DEF z, t
    <3> QED BY <1>16, <2>0, <2>2, <3>1, <3>2
  <2>3. CASE Stop("nomem")
    BY <1>5, <2>3
  <2>4. CASE c \in Quaint \ alive /\ Stop("undefined")
    BY <1>17, <2>0, <2>4
  <2>5. \/ /\ \/ c = Null
              \/ c \in alive /\ qvm[c].at_end
              \/ c \in alive /\ i.mode = "for" /\ i.arg = 0
           /\ Poll(chain, Advance(qvm, v), now) /\ UNCHANGED <<mem, alive>>
        \/ /\ ~ qvm[c].at_end /\ (i.mode = "for" => i.arg # 0)
           /\ Resume(c, [qvm EXCEPT ![v] = z], t)
        \/ Stop("nomem")
        \/ c \in Quaint \ alive /\ Stop("undefined")
    BY <1>19 DEF Wait, s
  <2> QED BY <2>1, <2>2, <2>3, <2>4, <2>5
<1>20. ASSUME NEW x \in Var, Drop(x)
       PROVE  Effect
  BY <1>20 DEF Effect
<1>21. CASE Mov \/ ("copy" \in Features /\ \E x, y \in Var : Copy(x, y))
  BY <1>21 DEF Effect
<1> QED
  BY <1>7, <1>8, <1>9, <1>10, <1>11, <1>12, <1>13, <1>14, <1>15, <1>18, <1>19,
     <1>20, <1>21
  DEF Step

-----------------------------------------------------------------------------
(***************************************************************************)
(* Every VM keeps to its life.                                             *)
(***************************************************************************)

\* What a poll may do: nothing, or end the wait of one resumer above whom no
\* flag is set.
LEMMA PollCases ==
  ASSUME NEW ch, NEW q, NEW t, Poll(ch, q, t)
  PROVE  /\ status' = status /\ clock' = clock
         /\ \/ chain' = ch /\ qvm' = q
            \/ \E i \in 1..(Len(ch) - 1), u \in {t, clock} :
                 /\ Over(q[ch[i]].wait, q[ch[i + 1]], u)
                 /\ \A j \in (i + 1)..Len(ch) : ~ q[ch[j]].noint
                 /\ chain' = SubSeq(ch, 1, i)
                 /\ qvm' = EndWait(q, ch[i])
<1>1. ASSUME NEW u \in {t, clock}, Walk(ch, q, u)
      PROVE  \/ chain' = ch /\ qvm' = q
             \/ \E i \in 1..(Len(ch) - 1) :
                  /\ Over(q[ch[i]].wait, q[ch[i + 1]], u)
                  /\ \A j \in (i + 1)..Len(ch) : ~ q[ch[j]].noint
                  /\ chain' = SubSeq(ch, 1, i)
                  /\ qvm' = EndWait(q, ch[i])
  BY <1>1 DEF Walk, Splits
<1>2. status' = status /\ clock' = clock
  BY DEF Poll
<1>3. CASE cycles # 0 /\ now' = t /\ Walk(ch, q, t)
  BY <1>1, <1>2, <1>3
<1>4. CASE cycles = 0 /\ now' = clock /\ Walk(ch, q, clock)
  BY <1>1, <1>2, <1>4
<1>5. CASE now' = t /\ chain' = ch /\ qvm' = q
  BY <1>2, <1>5
<1> QED BY <1>3, <1>4, <1>5 DEF Poll

\* What advancing ip and ending a wait do to the struct of a VM.
LEMMA AdvanceFields ==
  ASSUME NEW q \in [VM -> Struct], NEW v \in VM
  PROVE  /\ Advance(q, v) \in [VM -> Struct]
         /\ EndWait(q, v) \in [VM -> Struct]
         /\ \A w \in VM \ {v} : Advance(q, v)[w] = q[w] /\ EndWait(q, v)[w] = q[w]
         /\ \A z \in {Advance(q, v)[v], EndWait(q, v)[v]} :
              /\ z \in Struct
              /\ z.insn = Run
              /\ z.frames = q[v].frames
              /\ z.at_start = q[v].at_start
              /\ z.at_end = q[v].at_end
              /\ z.noint = q[v].noint
              /\ z.last_passed = q[v].last_passed
         /\ Advance(q, v)[v].wait = q[v].wait
         /\ EndWait(q, v)[v].wait = NotWaiting
<1> DEFINE s == q[v]
           y == [s EXCEPT !.insn = Run]
           z == [s EXCEPT !.insn = Run, !.wait = NotWaiting]
<1>1. Advance(q, v) = [q EXCEPT ![v] = y] /\ EndWait(q, v) = [q EXCEPT ![v] = z]
  BY DEF Advance, EndWait
<1>2. s \in Struct
  OBVIOUS
<1> HIDE DEF s
<1>3. /\ \A r \in {y, z} : /\ r \in Struct /\ r.insn = Run
                           /\ r.frames = s.frames /\ r.at_start = s.at_start
                           /\ r.at_end = s.at_end /\ r.noint = s.noint
                           /\ r.last_passed = s.last_passed
      /\ y.wait = s.wait /\ z.wait = NotWaiting
  BY <1>2, ZeroedType DEF Struct
<1> HIDE DEF y, z
<1> QED BY <1>1, <1>3 DEF s

\* Neither touches more than ip and the waiting flags.
LEMMA AdvanceKeeps ==
  ASSUME NEW q \in [VM -> Struct], NEW v \in VM, NEW w \in VM,
         NEW r \in {Advance(q, v), EndWait(q, v)}
  PROVE  /\ r[w].frames = q[w].frames
         /\ r[w].at_start = q[w].at_start
         /\ r[w].at_end = q[w].at_end
         /\ r[w].noint = q[w].noint
         /\ r[w].last_passed = q[w].last_passed
<1>1. CASE w = v
  BY <1>1, AdvanceFields
<1>2. CASE w # v
  BY <1>2, AdvanceFields
<1> QED BY <1>1, <1>2

\* Nothing happens in them to the life of a VM or to a struct of zeroes.
LEMMA AdvanceLives ==
  ASSUME NEW q \in [VM -> Struct], NEW v \in VM, NEW a, Lives(q, a)
  PROVE  /\ v \notin Quaint \ a => Lives(Advance(q, v), a)
         /\ Lives(EndWait(q, v), a)
<1>1. Life(Advance(q, v)[v]) /\ Life(EndWait(q, v)[v])
  BY AdvanceFields DEF Lives, Life
<1>2. q[v] = Zeroed => EndWait(q, v)[v] = Zeroed
  <2>1. EndWait(q, v)[v] = [q[v] EXCEPT !.insn = Run, !.wait = NotWaiting]
    BY DEF EndWait
  <2>2. ASSUME NEW s \in Struct, s.insn = Run, s.wait = NotWaiting
        PROVE  [s EXCEPT !.insn = Run, !.wait = NotWaiting] = s
    BY <2>2 DEF Struct
  <2>3. Zeroed.insn = Run /\ Zeroed.wait = NotWaiting
    BY DEF Zeroed
  <2> QED BY <2>1, <2>2, <2>3, ZeroedType
<1>3. \A w \in VM \ {v} : Advance(q, v)[w] = q[w] /\ EndWait(q, v)[w] = q[w]
  BY AdvanceFields
<1>4. \A c \in Quaint \ a : c \in VM
  BY DEF VM
<1> QED BY <1>1, <1>2, <1>3, <1>4 DEF Lives

\* The poll keeps everybody's life.
LEMMA PollLives ==
  ASSUME NEW ch \in Seq(VM), NEW q \in [VM -> Struct], NEW t, NEW a,
         Lives(q, a), Poll(ch, q, t)
  PROVE  Lives(qvm', a)
<1>1. ASSUME NEW i \in 1..(Len(ch) - 1), qvm' = EndWait(q, ch[i])
      PROVE  Lives(qvm', a)
  <2>1. ch[i] \in VM
    BY ElementOfSeq
  <2> QED BY <1>1, <2>1, AdvanceLives
<1> QED BY <1>1, PollCases

\* Replacing one struct.
LEMMA ReplaceLives ==
  ASSUME NEW q \in [VM -> Struct], NEW v \in VM, NEW z \in Struct, Life(z),
         NEW a, NEW b, Lives(q, a),
         \/ b = a /\ v \notin Quaint \ a
         \/ b = a \cup {v}
         \/ b = a \ {v} /\ z = Zeroed
  PROVE  Lives([q EXCEPT ![v] = z], b)
<1>1. \A w \in VM : [q EXCEPT ![v] = z][w] = IF w = v THEN z ELSE q[w]
  OBVIOUS
<1>2. \A c \in Quaint \ b : c \in VM /\ (c = v => z = Zeroed)
                            /\ (c # v => c \in Quaint \ a)
  BY DEF VM
<1> QED BY <1>1, <1>2 DEF Lives

\* What the end of the function of the running VM leaves behind: the VM that
\* a * had resumed is freed, the one that a wait had resumed is marked.
Popped(q, t) ==
  LET v == Running
      p == chain[Len(chain) - 1] IN
  /\ p \in VM /\ v \in VM /\ v \in alive /\ p # v
  /\ Poll(SubSeq(chain, 1, Len(chain) - 1), q, t)
  /\ \A w \in VM \ {v, p} : q[w] = qvm[w]
  /\ q[p].insn = Run
  /\ q[p].frames = qvm[p].frames
  /\ q[p].at_start = qvm[p].at_start
  /\ q[p].at_end = qvm[p].at_end
  /\ q[p].noint = qvm[p].noint
  /\ q[p].last_passed = qvm[p].last_passed
  /\ \/ /\ qvm[p].insn.op = "RTE"
        /\ alive' = alive \ {v}
        /\ mem' = IF qvm[p].insn.src \in Var
                  THEN [mem EXCEPT ![qvm[p].insn.src] = Null]
                  ELSE mem
        /\ q[v] = Zeroed
        /\ q[p].wait = qvm[p].wait
     \/ /\ qvm[p].insn.op = "WAIT"
        /\ UNCHANGED <<mem, alive>>
        /\ q[v].at_end /\ q[v].frames = <<>>
        /\ q[v].last_passed = NoLabel
        /\ q[v].insn = qvm[v].insn /\ q[v].wait = qvm[v].wait
        /\ q[v].at_start = qvm[v].at_start
        /\ q[p].wait = NotWaiting

LEMMA PopFields ==
  ASSUME TypeOK, Inv, NEW t, Len(chain) > 1, ReturnToRte(t) \/ ReturnToWait(t)
  PROVE  \E q \in [VM -> Struct] : Popped(q, t)
<1> DEFINE v == Running
           p == chain[Len(chain) - 1]
           n == Len(chain)
<1>1. v \in VM /\ qvm[v] \in Struct /\ qvm \in [VM -> Struct] /\ n \in Nat
  BY RunningType DEF TypeOK
<1>2. n - 1 \in 1..n /\ n \in 2..n
  BY <1>1
<1>3. p \in VM /\ v \in alive /\ p # v
  BY <1>1, <1>2, ChainType DEF Inv, Safe, Linked, Running
<1>4. CASE ReturnToRte(t)
  <2> DEFINE r == [qvm EXCEPT ![v] = Zeroed]
             q == Advance(r, p)
  <2>1. r \in [VM -> Struct] /\ r[v] = Zeroed /\ \A w \in VM \ {v} : r[w] = qvm[w]
    BY <1>1, ZeroedType
  <2>2. /\ Poll(SubSeq(chain, 1, n - 1), q, t)
        /\ qvm[p].insn.op = "RTE"
        /\ alive' = alive \ {v}
        /\ mem' = IF qvm[p].insn.src \in Var
                  THEN [mem EXCEPT ![qvm[p].insn.src] = Null] ELSE mem
    BY <1>4 DEF ReturnToRte
  <2> HIDE DEF r
  <2>3. q \in [VM -> Struct] /\ q[p] \in {Advance(r, p)[p], EndWait(r, p)[p]}
        /\ \A w \in VM \ {p} : q[w] = r[w]
    BY <1>3, <2>1, AdvanceFields
  <2>4. q[v] = Zeroed /\ \A w \in VM \ {v, p} : q[w] = qvm[w]
    BY <1>1, <1>3, <2>1, <2>3
  <2>5. /\ q[p].insn = Run /\ q[p].frames = qvm[p].frames
        /\ q[p].at_start = qvm[p].at_start /\ q[p].at_end = qvm[p].at_end
        /\ q[p].noint = qvm[p].noint /\ q[p].last_passed = qvm[p].last_passed
        /\ q[p].wait = qvm[p].wait
    BY <1>3, <2>1, AdvanceFields
  <2> HIDE DEF q, v, p, n
  <2> QED BY <1>1, <1>3, <2>2, <2>3, <2>4, <2>5 DEF Popped, v, p, n
<1>5. CASE ReturnToWait(t)
  <2> DEFINE s == qvm[v]
             z == [s EXCEPT !.at_end = TRUE, !.last_passed = NoLabel,
                            !.frames = <<>>]
             r == [qvm EXCEPT ![v] = z]
             q == EndWait(r, p)
  <2>1. /\ Poll(SubSeq(chain, 1, n - 1), q, t)
        /\ qvm[p].insn.op = "WAIT"
        /\ UNCHANGED <<mem, alive>>
    BY <1>5 DEF ReturnToWait
  <2>2. s \in Struct /\ <<>> \in Seq(Frame)
    BY <1>1
  <2> HIDE DEF s
  <2>3. /\ z \in Struct /\ z.at_end = TRUE /\ z.frames = <<>>
        /\ z.last_passed = NoLabel /\ z.insn = s.insn /\ z.wait = s.wait
        /\ z.at_start = s.at_start
    BY <2>2 DEF Struct
  <2> HIDE DEF z
  <2>4. r \in [VM -> Struct] /\ r[v] = z /\ \A w \in VM \ {v} : r[w] = qvm[w]
    BY <1>1, <2>3
  <2> HIDE DEF r
  <2>5. q \in [VM -> Struct] /\ \A w \in VM \ {p} : q[w] = r[w]
    BY <1>3, <2>4, AdvanceFields
  <2>6. q[v] = z /\ \A w \in VM \ {v, p} : q[w] = qvm[w]
    BY <1>1, <1>3, <2>4, <2>5
  <2>7. /\ q[p].insn = Run /\ q[p].frames = qvm[p].frames
        /\ q[p].at_start = qvm[p].at_start /\ q[p].at_end = qvm[p].at_end
        /\ q[p].noint = qvm[p].noint /\ q[p].last_passed = qvm[p].last_passed
        /\ q[p].wait = NotWaiting
    BY <1>3, <2>4, AdvanceFields
  <2> HIDE DEF q
  <2>8. /\ q[v].at_end /\ q[v].frames = <<>> /\ q[v].last_passed = NoLabel
        /\ q[v].insn = qvm[v].insn /\ q[v].wait = qvm[v].wait
        /\ q[v].at_start = qvm[v].at_start
    BY <2>3, <2>6 DEF s
  <2> HIDE DEF v, p, n
  <2> QED BY <1>1, <1>3, <2>1, <2>5, <2>6, <2>7, <2>8 DEF Popped, v, p, n
<1> QED BY <1>4, <1>5

\* A VM suspended at a * or wait has the life of any other, and the fields it
\* had before.
LEMMA SuspendedLife ==
  ASSUME TypeOK, LifeInv, NEW i \in Rtes \cup Waits, NEW z, At(i),
         z = [qvm[Running] EXCEPT
                !.insn = i,
                !.wait = IF i.op = "WAIT" THEN Flags(i) ELSE qvm[Running].wait]
  PROVE  /\ Life(z) /\ ~ z.at_end /\ z.at_end = qvm[Running].at_end
         /\ z.frames = qvm[Running].frames /\ z.at_start = qvm[Running].at_start
<1> DEFINE s == qvm[Running]
<1>1. s \in Struct /\ Life(s)
  BY RunningType DEF LifeInv, Lives, TypeOK
<1>2. /\ s.frames # <<>> /\ s.frames[Len(s.frames)].at = "body"
  <2>1. CASE s.insn = i
    <3>1. i # Run
      BY DEF Rtes, Waits, Run
    <3> QED BY <1>1, <2>1, <3>1 DEF Life
  <2>2. CASE Free(Running)
    BY <2>2 DEF Free, Top
  <2> QED BY <2>1, <2>2 DEF At
<1>3. z = [s EXCEPT !.insn = i,
                    !.wait = IF i.op = "WAIT" THEN Flags(i) ELSE s.wait]
  OBVIOUS
<1> HIDE DEF s
<1>4. z.frames = s.frames /\ z.at_start = s.at_start /\ z.at_end = s.at_end
  BY <1>1, <1>3 DEF Struct
<1>5. ~ s.at_end
  BY <1>1, <1>2 DEF Life
<1> QED BY <1>1, <1>2, <1>4, <1>5 DEF Life, s

\* Every instruction keeps everybody's life.
LEMMA LifeStep ==
  ASSUME TypeOK, Inv, LifeInv, Effect
  PROVE  LifeInv'
<1> DEFINE v == Running
<1>1. v \in VM /\ qvm \in [VM -> Struct] /\ chain \in Seq(VM)
      /\ chain # <<>> /\ Len(chain) \in 1..Len(chain) /\ v \notin Quaint \ alive
  <2>1. Len(chain) \in 1..Len(chain)
    BY RunningType
  <2> QED BY <2>1, RunningType, ChainAlive DEF TypeOK, Running
<1>2. ASSUME NEW ch \in Seq(VM), NEW q \in [VM -> Struct], NEW t,
             Lives(q, alive'), Poll(ch, q, t)
      PROVE  LifeInv'
  BY <1>2, PollLives DEF LifeInv
<1>3. ASSUME NEW z \in Struct, NEW t, LocalEffect(z, t)
      PROVE  LifeInv'
  <2>1. Lives([qvm EXCEPT ![v] = z], alive) /\ [qvm EXCEPT ![v] = z] \in [VM -> Struct]
    BY <1>1, <1>3, ReplaceLives DEF LocalEffect, LifeInv
  <2> QED BY <1>1, <1>2, <1>3, <2>1 DEF LocalEffect
<1>4. ASSUME NEW i, SkipEffect(i)
      PROVE  LifeInv'
  <2>1. Lives(Advance(qvm, v), alive) /\ Advance(qvm, v) \in [VM -> Struct]
    BY <1>1, AdvanceLives, AdvanceFields DEF LifeInv
  <2> QED BY <1>1, <1>2, <1>4, <2>1 DEF SkipEffect
<1>5. ASSUME NEW x \in Var, NEW c \in Quaint \ alive, NEW z \in Struct,
             CreateEffect(x, c, z)
      PROVE  LifeInv'
  <2> DEFINE i == [op |-> "MOV", dst |-> x, src |-> c]
             s == qvm[v]
             y == [s EXCEPT !.insn = i]
             r == [qvm EXCEPT ![v] = y]
  <2>1. c \in VM /\ v # c /\ i \in Insn
    BY <1>1 DEF VM, Insn
  <2>2. /\ Poll(chain, [qvm EXCEPT ![v].insn = i, ![c] = z], now)
        /\ alive' = alive \cup {c} /\ Free(v) /\ Life(z)
    BY <1>5 DEF CreateEffect, Created
  <2>3. s \in Struct /\ Life(s) /\ s.frames # <<>>
        /\ s.frames[Len(s.frames)].at = "body" /\ ~ s.at_end /\ ~ s.at_start
    BY <1>1, <2>2, Awake DEF Free, Top, LifeInv, Lives
  <2> HIDE DEF s, i
  <2>4. y \in Struct /\ y.insn = i /\ y.frames = s.frames /\ ~ y.at_end
        /\ ~ y.at_start
    BY <2>1, <2>3 DEF Struct
  <2> HIDE DEF y
  <2>5. Life(y)
    BY <2>3, <2>4 DEF Life
  <2>6. r \in [VM -> Struct] /\ Lives(r, alive)
    BY <1>1, <2>4, <2>5, ReplaceLives DEF LifeInv
  <2>7. [qvm EXCEPT ![v].insn = i, ![c] = z] = [r EXCEPT ![c] = z]
    BY <1>1, <2>1 DEF y, s
  <2> HIDE DEF r
  <2>8. Lives([r EXCEPT ![c] = z], alive \cup {c})
        /\ [r EXCEPT ![c] = z] \in [VM -> Struct]
    BY <2>1, <2>2, <2>6, ReplaceLives
  <2> QED BY <1>1, <1>2, <2>2, <2>7, <2>8
<1>6. ASSUME NEW x, Drop(x)
      PROVE  LifeInv'
  BY <1>1, <1>2, <1>6 DEF Drop, LifeInv
<1>7. ASSUME NEW i, TakeEffect(i)
      PROVE  LifeInv'
  <2> DEFINE c == Value(i.src)
             r == [qvm EXCEPT ![c] = Zeroed]
  <2>1. c \in VM /\ c \in alive /\ qvm[c].at_end
    BY <1>7 DEF TakeEffect, TypeOK, VM
  <2>2. Lives(r, alive \ {c}) /\ r \in [VM -> Struct]
    <3> HIDE DEF c
    <3>1. Lives(qvm, alive) /\ Life(Zeroed) /\ Zeroed \in Struct
      BY ZeroedType, FreshLife DEF LifeInv
    <3>2. Lives([qvm EXCEPT ![c] = Zeroed], alive \ {c})
      BY <1>1, <2>1, <3>1, ReplaceLives
    <3> QED BY <1>1, <3>1, <3>2
  <2>3. v # c
    <3>0. Len(chain) = 1 \/ Len(chain) \in 2..Len(chain)
      <4> DEFINE n == Len(chain)
      <4>1. n \in Nat \ {0}
        BY RunningType
      <4> HIDE DEF n
      <4>2. n = 1 \/ n \in 2..n
        BY <4>1
      <4> QED BY <4>2 DEF n
    <3>1. CASE Len(chain) = 1
      BY <2>1, <3>1, VmAssumption DEF Inv, Safe, Linked, Running, TypeOK
    <3>2. CASE Len(chain) \in 2..Len(chain)
      BY <2>1, <3>2 DEF Inv, Safe, Linked, Running
    <3> QED BY <3>0, <3>1, <3>2
  <2>4. v \notin Quaint \ (alive \ {c})
    BY <1>1, <2>3
  <2> HIDE DEF r, v
  <2>5. Lives(Advance(r, v), alive \ {c}) /\ Advance(r, v) \in [VM -> Struct]
    BY <1>1, <2>2, <2>4, AdvanceLives, AdvanceFields
  <2> QED BY <1>1, <1>2, <1>7, <2>5 DEF TakeEffect, r, v
<1>8. ASSUME NEW i \in Rtes \cup Waits, NEW z \in Struct, NEW t, PushEffect(i, z, t)
      PROVE  LifeInv'
  <2> DEFINE c == Value(i.src)
  <2>1. c \in VM /\ Poll(Append(chain, c), [qvm EXCEPT ![v] = z], t)
        /\ alive' = alive
    BY <1>8 DEF PushEffect, TypeOK, VM
  <2>2. Append(chain, c) \in Seq(VM)
    BY <2>1, ChainType
  <2>3. Life(z)
    BY <1>8, SuspendedLife DEF PushEffect
  <2>4. Lives([qvm EXCEPT ![v] = z], alive) /\ [qvm EXCEPT ![v] = z] \in [VM -> Struct]
    BY <1>1, <2>3, ReplaceLives DEF LifeInv
  <2> QED BY <1>2, <2>1, <2>2, <2>4
<1>9. ASSUME NEW t, PopEffect(t)
      PROVE  LifeInv'
  <2> DEFINE p == chain[Len(chain) - 1]
  <2>1. Len(chain) > 1 /\ (ReturnToRte(t) \/ ReturnToWait(t)) /\ qvm[v].insn = Run
    BY <1>9 DEF PopEffect
  <2>2. PICK q \in [VM -> Struct] :
          /\ p \in VM /\ v \in VM /\ v \in alive /\ p # v
          /\ Poll(SubSeq(chain, 1, Len(chain) - 1), q, t)
          /\ \A w \in VM \ {v, p} : q[w] = qvm[w]
          /\ q[p].insn = Run
          /\ q[p].frames = qvm[p].frames
          /\ q[p].at_start = qvm[p].at_start
          /\ q[p].at_end = qvm[p].at_end
          /\ q[p].last_passed = qvm[p].last_passed
          /\ \/ alive' = alive \ {v} /\ q[v] = Zeroed
             \/ /\ alive' = alive
                /\ q[v].at_end /\ q[v].frames = <<>>
                /\ q[v].last_passed = NoLabel
                /\ q[v].insn = qvm[v].insn
    BY <2>1, PopFields DEF Popped
  <2>3. Life(q[p])
    BY <2>2 DEF LifeInv, Lives, Life
  <2>4. Life(q[v])
    BY <2>1, <2>2, FreshLife DEF Life
  <2>5. p \notin Quaint \ alive
    <3>1. Len(chain) - 1 \in 1..Len(chain)
      BY <2>1, RunningType
    <3> QED BY <3>1, ChainAlive
  <2>6. \A c \in Quaint \ alive' : c \in VM /\ q[c] = Zeroed
    BY <2>2, <2>5 DEF LifeInv, Lives, VM
  <2>7. Lives(q, alive')
    BY <2>2, <2>3, <2>4, <2>6 DEF LifeInv, Lives
  <2> QED BY <1>2, <2>1, <2>2, <2>7, ChainType
<1>10. ASSUME NEW why, StopEffect(why)
       PROVE  LifeInv'
  BY <1>10 DEF StopEffect, Stop, LifeInv
<1>11. CASE Mov
  <2>1. Lives(Advance(qvm, v), alive) /\ Advance(qvm, v) \in [VM -> Struct]
    BY <1>1, AdvanceLives, AdvanceFields DEF LifeInv
  <2> QED BY <1>1, <1>2, <1>11, <2>1 DEF Mov
<1>12. ASSUME NEW x, NEW y, Copy(x, y)
       PROVE  LifeInv'
  BY <1>1, <1>2, <1>12 DEF Copy, LifeInv
<1>13. ASSUME NEW i \in Rtes \cup Waits, NEW z \in Struct, NEW t, KnotEffect(i, z, t)
       PROVE  LifeInv'
  <2>1. Life(z)
    BY <1>13, SuspendedLife DEF KnotEffect
  <2>2. Lives([qvm EXCEPT ![v] = z], alive)
    BY <1>1, <2>1, ReplaceLives DEF LifeInv
  <2> QED BY <1>13, <2>2 DEF KnotEffect, Knot, LifeInv
<1> QED
  BY <1>3, <1>4, <1>5, <1>6, <1>7, <1>8, <1>9, <1>10, <1>11, <1>12, <1>13
  DEF Effect

\* Life holds in every state of every behaviour.
LEMMA LifeHolds == Spec => []LifeInv
<1>1. Init => LifeInv
  <2> SUFFICES ASSUME Init PROVE LifeInv
    OBVIOUS
  <2>1. \A w \in VM : qvm[w] = IF w = Root
                               THEN [Zeroed EXCEPT !.frames = Entered("entry")]
                               ELSE Zeroed
    BY DEF Init
  <2>2. \A c \in Quaint : c \in VM /\ c # Root
    BY VmAssumption DEF VM
  <2> QED BY <2>1, <2>2, FreshLife DEF LifeInv, Lives
<1>2. TypeOK /\ GenInv /\ LifeInv /\ [Next]_vars => LifeInv'
  <2> SUFFICES ASSUME TypeOK, GenInv, LifeInv, [Next]_vars PROVE LifeInv'
    OBVIOUS
  <2>1. CASE Exec
    BY <2>1, StepEffect, LifeStep DEF Exec, GenInv
  <2>2. CASE Tick
    BY <2>2 DEF Tick, LifeInv
  <2>3. CASE UNCHANGED vars
    BY <2>3 DEF vars, LifeInv
  <2> QED BY <2>1, <2>2, <2>3 DEF Next, Ended
<1> QED BY <1>1, <1>2, TypeCorrect, InvHolds, PTL DEF Spec

-----------------------------------------------------------------------------
(***************************************************************************)
(* The query @start.                                                       *)
(***************************************************************************)

\* A poll changes only where a VM is and what it waits for.
LEMMA PollFields ==
  ASSUME NEW ch \in Seq(VM), NEW q \in [VM -> Struct], NEW t, Poll(ch, q, t),
         NEW w \in VM
  PROVE  /\ qvm'[w].frames = q[w].frames
         /\ qvm'[w].at_start = q[w].at_start
         /\ qvm'[w].at_end = q[w].at_end
         /\ qvm'[w].noint = q[w].noint
         /\ qvm'[w].last_passed = q[w].last_passed
<1>1. ASSUME NEW i \in 1..(Len(ch) - 1), qvm' = EndWait(q, ch[i])
      PROVE  /\ qvm'[w].frames = q[w].frames
             /\ qvm'[w].at_start = q[w].at_start
             /\ qvm'[w].at_end = q[w].at_end
             /\ qvm'[w].noint = q[w].noint
             /\ qvm'[w].last_passed = q[w].last_passed
  <2>1. ch[i] \in VM
    BY ElementOfSeq
  <2>2. qvm' \in {Advance(q, ch[i]), EndWait(q, ch[i])}
    BY <1>1
  <2> QED BY <2>1, <2>2, AdvanceKeeps
<1> QED BY <1>1, PollCases

\* A VM ends by returning to a wait, and then it has begun.
LEMMA EndStep ==
  ASSUME TypeOK, Inv, LifeInv, Effect, "bfun" \notin Features,
         NEW c \in alive \cap alive', ~ qvm[c].at_end, qvm'[c].at_end
  PROVE  ~ qvm'[c].at_start
<1> DEFINE v == Running
<1>1. v \in VM /\ qvm \in [VM -> Struct] /\ chain \in Seq(VM) /\ c \in VM
  BY RunningType DEF TypeOK, VM
<1>2. ASSUME NEW ch \in Seq(VM), NEW q \in [VM -> Struct], NEW t, Poll(ch, q, t),
             ~ q[c].at_end \/ ~ q[c].at_start
      PROVE  ~ qvm'[c].at_start
  BY <1>1, <1>2, PollFields
<1>3. ASSUME NEW z \in Struct, NEW t, LocalEffect(z, t)
      PROVE  ~ qvm'[c].at_start
  <2>1. [qvm EXCEPT ![v] = z] \in [VM -> Struct]
        /\ ~ [qvm EXCEPT ![v] = z][c].at_end
    BY <1>1, <1>3 DEF LocalEffect, LocalChange
  <2> QED BY <1>1, <1>2, <1>3, <2>1 DEF LocalEffect
<1>4. ASSUME NEW i, SkipEffect(i)
      PROVE  ~ qvm'[c].at_start
  <2>1. Advance(qvm, v) \in [VM -> Struct] /\ ~ Advance(qvm, v)[c].at_end
    BY ZenonT(40), <1>1, AdvanceFields, AdvanceKeeps
  <2> QED BY <1>1, <1>2, <1>4, <2>1 DEF SkipEffect
<1>5. ASSUME NEW x \in Var, NEW d \in Quaint \ alive, NEW z \in Struct,
             CreateEffect(x, d, z)
      PROVE  ~ qvm'[c].at_start
  <2> DEFINE i == [op |-> "MOV", dst |-> x, src |-> d]
             q == [qvm EXCEPT ![v].insn = i, ![d] = z]
  <2>1. i \in Insn /\ Poll(chain, q, now)
    BY <1>5 DEF Insn, CreateEffect, Created
  <2> HIDE DEF i
  <2>2. q \in [VM -> Struct]
    <3> DEFINE r == [qvm EXCEPT ![v].insn = i]
    <3>1. r \in [VM -> Struct] /\ q = [r EXCEPT ![d] = z]
      BY <1>1, <2>1 DEF Struct
    <3> HIDE DEF r, q
    <3> QED BY <3>1
  <2>3. ~ q[c].at_end
    <3> DEFINE s == qvm[v]
    <3>1. [s EXCEPT !.insn = i].at_end = s.at_end
      <4>1. s \in Struct
        BY <1>1
      <4> HIDE DEF s
      <4> QED BY <4>1 DEF Struct
    <3> QED BY <1>1, <3>1
  <2> HIDE DEF q
  <2> QED BY <1>1, <1>2, <2>1, <2>2, <2>3
<1>6. ASSUME NEW x, Drop(x)
      PROVE  ~ qvm'[c].at_start
  BY <1>1, <1>2, <1>6 DEF Drop
<1>7. ASSUME NEW i, TakeEffect(i)
      PROVE  ~ qvm'[c].at_start
  <2> DEFINE d == Value(i.src)
             r == [qvm EXCEPT ![d] = Zeroed]
  <2>1. d \in VM /\ c # d
    BY <1>7 DEF TakeEffect, TypeOK, VM
  <2>2. r \in [VM -> Struct] /\ ~ r[c].at_end
    BY <1>1, <2>1, ZeroedType
  <2> HIDE DEF r
  <2>3. Advance(r, v) \in [VM -> Struct] /\ ~ Advance(r, v)[c].at_end
    BY <1>1, <2>2, AdvanceFields, AdvanceKeeps
  <2> QED BY <1>1, <1>2, <1>7, <2>3 DEF TakeEffect, r
<1>8. ASSUME NEW i \in Rtes \cup Waits, NEW z \in Struct, NEW t,
             PushEffect(i, z, t)
      PROVE  ~ qvm'[c].at_start
  <2> DEFINE d == Value(i.src)
  <2>1. d \in VM /\ Poll(Append(chain, d), [qvm EXCEPT ![v] = z], t)
    BY <1>8 DEF PushEffect, TypeOK, VM
  <2>2. Append(chain, d) \in Seq(VM)
    BY <2>1, ChainType
  <2>3. ~ z.at_end
    BY <1>8, SuspendedLife DEF PushEffect
  <2>4. [qvm EXCEPT ![v] = z] \in [VM -> Struct]
        /\ ~ [qvm EXCEPT ![v] = z][c].at_end
    BY <1>1, <2>3
  <2> QED BY <1>2, <2>1, <2>2, <2>4
<1>9. ASSUME NEW t, PopEffect(t)
      PROVE  ~ qvm'[c].at_start
  <2> DEFINE p == chain[Len(chain) - 1]
  <2>1. Len(chain) > 1 /\ (ReturnToRte(t) \/ ReturnToWait(t))
        /\ ~ qvm[v].at_start
    BY <1>9 DEF PopEffect
  <2>2. PICK q \in [VM -> Struct] :
          /\ p \in VM
          /\ Poll(SubSeq(chain, 1, Len(chain) - 1), q, t)
          /\ \A w \in VM \ {v, p} : q[w] = qvm[w]
          /\ q[p].at_end = qvm[p].at_end
          /\ q[v] = Zeroed \/ q[v].at_start = qvm[v].at_start
    BY <2>1, PopFields DEF Popped
  <2>3. ~ q[c].at_end \/ ~ q[c].at_start
    BY <1>1, <2>1, <2>2 DEF Zeroed
  <2> QED BY <1>2, <2>1, <2>2, <2>3, ChainType
<1>10. ASSUME NEW why, StopEffect(why)
       PROVE  ~ qvm'[c].at_start
  BY <1>10 DEF StopEffect, Stop
<1>11. CASE Mov
  <2>1. Advance(qvm, v) \in [VM -> Struct] /\ ~ Advance(qvm, v)[c].at_end
    BY ZenonT(40), <1>1, AdvanceFields, AdvanceKeeps
  <2> QED BY <1>1, <1>2, <1>11, <2>1 DEF Mov
<1>12. ASSUME NEW x, NEW y, Copy(x, y)
       PROVE  ~ qvm'[c].at_start
  BY <1>1, <1>2, <1>12 DEF Copy
<1>13. ASSUME NEW i \in Rtes \cup Waits, NEW z \in Struct, NEW t,
              KnotEffect(i, z, t)
       PROVE  ~ qvm'[c].at_start
  <2>1. qvm' = [qvm EXCEPT ![v] = z]
    BY <1>13 DEF KnotEffect, Knot
  <2>2. z.at_end = qvm[v].at_end
    BY <1>13, SuspendedLife DEF KnotEffect
  <2> QED BY <1>1, <2>1, <2>2
<1> QED
  BY <1>3, <1>4, <1>5, <1>6, <1>7, <1>8, <1>9, <1>10, <1>11, <1>12, <1>13
  DEF Effect

\* For every program that applies ~ to functions of its own only: a quaint
\* whose function has returned does not answer q@start with true any more.
THEOREM EndedCorrect ==
  ASSUME "bfun" \notin Features
  PROVE  Spec => EndedNotAtStart
<1> DEFINE A == \A q \in alive \cap alive' :
                  ~ Query(qvm[q], "end") /\ Query(qvm'[q], "end")
                    => ~ Query(qvm'[q], "start")
<1>1. TypeOK /\ GenInv /\ LifeInv /\ [Next]_vars => [A]_vars
  <2> SUFFICES ASSUME TypeOK, GenInv, LifeInv, Next PROVE A \/ UNCHANGED vars
    OBVIOUS
  <2>1. CASE Exec
    <3>1. Inv /\ Effect
      BY <2>1, StepEffect DEF Exec, GenInv
    <3> QED BY <3>1, EndStep DEF Query
  <2>2. CASE Tick
    BY <2>2 DEF Tick
  <2> QED BY <2>1, <2>2 DEF Next, Ended
<1> QED
  BY <1>1, TypeCorrect, InvHolds, LifeHolds, PTL DEF Spec, EndedNotAtStart

=============================================================================
