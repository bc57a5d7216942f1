---------------------------- MODULE PromiseProofs ----------------------------
(***************************************************************************)
(* The refinement: in a private program whose functions neither nest noint *)
(* blocks nor return out of one, and which applies ~ to functions of its   *)
(* own, every step of exec() is a step of Promise.                         *)
(*                                                                         *)
(* The chain is the stack of the promise; what a VM is doing follows from  *)
(* its instruction and from what its variable holds (Owned); that a wait   *)
(* may end comes from the waiting flags (FlagsMatch), and that nobody      *)
(* above is in a noint block from the flags of the VMs (Blocks).           *)
(***************************************************************************)
EXTENDS PrivateProofs

\* The programs for which the promise is proved.
Promising == Private /\ Disciplined /\ "bfun" \notin Features

-----------------------------------------------------------------------------
(***************************************************************************)
(* The mapping.                                                            *)
(***************************************************************************)

\* A VM at no instruction, or about to store a new quaint, is idle.
LEMMA IdleActivity ==
  ASSUME NEW s, NEW m, s.insn = Run \/ s.insn.op = "MOV"
  PROVE  Activity(s, m) = Kept!Idle
BY DEF Activity, Run, Kept!Idle

\* What the poll leaves behind, when the instruction has left the chain ch
\* and the VMs q: an interrupt of the promise, and the rest as it was.
Interrupted(ch, q) ==
  /\ Kept!Interrupt(ch, Doing(q, mem'), Passing(q), Inside(q))
  /\ Started(qvm', alive') = Started(q, alive')
  /\ AtEnd(qvm', alive') = AtEnd(q, alive')
  /\ Passing(qvm') = Passing(q)
  /\ Inside(qvm') = Inside(q)

LEMMA PollPromise ==
  ASSUME Promising, NEW ch \in Seq(VM), NEW q \in [VM -> Struct],
         alive' \subseteq Quaint, NEW t, Linked(ch, q, alive'),
         Owned(ch, q, mem', alive'), Poll(ch, q, t), Blocks(qvm')
  PROVE  Interrupted(ch, q)
<1>1. \A w \in VM : /\ qvm'[w].frames = q[w].frames
                    /\ qvm'[w].at_start = q[w].at_start
                    /\ qvm'[w].at_end = q[w].at_end
                    /\ qvm'[w].noint = q[w].noint
                    /\ qvm'[w].last_passed = q[w].last_passed
  BY PollFields
<1>2. /\ Started(qvm', alive') = Started(q, alive')
      /\ AtEnd(qvm', alive') = AtEnd(q, alive')
  BY <1>1 DEF Started, AtEnd, Query, VM
<1>3. Passing(qvm') = Passing(q) /\ Inside(qvm') = Inside(q)
  BY <1>1 DEF Passing, Inside, InNoint, VM
<1>4. ASSUME chain' = ch, qvm' = q
      PROVE  Kept!Interrupt(ch, Doing(q, mem'), Passing(q), Inside(q))
  BY <1>4 DEF Kept!Interrupt
<1>5. ASSUME NEW i \in 1..(Len(ch) - 1), NEW u,
             Over(q[ch[i]].wait, q[ch[i + 1]], u),
             \A j \in (i + 1)..Len(ch) : ~ q[ch[j]].noint,
             chain' = SubSeq(ch, 1, i), qvm' = EndWait(q, ch[i])
      PROVE  Kept!Interrupt(ch, Doing(q, mem'), Passing(q), Inside(q))
  <2> DEFINE v == ch[i]
             c == ch[i + 1]
             d == Doing(q, mem')
  <2>1. v \in VM /\ i + 1 \in 2..Len(ch)
        /\ \A k \in 1..Len(ch) : ch[k] \in VM
    BY ElementOfSeq
  <2>2. c \in Quaint /\ c = mem'[q[v].insn.src] /\ Suspended(q[v])
    BY <2>1 DEF Linked, Owned, Follows
  <2>3. q[v].insn.src \in Var /\ q[v].insn \in Insn
    BY <2>1, <2>2 DEF Owned, OnOwn, Struct
  <2>4. Kept!MayEnd(d[v], Passing(q))
    <3>1. FlagsMatch(q[v]) /\ q[v].wait # NotWaiting
      BY <1>5, <2>1 DEF Owned, Over, NotWaiting
    <3>2. /\ q[v].insn.op = "WAIT" /\ q[v].wait.mode = q[v].insn.mode
          /\ q[v].insn.mode = "until" => q[v].wait.label = q[v].insn.arg
      BY <3>1 DEF FlagsMatch
    <3>3. \/ q[v].insn.mode = "for"
          \/ q[v].insn.mode = "until" /\ q[c].last_passed = q[v].insn.arg
      BY <1>5, <3>2 DEF Over
    <3>4. /\ d[v].kind = q[v].insn.mode /\ d[v].on = c
          /\ q[v].insn.mode = "until" => d[v].at = q[v].insn.arg
      BY <2>1, <2>2, <2>3, <3>2 DEF Doing, Activity
    <3>5. Passing(q)[c] = q[c].last_passed
      BY <2>2 DEF Passing
    <3> HIDE DEF c, v, d
    <3> QED BY <3>3, <3>4, <3>5 DEF Kept!MayEnd
  <2>5. ASSUME NEW j \in (i + 1)..Len(ch)
        PROVE  ch[j] \notin Inside(q)
    <3>1. j \in 2..Len(ch) /\ j \in 1..Len(ch)
      BY <2>1
    <3>2. ~ q[ch[j]].at_end /\ ~ q[ch[j]].noint /\ ch[j] \in VM
      BY <1>5, <2>1, <3>1 DEF Linked
    <3>3. ~ InNoint(qvm'[ch[j]])
      BY <1>1, <3>2 DEF Blocks, BlockInv
    <3> QED BY <1>1, <3>2, <3>3 DEF Inside, InNoint
  <2>6. Doing(qvm', mem') = Kept!Now(d, v, Kept!Idle)
    <3>1. /\ qvm'[v].insn = Run
          /\ \A w \in VM \ {v} : qvm'[w] = q[w]
      BY <1>5, <2>1, AdvanceFields
    <3>2. Activity(qvm'[v], mem') = Kept!Idle
      BY <3>1, IdleActivity
    <3> HIDE DEF v
    <3> QED BY <3>1, <3>2 DEF Doing, Kept!Now, VM
  <2> QED BY <1>5, <2>4, <2>5, <2>6 DEF Kept!Interrupt
<1> QED BY <1>2, <1>3, <1>4, <1>5, PollCases DEF Interrupted

\* When only a variable of a VM at no instruction changes, whoever is still
\* at an instruction does what he did.
LEMMA ReboundDoing ==
  ASSUME Private, TypeOK, OwnedInv, NEW y, NEW u, NEW r, NEW n, NEW b,
         Rebound(y, u, r, n, b), NEW w \in VM
  PROVE  Doing(r, n)[w] = IF r[w].insn = Run THEN Kept!Idle
                          ELSE Doing(qvm, mem)[w]
<1>1. CASE r[w].insn = Run
  BY <1>1, IdleActivity DEF Doing
<1>2. CASE r[w].insn # Run
  <2>1. r[w].insn = qvm[w].insn /\ u \in CanUse[y] /\ y \in Var
        /\ r[u].insn = Run /\ \A x \in Var \ {y} : n[x] = mem[x]
    BY <1>2 DEF Rebound
  <2>2. CASE qvm[w].insn.op = "MOV"
    BY <1>2, <2>1, <2>2, IdleActivity DEF Doing
  <2>3. CASE Suspended(qvm[w])
    <3>1. qvm[w].insn.src \in Var /\ w \in CanUse[qvm[w].insn.src]
      BY <2>3 DEF OwnedInv, Owned, OnOwn
    <3>2. n[qvm[w].insn.src] = mem[qvm[w].insn.src]
      BY <1>2, <2>1, <3>1 DEF Private
    <3>3. Activity(r[w], n) = Activity(qvm[w], mem)
      BY <2>1, <3>1, <3>2 DEF Activity
    <3> QED BY <1>2, <3>3 DEF Doing
  <2>4. qvm[w].insn \in Insn /\ qvm[w].insn # Run
    BY <1>2, <2>1 DEF TypeOK, Struct
  <2>5. qvm[w].insn.op \in {"MOV", "WAIT", "RTE"}
    BY <2>4 DEF Insn
  <2> QED BY <2>2, <2>3, <2>5 DEF Suspended
<1> QED BY <1>1, <1>2

-----------------------------------------------------------------------------
(***************************************************************************)
(* The steps.                                                              *)
(***************************************************************************)

\* What the running VM does by itself: it begins, passes a label, enters or
\* leaves a noint block, or nothing the promise speaks of.
LEMMA LocalPromise ==
  ASSUME Promising, TypeOK, Inv, OwnedInv, Inv', NEW z \in Struct, NEW t,
         LocalEffect(z, t)
  PROVE  Kept!Next
<1> DEFINE v == Running
           r == [qvm EXCEPT ![v] = z]
<1>1. v \in VM /\ qvm \in [VM -> Struct] /\ chain \in Seq(VM)
      /\ alive \subseteq Quaint
  BY RunningType DEF TypeOK
<1>2. /\ LocalChange(qvm[v], z) /\ qvm[v].insn = Run
      /\ Poll(chain, r, t) /\ UNCHANGED <<mem, alive>>
  BY DEF LocalEffect
<1>3. r \in [VM -> Struct] /\ \A w \in VM : r[w] = IF w = v THEN z ELSE qvm[w]
  BY <1>1
<1>4. Linked(chain, r, alive) /\ Owned(chain, r, mem, alive)
  BY LocalLinked, LocalOwned DEF Promising
<1> HIDE DEF r
<1>5. Interrupted(chain, r)
  BY <1>1, <1>2, <1>3, <1>4, PollPromise DEF Promising, Disciplined, Inv, Safe
<1>6. Doing(r, mem') = Doing(qvm, mem)
  <2>1. \A w \in VM : Activity(r[w], mem) = Activity(qvm[w], mem)
    BY <1>2, <1>3 DEF LocalChange, Activity
  <2> QED BY <1>2, <2>1 DEF Doing
<1>7. Doing(qvm, mem)[v] = Kept!Idle /\ Kept!Top = v
  BY <1>1, <1>2, IdleActivity DEF Doing, Kept!Top, Running
<1>8. AtEnd(r, alive) = AtEnd(qvm, alive)
  BY <1>1, <1>2, <1>3 DEF AtEnd, Query, LocalChange, VM
<1>9. Inside(r) = IF InNoint(z) THEN Inside(qvm) \cup {v} ELSE Inside(qvm) \ {v}
  BY <1>1, <1>3 DEF Inside
<1>10. CASE z.at_start = qvm[v].at_start /\ z.last_passed = qvm[v].last_passed
  <2>1. Started(r, alive) = Started(qvm, alive) /\ Passing(r) = Passing(qvm)
    BY <1>1, <1>3, <1>10 DEF Started, Passing, Query, VM
  <2>2. CASE InNoint(z)
    <3>1. Kept!Enter
      BY <1>2, <1>5, <1>6, <1>7, <1>8, <1>9, <2>1, <2>2 DEF Kept!Enter, Interrupted
    <3> QED BY <3>1 DEF Kept!Next
  <2>3. CASE ~ InNoint(z)
    <3>1. Kept!Leave
      BY <1>2, <1>5, <1>6, <1>7, <1>8, <1>9, <2>1, <2>3 DEF Kept!Leave, Interrupted
    <3> QED BY <3>1 DEF Kept!Next
  <2> QED BY <2>2, <2>3
<1>11. ASSUME InNoint(z) = InNoint(qvm[v])
       PROVE  Inside(r) = Inside(qvm)
  BY <1>1, <1>3, <1>11 DEF Inside
<1>12. CASE /\ ~ z.at_start /\ z.last_passed = qvm[v].last_passed
            /\ InNoint(z) = InNoint(qvm[v])
  <2>1. Passing(r) = Passing(qvm)
    BY <1>3, <1>12 DEF Passing, VM
  <2>2. Started(r, alive) = Started(qvm, alive) \cup ({v} \ {Root})
    <3>1. v \in alive \cup {Root}
      BY <1>1, RunningType, ChainAlive DEF Running, VM
    <3> QED BY <1>1, <1>3, <1>12, <3>1, VmAssumption DEF Started, Query, VM
  <2>3. Kept!Begin
    BY <1>2, <1>5, <1>6, <1>7, <1>8, <1>11, <1>12, <2>1, <2>2
    DEF Kept!Begin, Interrupted
  <2> QED BY <2>3 DEF Kept!Next
<1>13. CASE /\ z.at_start = qvm[v].at_start /\ z.last_passed \in Label
            /\ InNoint(z) = InNoint(qvm[v])
  <2>1. Started(r, alive) = Started(qvm, alive)
    BY <1>1, <1>3, <1>13 DEF Started, Query, VM
  <2>2. Passing(r) = Kept!Passed(z.last_passed)
    BY <1>3, <1>7 DEF Passing, Kept!Passed, VM
  <2>3. Kept!Pass(z.last_passed)
    BY <1>2, <1>5, <1>6, <1>7, <1>8, <1>11, <1>13, <2>1, <2>2
    DEF Kept!Pass, Interrupted
  <2> QED BY <1>13, <2>3 DEF Kept!Next
<1> QED BY <1>2, <1>10, <1>12, <1>13 DEF LocalChange
\* A * or wait with nothing to do, and a handle that is lost.
LEMMA SkipPromise ==
  ASSUME Promising, TypeOK, Inv, OwnedInv, Inv', NEW i \in Rtes \cup Waits,
         SkipEffect(i)
  PROVE  Kept!Next
<1>1. /\ qvm \in [VM -> Struct] /\ chain \in Seq(VM) /\ alive \subseteq Quaint
      /\ Linked(chain, qvm, alive) /\ Owned(chain, qvm, mem, alive)
  BY DEF TypeOK, Inv, Safe, OwnedInv
<1>2. Poll(chain, qvm, now) /\ UNCHANGED <<mem, alive>>
  BY SkipIdle DEF SkipEffect, Promising
<1>3. Interrupted(chain, qvm)
  BY <1>1, <1>2, PollPromise DEF Promising, Disciplined, Inv, Safe
<1>4. Kept!Other
  BY <1>2, <1>3 DEF Kept!Other, Interrupted
<1> QED BY <1>4 DEF Kept!Next

LEMMA DropPromise ==
  ASSUME Promising, TypeOK, Inv, OwnedInv, Inv', NEW x \in Var, Drop(x)
  PROVE  Kept!Next
<1>1. /\ qvm \in [VM -> Struct] /\ chain \in Seq(VM) /\ alive \subseteq Quaint
      /\ Linked(chain, qvm, alive)
  BY DEF TypeOK, Inv, Safe
<1>2. Poll(chain, qvm, now) /\ alive' = alive /\ qvm[Running].insn = Run
  BY DEF Drop, Free
<1>3. Owned(chain, qvm, mem', alive') /\ Rebound(x, Running, qvm, mem', alive')
  BY DropOwned DEF Promising
<1>4. Interrupted(chain, qvm)
  BY <1>1, <1>2, <1>3, PollPromise DEF Promising, Disciplined, Inv, Safe
<1>5. Doing(qvm, mem') = Doing(qvm, mem)
  <2>1. ASSUME NEW w \in VM
        PROVE  Doing(qvm, mem')[w] = Doing(qvm, mem)[w]
    <3>1. CASE qvm[w].insn = Run
      BY <3>1, IdleActivity DEF Doing
    <3>2. CASE qvm[w].insn # Run
      BY <1>3, <3>2, ReboundDoing DEF Promising
    <3> QED BY <3>1, <3>2
  <2> QED BY <2>1 DEF Doing
<1>6. Kept!Other
  BY <1>2, <1>4, <1>5 DEF Kept!Other, Interrupted
<1> QED BY <1>6 DEF Kept!Next

\* The MOV of a new quaint into its variable.
LEMMA MovPromise ==
  ASSUME Promising, TypeOK, Inv, OwnedInv, Inv', Mov
  PROVE  Kept!Next
<1> DEFINE v == Running
           q == Advance(qvm, v)
<1>1. /\ v \in VM /\ qvm \in [VM -> Struct] /\ chain \in Seq(VM)
      /\ alive \subseteq Quaint
  BY RunningType DEF TypeOK
<1>2. Poll(chain, q, now) /\ alive' = alive /\ qvm[v].insn.op = "MOV"
  BY DEF Mov
<1>3. /\ Owned(chain, q, mem', alive') /\ Linked(chain, q, alive')
      /\ Rebound(qvm[v].insn.dst, v, q, mem', alive')
  BY MovOwned DEF Promising
<1>4. /\ q \in [VM -> Struct] /\ q[v].insn = Run
      /\ \A w \in VM \ {v} : q[w] = qvm[w]
      /\ \A w \in VM : /\ q[w].frames = qvm[w].frames
                        /\ q[w].at_start = qvm[w].at_start
                        /\ q[w].at_end = qvm[w].at_end
                        /\ q[w].last_passed = qvm[w].last_passed
  <2>1. /\ q \in [VM -> Struct] /\ q[v].insn = Run
        /\ \A w \in VM \ {v} : q[w] = qvm[w]
    BY <1>1, AdvanceFields
  <2>2. ASSUME NEW w \in VM
        PROVE  /\ q[w].frames = qvm[w].frames
               /\ q[w].at_start = qvm[w].at_start
               /\ q[w].at_end = qvm[w].at_end
               /\ q[w].last_passed = qvm[w].last_passed
    BY <1>1, AdvanceKeeps
  <2> HIDE DEF q
  <2> QED BY <2>1, <2>2
<1> HIDE DEF q
<1>5. Interrupted(chain, q)
  BY <1>1, <1>2, <1>3, <1>4, PollPromise DEF Promising, Disciplined, Inv, Safe
<1>6. Doing(q, mem') = Doing(qvm, mem)
  <2>1. ASSUME NEW w \in VM
        PROVE  Doing(q, mem')[w] = Doing(qvm, mem)[w]
    <3>1. CASE q[w].insn = Run
      <4>1. qvm[w].insn = Run \/ qvm[w].insn.op = "MOV"
        BY <1>2, <1>4, <3>1
      <4> QED BY <3>1, <4>1, IdleActivity DEF Doing
    <3>2. CASE q[w].insn # Run
      BY <1>3, <3>2, ReboundDoing DEF Promising
    <3> QED BY <3>1, <3>2
  <2> QED BY <2>1 DEF Doing
<1>7. /\ Started(q, alive) = Started(qvm, alive)
      /\ AtEnd(q, alive) = AtEnd(qvm, alive)
      /\ Passing(q) = Passing(qvm)
      /\ Inside(q) = Inside(qvm)
  BY <1>1, <1>4 DEF Started, AtEnd, Passing, Inside, InNoint, Query, VM
<1>8. Kept!Other
  BY <1>2, <1>5, <1>6, <1>7 DEF Kept!Other, Interrupted
<1> QED BY <1>8 DEF Kept!Next

\* The creation of a quaint.
LEMMA CreatePromise ==
  ASSUME Promising, TypeOK, Inv, LifeInv, OwnedInv, Inv', TypeOK',
         NEW x \in Var, NEW c \in Quaint \ alive, NEW z \in Struct,
         CreateEffect(x, c, z)
  PROVE  Kept!Next
<1> DEFINE v == Running
           r == WithNew(x, c, z)
<1>1. /\ v \in VM /\ qvm \in [VM -> Struct] /\ chain \in Seq(VM)
      /\ alive \subseteq Quaint /\ alive' \subseteq Quaint /\ c \in VM
  BY RunningType DEF TypeOK, VM
<1>2. /\ qvm[v].insn = Run
      /\ z.insn = Run /\ z.last_passed = NoLabel /\ z.at_start /\ ~ InNoint(z)
      /\ alive' = alive \cup {c} /\ mem' = mem /\ Poll(chain, r, now)
  BY DEF CreateEffect, Created, WithNew, Free
<1>3. /\ r \in [VM -> Struct] /\ r[c] = z /\ c # v
      /\ r[v].insn.op = "MOV"
      /\ r[v].at_end = qvm[v].at_end /\ r[v].at_start = qvm[v].at_start
      /\ r[v].frames = qvm[v].frames /\ r[v].last_passed = qvm[v].last_passed
      /\ \A w \in VM \ {c, v} : r[w] = qvm[w]
  <2>1. /\ c \in VM /\ c # Running
        /\ r \in [VM -> Struct] /\ r[c] = z
        /\ r[Running].insn = [op |-> "MOV", dst |-> x, src |-> c]
        /\ r[Running].at_end = qvm[Running].at_end
        /\ r[Running].at_start = qvm[Running].at_start
        /\ r[Running].frames = qvm[Running].frames
        /\ r[Running].last_passed = qvm[Running].last_passed
        /\ r[Running].wait = qvm[Running].wait
        /\ \A w \in VM \ {c, Running} : r[w] = qvm[w]
    BY WithNewFields
  <2> HIDE DEF r
  <2> QED BY <2>1
<1>4. Owned(chain, r, mem', alive') /\ Linked(chain, r, alive')
  BY CreateOwned
<1> HIDE DEF r
<1>6. Interrupted(chain, r)
  BY <1>1, <1>2, <1>3, <1>4, PollPromise
  DEF Promising, Disciplined, Inv, Safe
<1>7. qvm[c] = Zeroed
  BY DEF LifeInv, Lives
<1>8. Doing(r, mem') = Doing(qvm, mem)
  <2>1. Activity(r[c], mem) = Activity(qvm[c], mem)
    BY <1>2, <1>3, <1>7, IdleActivity DEF Zeroed
  <2>2. Activity(r[v], mem) = Activity(qvm[v], mem)
    BY <1>2, <1>3, IdleActivity
  <2>3. \A w \in VM : Activity(r[w], mem) = Activity(qvm[w], mem)
    BY <1>3, <2>1, <2>2
  <2> QED BY <1>2, <2>3 DEF Doing
<1>9. Doing(qvm, mem)[v] = Kept!Idle /\ Kept!Top = v
  BY <1>1, <1>2, IdleActivity DEF Doing, Kept!Top, Running
<1>10. Started(r, alive') = Started(qvm, alive)
  <2>1. \A q \in alive : r[q].at_start = qvm[q].at_start /\ q # c
    BY <1>1, <1>3 DEF VM
  <2> QED BY <1>2, <1>3, <2>1 DEF Started, Query
<1>11. AtEnd(r, alive') = IF z.at_end THEN AtEnd(qvm, alive) \cup {c}
                          ELSE AtEnd(qvm, alive)
  <2>1. \A q \in alive : r[q].at_end = qvm[q].at_end /\ q # c
    BY <1>1, <1>3 DEF VM
  <2> QED BY <1>2, <1>3, <2>1 DEF AtEnd, Query
<1>12. Passing(r) = Passing(qvm)
  <2>1. \A q \in Quaint : r[q].last_passed = qvm[q].last_passed
    BY <1>2, <1>3, <1>7 DEF Zeroed, VM
  <2> QED BY <2>1 DEF Passing
<1>13. Inside(r) = Inside(qvm)
  <2>1. ~ InNoint(r[c]) /\ ~ InNoint(qvm[c])
    BY <1>2, <1>3, <1>7, FreshBlocks
  <2>2. InNoint(r[v]) = InNoint(qvm[v])
    BY <1>3 DEF InNoint
  <2> QED BY <1>3, <2>1, <2>2 DEF Inside
<1>14. Kept!Create(c, z.at_end)
  BY <1>1, <1>2, <1>6, <1>8, <1>9, <1>10, <1>11, <1>12, <1>13
  DEF Kept!Create, Interrupted
<1>15. c \in Quaint /\ z.at_end \in BOOLEAN
  BY DEF Struct
<1> QED BY <1>14, <1>15 DEF Kept!Next

\* The taking of an ended quaint.
LEMMA TakePromise ==
  ASSUME Promising, TypeOK, Inv, LifeInv, OwnedInv, Inv', NEW i \in Rtes,
         TakeEffect(i)
  PROVE  Kept!Next
<1> DEFINE v == Running
           c == Value(i.src)
           r == [qvm EXCEPT ![c] = Zeroed]
<1>1. /\ v \in VM /\ qvm \in [VM -> Struct] /\ chain \in Seq(VM)
      /\ alive \subseteq Quaint
  BY RunningType DEF TypeOK
<1>2. At(i) /\ c \in alive /\ qvm[c].at_end /\ alive' = alive \ {c}
      /\ Poll(chain, Advance(r, v), now)
  BY DEF TakeEffect
<1>3. /\ Advance(r, v) = r
      /\ Owned(chain, r, mem', alive')
      /\ Rebound(i.src, v, r, mem', alive')
  BY TakeOwned DEF Promising
<1>4. c \in VM /\ c \in Quaint /\ \A k \in 1..Len(chain) : chain[k] # c
  BY <1>1, <1>2, ChainUnended DEF VM
<1>5. qvm[v].insn = Run
  BY <1>2, AtPrivate DEF Promising
<1>6. Life(qvm[c])
  BY <1>4 DEF LifeInv, Lives
<1> HIDE DEF c
<1>7. r \in [VM -> Struct] /\ \A w \in VM : r[w] = IF w = c THEN Zeroed ELSE qvm[w]
  BY <1>1, <1>4, ZeroedType
<1>8. Linked(chain, r, alive')
  BY <1>2, <1>4, OtherLinked
<1> HIDE DEF r
<1>9. Interrupted(chain, r)
  BY <1>1, <1>2, <1>3, <1>7, <1>8, PollPromise
  DEF Promising, Disciplined, Inv, Safe
<1>10. qvm[c].insn = Run /\ qvm[c].frames = <<>> /\ qvm[c].last_passed = NoLabel
  BY <1>2, <1>6 DEF Life
<1>11. Doing(r, mem') = Doing(qvm, mem)
  <2>1. ASSUME NEW w \in VM
        PROVE  Doing(r, mem')[w] = Doing(qvm, mem)[w]
    <3>1. r[w].insn = Run => qvm[w].insn = Run
      BY <1>7, <1>10
    <3>2. CASE r[w].insn = Run
      BY <3>1, <3>2, IdleActivity DEF Doing
    <3>3. CASE r[w].insn # Run
      BY <1>3, <3>3, ReboundDoing DEF Promising
    <3> QED BY <3>2, <3>3
  <2> QED BY <2>1 DEF Doing
<1>12. Doing(qvm, mem)[v] = Kept!Idle /\ Kept!Top = v
  BY <1>1, <1>5, IdleActivity DEF Doing, Kept!Top, Running
<1>13. /\ Started(r, alive') = Started(qvm, alive) \ {c}
       /\ AtEnd(r, alive') = AtEnd(qvm, alive) \ {c}
       /\ c \in AtEnd(qvm, alive)
  BY <1>1, <1>2, <1>7 DEF Started, AtEnd, Query, VM
<1>14. Passing(r) = Passing(qvm)
  BY <1>7, <1>10 DEF Passing, Zeroed, VM
<1>15. Inside(r) = Inside(qvm)
  BY <1>7, <1>10 DEF Inside, InNoint, Zeroed
<1>16. Kept!Take(c)
  BY <1>2, <1>9, <1>11, <1>12, <1>13, <1>14, <1>15 DEF Kept!Take, Interrupted
<1> QED BY <1>4, <1>16 DEF Kept!Next
\* What a VM at instruction i is doing is a resumption of what i names.
LEMMA ResumptionType ==
  ASSUME NEW i \in Rtes \cup Waits, NEW m, i.src \in Var, m[i.src] \in Quaint,
         NEW z, z.insn = i
  PROVE  /\ Activity(z, m) \in Kept!Resumption
         /\ Activity(z, m).on = m[i.src]
<1>1. CASE i \in Rtes
  BY <1>1 DEF Rtes, Activity, Kept!Resumption
<1>2. CASE i \in Waits
  <2>1. i.op = "WAIT" /\ \/ i.mode \in {"plain", "for"}
                         \/ i.mode = "until" /\ i.arg \in Label
    BY <1>2 DEF Waits, Insn, Run
  <2> QED BY <2>1 DEF Activity, Kept!Resumption
<1> QED BY <1>1, <1>2

\* A resumption.
LEMMA PushPromise ==
  ASSUME Promising, TypeOK, Inv, OwnedInv, Inv', NEW i \in Rtes \cup Waits,
         NEW z \in Struct, NEW t, PushEffect(i, z, t)
  PROVE  Kept!Next
<1> DEFINE v == Running
           c == Value(i.src)
           s == qvm[v]
           q == [qvm EXCEPT ![v] = z]
           ch == Append(chain, c)
           act == Activity(z, mem)
<1>1. /\ v \in VM /\ qvm \in [VM -> Struct] /\ chain \in Seq(VM) /\ s \in Struct
      /\ alive \subseteq Quaint
  BY RunningType DEF TypeOK
<1>2. /\ At(i) /\ c \in alive /\ ~ qvm[c].at_end
      /\ \A k \in 1..Len(chain) : chain[k] # c
      /\ z = [s EXCEPT !.insn = i,
                       !.wait = IF i.op = "WAIT" THEN Flags(i) ELSE s.wait]
      /\ Poll(ch, q, t) /\ UNCHANGED <<mem, alive>>
  BY DEF PushEffect
<1>3. /\ i.src \in Var /\ c = mem[i.src] /\ c \in Quaint
      /\ qvm[v].insn = Run \/ qvm[v].insn = i
  BY <1>1, <1>2, AtPrivate DEF Promising
<1>4. /\ z.insn = i /\ z.at_end = s.at_end /\ z.at_start = s.at_start
      /\ z.last_passed = s.last_passed /\ z.frames = s.frames
  <2> HIDE DEF s
  <2> QED BY <1>1, <1>2 DEF Struct
<1>5. Linked(ch, q, alive) /\ Owned(ch, q, mem, alive)
  BY LinkedPush, PushOwned DEF Promising
<1>6. ch \in Seq(VM)
  BY <1>3, ChainType DEF VM
<1>7. q \in [VM -> Struct] /\ \A w \in VM : q[w] = IF w = v THEN z ELSE qvm[w]
  BY <1>1
<1> HIDE DEF c, q, ch
<1>8. Interrupted(ch, q)
  BY <1>1, <1>2, <1>5, <1>6, <1>7, PollPromise
  DEF Promising, Disciplined, Inv, Safe
<1>9. act \in Kept!Resumption /\ act.on = c
  BY <1>3, <1>4, ResumptionType
<1>10. Doing(qvm, mem)[v] \in {Kept!Idle, act} /\ Kept!Top = v
  <2>1. CASE qvm[v].insn = Run
    BY <1>1, <2>1, IdleActivity DEF Doing, Kept!Top, Running
  <2>2. CASE qvm[v].insn = i
    <3>1. Activity(qvm[v], mem) = act
      BY <1>4, <2>2 DEF Activity
    <3> QED BY <1>1, <3>1 DEF Doing, Kept!Top, Running
  <2> QED BY <1>3, <2>1, <2>2
<1>11. Doing(q, mem') = Kept!Now(Doing(qvm, mem), v, act)
  BY <1>2, <1>7 DEF Doing, Kept!Now, VM
<1>12. /\ Started(q, alive) = Started(qvm, alive)
       /\ AtEnd(q, alive) = AtEnd(qvm, alive)
       /\ Passing(q) = Passing(qvm)
       /\ Inside(q) = Inside(qvm)
  BY <1>1, <1>4, <1>7 DEF Started, AtEnd, Passing, Inside, InNoint, Query, VM
<1>13. c \in alive \ AtEnd(qvm, alive) /\ ~ Kept!OnStack(c)
  BY <1>2 DEF AtEnd, Query, Kept!OnStack
<1> HIDE DEF act
<1>14. ch = Append(chain, act.on)
  BY <1>9 DEF ch
<1>15. Kept!Resume(act)
  BY <1>2, <1>8, <1>9, <1>10, <1>11, <1>12, <1>13, <1>14
  DEF Kept!Resume, Interrupted
<1> QED BY <1>9, <1>15 DEF Kept!Next

\* A return to the resumer.
LEMMA PopPromise ==
  ASSUME Promising, TypeOK, Inv, LifeInv, OwnedInv, Inv', TypeOK', NEW t,
         PopEffect(t)
  PROVE  Kept!Next
<1> DEFINE v == Running
           n == Len(chain)
           p == chain[n - 1]
           ch == SubSeq(chain, 1, n - 1)
<1>1. /\ n > 1 /\ qvm[v].insn = Run /\ Len(qvm[v].frames) = 1
      /\ ~ qvm[v].at_start /\ Top(v).noint = 0
      /\ ReturnToRte(t) \/ ReturnToWait(t)
  BY DEF PopEffect, Promising
<1>2. PICK q \in [VM -> Struct] : Popped(q, t)
  BY <1>1, PopFields
<1>3. /\ Owned(ch, q, mem', alive') /\ Linked(ch, q, alive')
      /\ Rebound(qvm[p].insn.src, p, q, mem', alive')
  BY <1>2, PopOwned DEF Promising
<1>4. /\ p \in VM /\ v \in VM /\ v \in alive /\ p # v
      /\ Poll(ch, q, t)
      /\ \A w \in VM \ {v, p} : q[w] = qvm[w]
      /\ q[p].insn = Run
      /\ q[p].frames = qvm[p].frames
      /\ q[p].at_start = qvm[p].at_start
      /\ q[p].at_end = qvm[p].at_end
      /\ q[p].last_passed = qvm[p].last_passed
      /\ q[v].frames = <<>> /\ q[v].last_passed = NoLabel
      /\ \/ /\ qvm[p].insn.op = "RTE"
            /\ alive' = alive \ {v}
            /\ q[v] = Zeroed
         \/ /\ qvm[p].insn.op = "WAIT"
            /\ alive' = alive
            /\ q[v].at_end
            /\ q[v].insn = qvm[v].insn
            /\ q[v].at_start = qvm[v].at_start
  BY <1>2 DEF Popped, Zeroed
<1>5. /\ ch \in Seq(VM) /\ alive \subseteq Quaint /\ alive' \subseteq Quaint
      /\ n \in Nat /\ chain[n] = v /\ v \in Quaint
  BY <1>1, <1>4, ChainType, RunningType DEF TypeOK, Running
<1> HIDE DEF n, p, ch, v
<1>6. Interrupted(ch, q)
  BY <1>3, <1>4, <1>5, PollPromise DEF Promising, Disciplined, Inv, Safe
<1>7. ~ qvm[v].at_end
  <2>1. n \in 2..Len(chain)
    BY <1>1, <1>5 DEF n
  <2> QED BY <1>5, <2>1 DEF Inv, Safe, Linked
<1>8. Doing(q, mem') = Kept!Now(Doing(qvm, mem), p, Kept!Idle)
  <2>1. ASSUME NEW w \in VM
        PROVE  Doing(q, mem')[w] = IF w = p THEN Kept!Idle
                                   ELSE Doing(qvm, mem)[w]
    <3>1. q[w].insn = Run => qvm[w].insn = Run \/ w = p
      BY <1>1, <1>4
    <3>2. CASE q[w].insn = Run
      <4>1. Doing(q, mem')[w] = Kept!Idle
        BY <3>2, IdleActivity DEF Doing
      <4>2. w # p => Doing(qvm, mem)[w] = Kept!Idle
        BY <3>1, <3>2, IdleActivity DEF Doing
      <4> QED BY <4>1, <4>2
    <3>3. CASE q[w].insn # Run
      <4>1. w # p
        BY <1>4, <3>3
      <4>2. Doing(q, mem')[w] = Doing(qvm, mem)[w]
        BY <1>3, <3>3, ReboundDoing DEF Promising
      <4> QED BY <4>1, <4>2
    <3> QED BY <3>2, <3>3
  <2> QED BY <2>1 DEF Doing, Kept!Now, VM
<1>9. /\ Doing(qvm, mem)[v] = Kept!Idle /\ Kept!Top = v /\ Kept!Resumer = p
      /\ ch = SubSeq(chain, 1, Len(chain) - 1) /\ Len(chain) > 1
  BY <1>1, <1>4, IdleActivity DEF Doing, Kept!Top, Kept!Resumer, Running, v, p, n, ch
<1>10. v \notin Inside(qvm) /\ v \in Started(qvm, alive)
  <2>1. \A k \in 1..Len(qvm[v].frames) : ~ (qvm[v].frames[k].noint > 0)
    BY <1>1 DEF Top
  <2> QED BY <1>1, <1>4, <2>1 DEF Inside, InNoint, Started, Query
<1>11. Inside(q) = Inside(qvm)
  <2>1. ~ InNoint(q[v]) /\ ~ InNoint(qvm[v])
    BY <1>4, <1>10 DEF Inside, InNoint
  <2> QED BY <1>4, <2>1 DEF Inside, InNoint
<1>12. Passing(q) = Kept!Passed(NoLabel)
  BY <1>4, <1>9 DEF Passing, Kept!Passed, VM
<1>13. CASE qvm[p].insn.op = "RTE"
  <2>1. alive' = alive \ {v} /\ q[v] = Zeroed
    BY <1>4, <1>13
  <2>2. Doing(qvm, mem)[p].kind = "run"
    BY <1>4, <1>13 DEF Doing, Activity
  <2>3. Started(q, alive') = Started(qvm, alive) \ {v}
    BY <1>4, <1>5, <2>1 DEF Started, Query, VM
  <2>4. AtEnd(q, alive') = AtEnd(qvm, alive)
    BY <1>4, <1>5, <1>7, <2>1 DEF AtEnd, Query, VM
  <2>5. Kept!Return
    BY <1>6, <1>8, <1>9, <1>10, <1>11, <1>12, <2>1, <2>2, <2>3, <2>4
    DEF Kept!Return, Interrupted
  <2> QED BY <2>5 DEF Kept!Next
<1>14. CASE qvm[p].insn.op = "WAIT"
  <2>1. alive' = alive /\ q[v].at_end /\ q[v].at_start = qvm[v].at_start
    BY <1>4, <1>14
  <2>2. Doing(qvm, mem)[p].kind # "run"
    <3>1. qvm[p].insn \in Insn
      BY <1>4 DEF TypeOK, Struct
    <3>2. qvm[p].insn.mode # "run"
      BY <1>14, <3>1 DEF Insn, Run
    <3> QED BY <1>4, <1>14, <3>2 DEF Doing, Activity
  <2>3. Started(q, alive') = Started(qvm, alive)
    BY <1>4, <1>5, <2>1 DEF Started, Query, VM
  <2>4. AtEnd(q, alive') = AtEnd(qvm, alive) \cup {v}
    BY <1>4, <1>5, <2>1 DEF AtEnd, Query, VM
  <2>5. Kept!Return
    BY <1>6, <1>8, <1>9, <1>10, <1>11, <1>12, <2>1, <2>2, <2>3, <2>4
    DEF Kept!Return, Interrupted
  <2> QED BY <2>5 DEF Kept!Next
<1> QED BY <1>4, <1>13, <1>14

-----------------------------------------------------------------------------
(***************************************************************************)
(* The theorem.                                                            *)
(***************************************************************************)

\* The program starts as the promise does.
LEMMA InitPromise ==
  ASSUME Init
  PROVE  Kept!Init
<1>1. \A w \in VM : /\ qvm[w].insn = Run /\ qvm[w].last_passed = NoLabel
                    /\ ~ InNoint(qvm[w])
  <2>1. \A w \in VM : qvm[w] = IF w = Root
                               THEN [Zeroed EXCEPT !.frames = Entered("entry")]
                               ELSE Zeroed
    BY DEF Init
  <2>2. ~ InNoint(Zeroed) /\ ~ InNoint([Zeroed EXCEPT !.frames = Entered("entry")])
    BY FreshBlocks DEF InNoint, Zeroed, Entered
  <2> QED BY <2>1, <2>2 DEF Zeroed
<1>2. Doing(qvm, mem) = [v \in {Root} \cup Quaint |-> Kept!Idle]
  BY <1>1, IdleActivity DEF Doing, VM
<1>3. Passing(qvm) = [q \in Quaint |-> NoLabel] /\ Inside(qvm) = {}
  BY <1>1 DEF Passing, Inside, VM
<1>4. Started(qvm, alive) = {} /\ AtEnd(qvm, alive) = {}
  BY DEF Init, Started, AtEnd
<1> QED BY <1>2, <1>3, <1>4 DEF Init, Kept!Init

\* Every step of exec() is a step of the promise, or none.
LEMMA StepPromise ==
  ASSUME Promising, TypeOK, Inv, LifeInv, OwnedInv, [Next]_vars, TypeOK', Inv'
  PROVE  [Kept!Next]_(Kept!pvars)
<1>1. ASSUME UNCHANGED <<chain, qvm, mem, alive>>
      PROVE  UNCHANGED Kept!pvars
  BY <1>1 DEF Kept!pvars
<1>2. CASE Exec
  <2>1. Effect
    BY <1>2, StepEffect DEF Exec
  <2>2. ASSUME NEW why, StopEffect(why)
        PROVE  UNCHANGED Kept!pvars
    BY <1>1, <2>2 DEF StopEffect, Stop
  <2>3. "copy" \notin Features
    BY DEF Promising, Private
  <2>4. ASSUME NEW i \in Rtes \cup Waits, NEW z \in Struct, NEW t,
               KnotEffect(i, z, t)
        PROVE  FALSE
    BY <2>4, NoKnot DEF Promising
  <2> QED
    BY <2>1, <2>2, <2>3, <2>4, LocalPromise, SkipPromise, CreatePromise,
       MovPromise, DropPromise, TakePromise, PushPromise, PopPromise
    DEF Effect
<1>3. CASE Tick
  BY <1>1, <1>3 DEF Tick
<1>4. CASE UNCHANGED vars
  BY <1>1, <1>4 DEF vars
<1> QED BY <1>2, <1>3, <1>4 DEF Next, Ended

\* For every private program that neither nests noint blocks nor returns out
\* of one, and that applies ~ to functions of its own only: the interpreter
\* keeps what a quaint promises.
THEOREM PromiseCorrect ==
  ASSUME Promising
  PROVE  Spec => PromiseKept
<1>1. Init => Kept!Init
  BY InitPromise
<1>2. TypeOK /\ Inv /\ LifeInv /\ OwnedInv /\ [Next]_vars /\ TypeOK' /\ Inv'
        => [Kept!Next]_(Kept!pvars)
  BY StepPromise
<1>3. Spec => [](OwnedInv /\ Inv)
  BY OwnedHolds DEF Promising
<1> QED
  BY <1>1, <1>2, <1>3, TypeCorrect, LifeHolds, PTL
  DEF Spec, PromiseKept, Kept!Spec
=============================================================================
