---------------------------- MODULE PrivateProofs ----------------------------
(***************************************************************************)
(* Proofs about private programs: those that keep every quaint in a        *)
(* variable of one function only, copy no handle and load none through a   *)
(* pointer.  In them no handle dangles, nobody becomes his own ancestor,   *)
(* and * and wait do what they promise.                                    *)
(***************************************************************************)
EXTENDS QvmProofs

\* No variable is shared between two VMs, and no handle is loaded through a
\* pointer or copied: a variable of a quaint type is assigned null or a new
\* quaint only, it is no argument or value of a function, and a local one is
\* declared with an initializer.
Private ==
  /\ \A x \in Var : \A u, v \in CanUse[x] : u = v
  /\ "deref" \notin Features
  /\ "copy" \notin Features

-----------------------------------------------------------------------------
(***************************************************************************)
(* The inductive invariant of private programs, as a predicate of the      *)
(* chain ch, the VMs q, the variables m and the allocated quaints a.       *)
(***************************************************************************)

\* HandlesValid, of the variables m
Handles(m, a) ==
  /\ \A x \in Var : m[x] \in a \cup {Null}
  /\ \A x, y \in Var : m[x] = m[y] /\ m[x] # Null => x = y

\* ... and of the temporaries: the quaint in one of them is in no variable and
\* in no other temporary.
Temporaries(q, m, a) ==
  \A v \in VM : Storing(q, v) =>
    /\ q[v].insn.dst \in Var /\ v \in CanUse[q[v].insn.dst]
    /\ q[v].insn.src \in a
    /\ \A x \in Var : m[x] # q[v].insn.src
    /\ \A w \in VM : Storing(q, w) /\ q[w].insn.src = q[v].insn.src => w = v

\* A VM that stays at a * or wait, in the chain or frozen, does so on a
\* variable of its own, which holds an unfinished quaint.
OnOwn(q, m, a) ==
  \A v \in VM : Suspended(q[v]) =>
    /\ q[v].insn.src \in Var /\ v \in CanUse[q[v].insn.src]
    /\ m[q[v].insn.src] \in a /\ ~ q[m[q[v].insn.src]].at_end

\* The waiting flags of a VM of struct s are those of its instruction.
FlagsMatch(s) ==
  /\ s.insn.op # "WAIT" => s.wait = NotWaiting
  /\ s.insn.op = "WAIT" =>
       /\ s.wait.mode = s.insn.mode
       /\ s.insn.mode = "for" => /\ s.insn.arg # 0
                                 /\ s.wait.interval = Interval(s.insn.arg)
       /\ s.insn.mode = "until" => s.wait.label = s.insn.arg

\* Whoever is resumed is in the variable of the resumer's instruction.
Follows(ch, q, m) ==
  \A k \in 1..(Len(ch) - 1) : ch[k + 1] = m[q[ch[k]].insn.src]

Owned(ch, q, m, a) ==
  /\ Handles(m, a)
  /\ Temporaries(q, m, a)
  /\ OnOwn(q, m, a)
  /\ \A v \in VM : FlagsMatch(q[v])
  /\ Follows(ch, q, m)

OwnedInv == Owned(chain, qvm, mem, alive)

-----------------------------------------------------------------------------
\* Owned is about the instructions, the waiting flags and the ends only.
LEMMA OwnedFields ==
  ASSUME NEW ch \in Seq(VM), NEW q, NEW r, NEW m, NEW a, a \subseteq Quaint,
         Owned(ch, q, m, a),
         \A w \in VM : /\ r[w].insn = q[w].insn
                       /\ r[w].wait = q[w].wait
                       /\ r[w].at_end = q[w].at_end
  PROVE  Owned(ch, r, m, a)
<1>1. OnOwn(r, m, a)
  <2> SUFFICES ASSUME NEW v \in VM, Suspended(r[v])
               PROVE  /\ r[v].insn.src \in Var /\ v \in CanUse[r[v].insn.src]
                      /\ m[r[v].insn.src] \in a
                      /\ ~ r[m[r[v].insn.src]].at_end
    BY DEF OnOwn
  <2>1. r[v].insn = q[v].insn
    OBVIOUS
  <2>2. /\ q[v].insn.src \in Var /\ v \in CanUse[q[v].insn.src]
        /\ m[q[v].insn.src] \in a /\ ~ q[m[q[v].insn.src]].at_end
    BY <2>1 DEF Owned, OnOwn, Suspended
  <2>3. m[q[v].insn.src] \in VM
    BY <2>2 DEF VM
  <2> QED BY <2>1, <2>2, <2>3
<1>2. \A v \in VM : FlagsMatch(r[v])
  BY DEF Owned, FlagsMatch
<1>3. Follows(ch, r, m)
  <2>1. \A k \in 1..(Len(ch) - 1) : ch[k] \in VM
    BY ElementOfSeq
  <2> QED BY <2>1 DEF Owned, Follows
<1>4. Temporaries(r, m, a)
  BY DEF Owned, Temporaries, Storing
<1> QED BY <1>1, <1>2, <1>3, <1>4 DEF Owned

\* The poll preserves the invariant: who gets control back waits no more.
LEMMA PollOwned ==
  ASSUME NEW ch \in Seq(VM), NEW q \in [VM -> Struct], NEW m, NEW a,
         a \subseteq Quaint, NEW t, Linked(ch, q, a), Owned(ch, q, m, a),
         Poll(ch, q, t)
  PROVE  Owned(chain', qvm', m, a)
<1>1. CASE chain' = ch /\ qvm' = q
  BY <1>1
<1>2. ASSUME NEW i \in 1..(Len(ch) - 1), chain' = SubSeq(ch, 1, i),
             qvm' = EndWait(q, ch[i])
      PROVE  Owned(chain', qvm', m, a)
  <2>1. Len(ch) \in Nat /\ i \in 1..Len(ch) /\ ch[i] \in VM
        /\ \A k \in 1..Len(ch) : ch[k] \in VM
    BY ElementOfSeq
  <2>2. Len(chain') = i /\ \A k \in 1..i : chain'[k] = ch[k]
    BY <1>2, <2>1, Prefix
  <2>3. /\ \A w \in VM \ {ch[i]} : qvm'[w] = q[w]
        /\ qvm'[ch[i]].insn = Run /\ qvm'[ch[i]].wait = NotWaiting
    BY <1>2, <2>1, AdvanceFields
  <2>4. \A w \in VM : qvm'[w].at_end = q[w].at_end
    BY <1>2, <2>1, AdvanceKeeps
  <2>5. OnOwn(qvm', m, a)
    <3> SUFFICES ASSUME NEW v \in VM, Suspended(qvm'[v])
                 PROVE  /\ qvm'[v].insn.src \in Var
                        /\ v \in CanUse[qvm'[v].insn.src]
                        /\ m[qvm'[v].insn.src] \in a
                        /\ ~ qvm'[m[qvm'[v].insn.src]].at_end
      BY DEF OnOwn
    <3>1. qvm'[v] = q[v] /\ Suspended(q[v])
      BY <2>3 DEF Suspended, Run
    <3>2. /\ q[v].insn.src \in Var /\ v \in CanUse[q[v].insn.src]
          /\ m[q[v].insn.src] \in a /\ ~ q[m[q[v].insn.src]].at_end
      BY <3>1 DEF Owned, OnOwn
    <3>3. m[q[v].insn.src] \in VM
      BY <3>2 DEF VM
    <3> QED BY <2>4, <3>1, <3>2, <3>3
  <2>6. \A v \in VM : FlagsMatch(qvm'[v])
    <3>1. FlagsMatch(qvm'[ch[i]])
      BY <2>3 DEF FlagsMatch, Run
    <3> QED BY <2>3, <3>1 DEF Owned
  <2>7. Follows(chain', qvm', m)
    <3>0. \A k \in 1..(i - 1) : chain'[k] = ch[k] /\ chain'[k + 1] = ch[k + 1]
      BY <2>1, <2>2
    <3> SUFFICES ASSUME NEW k \in 1..(i - 1)
                 PROVE  ch[k + 1] = m[qvm'[ch[k]].insn.src]
      BY <2>2, <3>0 DEF Follows
    <3>1. k \in 1..(Len(ch) - 1) /\ k \in 1..Len(ch) /\ k # i
      BY <2>1
    <3>2. qvm'[ch[k]] = q[ch[k]]
      BY <2>1, <2>3, <3>1 DEF Linked
    <3> QED BY <3>1, <3>2 DEF Owned, Follows
  <2>8. Temporaries(qvm', m, a)
    <3>1. \A w \in VM : Storing(qvm', w) => qvm'[w] = q[w] /\ Storing(q, w)
      BY <2>3 DEF Storing, Run
    <3> QED BY <3>1 DEF Owned, Temporaries
  <2> QED BY <2>5, <2>6, <2>7, <2>8 DEF Owned
<1> QED BY <1>1, <1>2, PollCases

\* In a private program the running VM executes a * or wait i on a variable
\* of its own.  It is at i again only if the quaint there is still
\* unfinished; otherwise it comes to i for the first time.
LEMMA AtPrivate ==
  ASSUME Private, TypeOK, OwnedInv, NEW i \in Rtes \cup Waits, At(i)
  PROVE  /\ i.src \in Var /\ Running \in CanUse[i.src]
         /\ Value(i.src) = mem[i.src] /\ mem[i.src] \in alive \cup {Null}
         /\ \/ qvm[Running].insn = Run
            \/ /\ qvm[Running].insn = i
               /\ mem[i.src] \in alive /\ ~ qvm[mem[i.src]].at_end
               /\ i.op = "WAIT" /\ i.mode = "for" => i.arg # 0
<1>1. Running \in VM
  BY RunningType
<1>2. i.op \in {"WAIT", "RTE"}
  BY DEF Rtes, Waits
<1>3. CASE qvm[Running].insn = i
  <2>1. i.src \in Var /\ Running \in CanUse[i.src]
        /\ mem[i.src] \in alive /\ ~ qvm[mem[i.src]].at_end
    BY <1>1, <1>2, <1>3 DEF OwnedInv, Owned, OnOwn, Suspended
  <2>2. i.op = "WAIT" /\ i.mode = "for" => i.arg # 0
    BY <1>1, <1>3 DEF OwnedInv, Owned, FlagsMatch
  <2> QED BY <1>3, <2>1, <2>2 DEF Value
<1>4. CASE Free(Running) /\ i.src \in Operands(Running)
  <2>1. i.src \in Var /\ Running \in CanUse[i.src]
    BY <1>4 DEF Operands, Private
  <2>2. mem[i.src] \in alive \cup {Null}
    BY <2>1 DEF OwnedInv, Owned, Handles
  <2> QED BY <1>4, <2>1, <2>2 DEF Free, Value
<1> QED BY <1>3, <1>4 DEF At

\* Advancing an ip that may advance anyway changes nothing.
LEMMA AdvanceRun ==
  ASSUME NEW q \in [VM -> Struct], NEW v \in VM, q[v].insn = Run
  PROVE  Advance(q, v) = q
<1> DEFINE s == q[v]
           z == [s EXCEPT !.insn = Run]
<1>1. s \in Struct /\ s.insn = Run
  OBVIOUS
<1> HIDE DEF s
<1>2. z = s
  BY <1>1 DEF Struct
<1>3. Advance(q, v) = [q EXCEPT ![v] = z]
  BY DEF Advance, s
<1> QED BY <1>2, <1>3 DEF s

-----------------------------------------------------------------------------
(***************************************************************************)
(* The parents are as they must be when the poll begins.                   *)
(***************************************************************************)

\* Linked is about the instructions and the ends of the VMs of the chain.
LEMMA LinkedFields ==
  ASSUME NEW ch \in Seq(VM), NEW q, NEW r, NEW a, NEW b, Linked(ch, q, a),
         \A k \in 1..Len(ch) : /\ r[ch[k]].at_end = q[ch[k]].at_end
                               /\ ch[k] \in a => ch[k] \in b,
         \A k \in 1..(Len(ch) - 1) : r[ch[k]].insn = q[ch[k]].insn
  PROVE  Linked(ch, r, b)
<1> DEFINE n == Len(ch)
<1>1. n \in Nat
  OBVIOUS
<1>2. /\ ch[1] = Root
      /\ \A i, j \in 1..n : ch[i] = ch[j] => i = j
      /\ \A i \in 2..n : ch[i] \in a /\ ~ q[ch[i]].at_end
      /\ \A i \in 1..(n - 1) : Suspended(q[ch[i]])
      /\ \A k \in 1..n : /\ r[ch[k]].at_end = q[ch[k]].at_end
                         /\ ch[k] \in a => ch[k] \in b
      /\ \A k \in 1..(n - 1) : r[ch[k]].insn = q[ch[k]].insn
  BY DEF Linked
<1> HIDE DEF n
<1>3. \A i \in 2..n : ch[i] \in b /\ ~ r[ch[i]].at_end
  BY <1>1, <1>2
<1>4. \A i \in 1..(n - 1) : Suspended(r[ch[i]])
  BY <1>1, <1>2 DEF Suspended
<1> QED BY <1>2, <1>3, <1>4 DEF Linked, n

\* A part of the chain that ends at a VM which is running or suspended.
LEMMA LinkedPrefix ==
  ASSUME NEW ch \in Seq(VM), NEW q, NEW a, Linked(ch, q, a),
         NEW i \in 1..Len(ch)
  PROVE  Linked(SubSeq(ch, 1, i), q, a)
<1> DEFINE n == Len(ch)
           c == SubSeq(ch, 1, i)
<1>1. n \in Nat /\ i \in 1..n /\ Len(c) = i /\ \A k \in 1..i : c[k] = ch[k]
  BY Prefix
<1>2. /\ ch[1] = Root
      /\ \A k, j \in 1..n : ch[k] = ch[j] => k = j
      /\ \A k \in 2..n : ch[k] \in a /\ ~ q[ch[k]].at_end
      /\ \A k \in 1..(n - 1) : Suspended(q[ch[k]])
  BY DEF Linked
<1> HIDE DEF n, c
<1>3. c[1] = Root /\ \A k, j \in 1..i : c[k] = c[j] => k = j
  BY <1>1, <1>2
<1>4. \A k \in 2..i : c[k] \in a /\ ~ q[c[k]].at_end
  BY <1>1, <1>2
<1>5. \A k \in 1..(i - 1) : Suspended(q[c[k]])
  BY <1>1, <1>2
<1>6. Linked(c, q, a)
  BY <1>1, <1>3, <1>4, <1>5 DEF Linked
<1> QED BY <1>6 DEF c

\* The chain grows by a quaint that is not in it.
LEMMA LinkedPush ==
  ASSUME TypeOK, Inv, NEW i \in Rtes \cup Waits, NEW z \in Struct, NEW t,
         PushEffect(i, z, t)
  PROVE  Linked(Append(chain, Value(i.src)), [qvm EXCEPT ![Running] = z], alive)
<1> DEFINE v == Running
           c == Value(i.src)
           s == qvm[v]
           n == Len(chain)
           q == [qvm EXCEPT ![v] = z]
           ch == Append(chain, c)
<1>1. v \in VM /\ n \in Nat \ {0} /\ v = chain[n] /\ qvm \in [VM -> Struct]
      /\ s \in Struct /\ \A k \in 1..n : chain[k] \in VM
  BY RunningType, ElementOfSeq DEF TypeOK, Running
<1>2. /\ c \in alive /\ ~ qvm[c].at_end
      /\ \A k \in 1..n : chain[k] # c
      /\ z = [s EXCEPT !.insn = i,
                       !.wait = IF i.op = "WAIT" THEN Flags(i) ELSE s.wait]
  BY DEF PushEffect
<1>3. c \in VM
  BY <1>2 DEF TypeOK, VM
<1>4. Len(ch) = n + 1 /\ ch[n + 1] = c /\ \A k \in 1..n : ch[k] = chain[k]
  BY <1>1, <1>3, AppendProperties DEF TypeOK
<1>5. \A w \in VM : q[w] = IF w = v THEN z ELSE qvm[w]
  BY <1>1
<1>6. Suspended(z) /\ z.at_end = s.at_end
  <2>1. i.op \in {"WAIT", "RTE"}
    BY DEF Rtes, Waits
  <2> HIDE DEF s
  <2>2. z.insn = i /\ z.at_end = s.at_end
    BY <1>1, <1>2 DEF Struct
  <2> QED BY <2>1, <2>2 DEF Suspended
<1>7. \A w \in VM : q[w].at_end = qvm[w].at_end
  BY <1>5, <1>6
<1>8. \A w \in VM : Suspended(qvm[w]) => Suspended(q[w])
  BY <1>5, <1>6
<1>9. Suspended(q[v])
  BY <1>1, <1>5, <1>6
<1>10. /\ chain[1] = Root
       /\ \A k, j \in 1..n : chain[k] = chain[j] => k = j
       /\ \A k \in 2..n : chain[k] \in alive /\ ~ qvm[chain[k]].at_end
       /\ \A k \in 1..(n - 1) : Suspended(qvm[chain[k]])
  BY DEF Inv, Safe, Linked
<1> HIDE DEF v, c, s, n, q, ch
<1>11. ch[1] = Root
  BY <1>1, <1>4, <1>10
<1>12. \A k, j \in 1..(n + 1) : ch[k] = ch[j] => k = j
  <2> SUFFICES ASSUME NEW k \in 1..(n + 1), NEW j \in 1..(n + 1), ch[k] = ch[j]
               PROVE  k = j
    OBVIOUS
  <2>1. (k \in 1..n \/ k = n + 1) /\ (j \in 1..n \/ j = n + 1)
    BY <1>1
  <2> QED BY <1>2, <1>4, <1>10, <2>1
<1>13. ASSUME NEW k \in 2..(n + 1)
       PROVE  ch[k] \in alive /\ ~ q[ch[k]].at_end
  <2>1. k \in 2..n \/ k = n + 1
    BY <1>1
  <2>2. k \in 2..n => ch[k] = chain[k] /\ ch[k] \in VM
    BY <1>1, <1>4
  <2> QED BY <1>2, <1>3, <1>4, <1>7, <1>10, <2>1, <2>2
<1>14. ASSUME NEW k \in 1..n
       PROVE  Suspended(q[ch[k]])
  <2>1. k \in 1..(n - 1) \/ k = n
    BY <1>1
  <2>2. ch[k] = chain[k] /\ ch[k] \in VM
    BY <1>1, <1>4
  <2> QED BY <1>1, <1>8, <1>9, <1>10, <2>1, <2>2
<1>15. (n + 1) - 1 = n
  BY <1>1
<1>16. Linked(ch, q, alive)
  BY <1>4, <1>11, <1>12, <1>13, <1>14, <1>15 DEF Linked
<1> QED BY <1>16 DEF ch, q, c, v

-----------------------------------------------------------------------------
(***************************************************************************)
(* The effects preserve the invariant up to the poll.                      *)
(***************************************************************************)

\* The VMs become r, the variables n, the allocated quaints b: one variable y
\* gets the handle in a temporary of its owner u, or none, or what it holds
\* ends, then u is at no instruction, and nobody takes up another.
Rebound(y, u, r, n, b) ==
  /\ y \in Var /\ u \in CanUse[y] /\ r[u].insn = Run
  /\ \A w \in VM : r[w].insn # Run => r[w].insn = qvm[w].insn
  /\ \A x \in Var \ {y} : n[x] = mem[x]
  /\ n[y] \in b \cup {Null}
  /\ \/ n[y] \in {mem[y], Null}
     \/ Storing(qvm, u) /\ n[y] = qvm[u].insn.src
  /\ \A c \in alive \ {mem[y]} : c \in b /\ r[c].at_end = qvm[c].at_end

\* Everybody else's handles are as they were.
LEMMA Rebind ==
  ASSUME Private, TypeOK, OwnedInv, NEW y, NEW u, NEW r, NEW n, NEW b,
         Rebound(y, u, r, n, b)
  PROVE  /\ Handles(n, b)
         /\ Temporaries(r, n, b)
         /\ OnOwn(r, n, b)
<1> DEFINE q == qvm
           m == mem
           a == alive
<1>0. /\ a \subseteq Quaint /\ Handles(m, a) /\ OnOwn(q, m, a)
      /\ Temporaries(q, m, a) /\ u \in VM
      /\ y \in Var /\ u \in CanUse[y] /\ r[u].insn = Run
      /\ \A w \in VM : r[w].insn # Run => r[w].insn = q[w].insn
      /\ \A x \in Var \ {y} : n[x] = m[x]
      /\ n[y] \in b \cup {Null}
      /\ \/ n[y] \in {m[y], Null}
         \/ Storing(q, u) /\ n[y] = q[u].insn.src
      /\ \A c \in a \ {m[y]} : c \in b /\ r[c].at_end = q[c].at_end
  BY VmAssumption DEF Rebound, OwnedInv, Owned, TypeOK
<1> HIDE DEF q, m, a
<1>1. Null \notin a
  BY <1>0, VmAssumption DEF VM
<1>2. ASSUME NEW x \in Var \ {y}
      PROVE  /\ n[x] = m[x] /\ (m[x] # Null => m[x] \in a \ {m[y]})
             /\ m[x] # Null => m[x] # n[y]
  <2>1. n[x] = m[x] /\ (m[x] # Null => m[x] \in a \ {m[y]})
    BY <1>0, <1>1 DEF Handles
  <2>2. Storing(q, u) => m[x] # q[u].insn.src
    BY <1>0 DEF Temporaries
  <2> QED BY <1>0, <2>1, <2>2
<1>3. Handles(n, b)
  <2>1. \A x \in Var : n[x] \in b \cup {Null}
    BY <1>0, <1>2
  <2>2. ASSUME NEW x \in Var, NEW z \in Var, n[x] = n[z], n[x] # Null
        PROVE  x = z
    <3>1. CASE x # y /\ z # y
      BY <1>0, <1>2, <2>2, <3>1 DEF Handles
    <3>2. CASE x = y /\ z # y
      BY <1>0, <1>2, <2>2, <3>2
    <3>3. CASE x # y /\ z = y
      BY <1>0, <1>2, <2>2, <3>3
    <3> QED BY <3>1, <3>2, <3>3
  <2> QED BY <2>1, <2>2 DEF Handles
<1>4. ASSUME NEW v \in VM, Suspended(r[v])
      PROVE  /\ r[v].insn.src \in Var /\ v \in CanUse[r[v].insn.src]
             /\ n[r[v].insn.src] \in b /\ ~ r[n[r[v].insn.src]].at_end
  <2> DEFINE s == q[v].insn.src
  <2>1. r[v].insn # Run /\ r[v].insn = q[v].insn /\ Suspended(q[v])
    BY <1>0, <1>4 DEF Suspended, Run
  <2>2. s \in Var /\ v \in CanUse[s] /\ m[s] \in a /\ ~ q[m[s]].at_end
    BY <1>0, <2>1 DEF OnOwn
  <2>3. s # y
    BY <1>0, <2>1, <2>2 DEF Private
  <2>4. n[s] = m[s] /\ m[s] \in a \ {m[y]}
    BY <1>1, <1>2, <2>2, <2>3
  <2>5. m[s] \in b /\ r[m[s]].at_end = q[m[s]].at_end
    BY <1>0, <2>4
  <2> QED BY <2>1, <2>2, <2>4, <2>5
<1>5. Temporaries(r, n, b)
  <2>1. \A w \in VM : Storing(r, w) =>
          r[w].insn = q[w].insn /\ Storing(q, w) /\ w # u
    BY <1>0 DEF Storing, Run
  <2> SUFFICES ASSUME NEW v \in VM, Storing(r, v)
               PROVE  /\ r[v].insn.dst \in Var /\ v \in CanUse[r[v].insn.dst]
                      /\ r[v].insn.src \in b
                      /\ \A x \in Var : n[x] # r[v].insn.src
                      /\ \A w \in VM :
                           Storing(r, w) /\ r[w].insn.src = r[v].insn.src => w = v
    BY DEF Temporaries
  <2> DEFINE c == q[v].insn.src
  <2>2. /\ r[v].insn = q[v].insn /\ v # u
        /\ q[v].insn.dst \in Var /\ v \in CanUse[q[v].insn.dst]
        /\ c \in a /\ \A x \in Var : m[x] # c
        /\ \A w \in VM : Storing(q, w) /\ q[w].insn.src = c => w = v
    BY <1>0, <2>1 DEF Temporaries
  <2>3. n[y] # c
    BY <1>0, <1>1, <2>2
  <2> QED BY <1>0, <2>1, <2>2, <2>3
<1> QED BY <1>3, <1>4, <1>5 DEF OnOwn

\* ... and variable y is of the VM at position j of the chain, below which
\* nobody's instruction changes
ReboundAt(j, y, r, n) ==
  /\ j \in 1..Len(chain) /\ y \in Var /\ chain[j] \in CanUse[y]
  /\ \A x \in Var \ {y} : n[x] = mem[x]
  /\ \A k \in 1..(j - 1) : r[chain[k]].insn = qvm[chain[k]].insn

\* Up to there the chain is still linked by the handles.
LEMMA RebindFollows ==
  ASSUME Private, TypeOK, Inv, OwnedInv, NEW j, NEW y, NEW r, NEW n,
         ReboundAt(j, y, r, n)
  PROVE  \A k \in 1..(j - 1) : chain[k + 1] = n[r[chain[k]].insn.src]
<1>0. /\ j \in 1..Len(chain) /\ y \in Var /\ chain[j] \in CanUse[y]
      /\ \A x \in Var \ {y} : n[x] = mem[x]
      /\ \A k \in 1..(j - 1) : r[chain[k]].insn = qvm[chain[k]].insn
  BY DEF ReboundAt
<1> SUFFICES ASSUME NEW k \in 1..(j - 1)
             PROVE  chain[k + 1] = n[r[chain[k]].insn.src]
  OBVIOUS
<1> DEFINE s == qvm[chain[k]].insn.src
<1>1. Len(chain) \in Nat /\ k \in 1..(Len(chain) - 1) /\ k \in 1..Len(chain)
      /\ k # j
  BY <1>0, RunningType
<1>2. chain[k] \in VM /\ Suspended(qvm[chain[k]]) /\ chain[k] # chain[j]
  BY <1>0, <1>1, ElementOfSeq DEF Inv, Safe, Linked, TypeOK
<1>3. s \in Var /\ chain[k] \in CanUse[s]
  BY <1>2 DEF OwnedInv, Owned, OnOwn
<1>4. s # y
  BY <1>0, <1>2, <1>3 DEF Private
<1>5. chain[k + 1] = mem[s]
  BY <1>1 DEF OwnedInv, Owned, Follows
<1> QED BY <1>0, <1>3, <1>4, <1>5

\* The running VM changes, its instruction, its flags and its end do not.
LEMMA LocalOwned ==
  ASSUME TypeOK, OwnedInv, NEW z, NEW t, LocalEffect(z, t)
  PROVE  Owned(chain, [qvm EXCEPT ![Running] = z], mem, alive)
<1> DEFINE r == [qvm EXCEPT ![Running] = z]
<1>1. \A w \in VM : /\ r[w].insn = qvm[w].insn
                    /\ r[w].wait = qvm[w].wait
                    /\ r[w].at_end = qvm[w].at_end
  BY DEF LocalEffect, LocalChange, TypeOK
<1> HIDE DEF r
<1>2. Owned(chain, r, mem, alive)
  BY <1>1, OwnedFields DEF OwnedInv, TypeOK
<1> QED BY <1>2 DEF r

\* What the creation of quaint c for x leaves of the VMs.
WithNew(x, c, z) ==
  [qvm EXCEPT ![Running].insn = [op |-> "MOV", dst |-> x, src |-> c], ![c] = z]

LEMMA WithNewFields ==
  ASSUME TypeOK, Inv, NEW x \in Var, NEW c \in Quaint \ alive, NEW z \in Struct
  PROVE  LET r == WithNew(x, c, z) IN
         /\ c \in VM /\ c # Running
         /\ r \in [VM -> Struct] /\ r[c] = z
         /\ r[Running].insn = [op |-> "MOV", dst |-> x, src |-> c]
         /\ r[Running].at_end = qvm[Running].at_end
         /\ r[Running].at_start = qvm[Running].at_start
         /\ r[Running].frames = qvm[Running].frames
         /\ r[Running].last_passed = qvm[Running].last_passed
         /\ r[Running].wait = qvm[Running].wait
         /\ \A w \in VM \ {c, Running} : r[w] = qvm[w]
<1> DEFINE v == Running
           i == [op |-> "MOV", dst |-> x, src |-> c]
           s == qvm[v]
           y == [s EXCEPT !.insn = i]
           p == [qvm EXCEPT ![v] = y]
           r == [p EXCEPT ![c] = z]
<1>1. v \in VM /\ c \in VM /\ c # v /\ s \in Struct /\ i \in Insn
      /\ qvm \in [VM -> Struct]
  <2>1. Len(chain) \in 1..Len(chain)
    BY RunningType
  <2> QED BY <2>1, RunningType, ChainAlive DEF TypeOK, VM, Insn, Running
<1>2. WithNew(x, c, z) = r
  BY <1>1 DEF WithNew
<1> HIDE DEF v, s, i
<1>3. /\ y \in Struct /\ y.insn = i /\ y.at_end = s.at_end
      /\ y.at_start = s.at_start /\ y.frames = s.frames
      /\ y.last_passed = s.last_passed /\ y.wait = s.wait
  BY <1>1 DEF Struct
<1> HIDE DEF y
<1>4. p \in [VM -> Struct] /\ \A w \in VM : p[w] = IF w = v THEN y ELSE qvm[w]
  BY <1>1, <1>3
<1> HIDE DEF p
<1>5. r \in [VM -> Struct] /\ \A w \in VM : r[w] = IF w = c THEN z ELSE p[w]
  BY <1>1, <1>4
<1> HIDE DEF r
<1> QED BY <1>1, <1>2, <1>3, <1>4, <1>5 DEF v, s, i

LEMMA OtherThanNew ==
  ASSUME TypeOK, Inv, NEW x \in Var, NEW c \in Quaint \ alive, NEW z \in Struct,
         NEW w \in VM \ {c, Running}
  PROVE  WithNew(x, c, z)[w] = qvm[w]
<1> DEFINE r == WithNew(x, c, z)
<1>1. /\ c # Running /\ r[c] = z
      /\ r[Running].insn = [op |-> "MOV", dst |-> x, src |-> c]
      /\ r[Running].at_end = qvm[Running].at_end
      /\ \A u \in VM \ {c, Running} : r[u] = qvm[u]
  BY WithNewFields
<1> HIDE DEF r
<1>2. r[w] = qvm[w]
  BY <1>1
<1> QED BY <1>2 DEF r

\* A new quaint, in a temporary of the running VM.
LEMMA CreateOwned ==
  ASSUME TypeOK, Inv, OwnedInv, NEW x \in Var, NEW c \in Quaint \ alive,
         NEW z \in Struct, CreateEffect(x, c, z)
  PROVE  /\ Owned(chain, WithNew(x, c, z), mem', alive')
         /\ Linked(chain, WithNew(x, c, z), alive')
<1> DEFINE r == WithNew(x, c, z)
           v == Running
           n == Len(chain)
<1>1. v \in VM /\ n \in Nat \ {0} /\ v = chain[n] /\ chain \in Seq(VM)
      /\ \A k \in 1..n : chain[k] \in VM /\ chain[k] # c
  BY RunningType, ChainAlive DEF TypeOK, Running
<1>2. /\ qvm[v].insn = Run /\ v \in CanUse[x]
      /\ z.insn = Run /\ z.wait = NotWaiting
      /\ alive' = alive \cup {c} /\ mem' = mem
  BY DEF CreateEffect, Created, Free
<1>3. /\ c \in VM /\ c # v /\ r[c] = z
      /\ r[v].insn = [op |-> "MOV", dst |-> x, src |-> c]
      /\ r[v].at_end = qvm[v].at_end /\ r[v].wait = qvm[v].wait
      /\ \A w \in VM \ {c, v} : r[w] = qvm[w]
  BY WithNewFields
<1>4. Null \notin alive /\ alive \subseteq VM
  BY VmAssumption DEF TypeOK, VM
<1> HIDE DEF r, v
<1>5. Handles(mem, alive \cup {c}) /\ \A y \in Var : mem[y] # c
  BY <1>4, VmAssumption DEF OwnedInv, Owned, Handles, VM
<1>6. \A w \in VM : w \notin {c, v} => r[w].insn = qvm[w].insn
  BY <1>3
<1>7. OnOwn(r, mem, alive \cup {c})
  <2> SUFFICES ASSUME NEW w \in VM, Suspended(r[w])
               PROVE  /\ r[w].insn.src \in Var /\ w \in CanUse[r[w].insn.src]
                      /\ mem[r[w].insn.src] \in alive
                      /\ ~ r[mem[r[w].insn.src]].at_end
    BY DEF OnOwn
  <2>1. r[w].insn = qvm[w].insn /\ Suspended(qvm[w])
    BY <1>2, <1>3, <1>6 DEF Suspended, Run
  <2> DEFINE s == qvm[w].insn.src
  <2>2. s \in Var /\ w \in CanUse[s] /\ mem[s] \in alive /\ ~ qvm[mem[s]].at_end
    BY <2>1 DEF OwnedInv, Owned, OnOwn
  <2>3. r[mem[s]].at_end = qvm[mem[s]].at_end
    BY <1>3, <1>4, <2>2
  <2> QED BY <2>1, <2>2, <2>3
<1>8. Temporaries(r, mem, alive \cup {c})
  <2>1. \A w \in VM : Storing(r, w) => w = v \/ (Storing(qvm, w) /\ w # c)
    BY <1>2, <1>3 DEF Storing, Run
  <2> SUFFICES ASSUME NEW w \in VM, Storing(r, w)
               PROVE  /\ r[w].insn.dst \in Var /\ w \in CanUse[r[w].insn.dst]
                      /\ r[w].insn.src \in alive \cup {c}
                      /\ \A y \in Var : mem[y] # r[w].insn.src
                      /\ \A u \in VM :
                           Storing(r, u) /\ r[u].insn.src = r[w].insn.src => u = w
    BY DEF Temporaries
  <2>2. CASE w = v
    <3>1. \A u \in VM : Storing(r, u) /\ u # v => r[u].insn.src # c
      BY <1>3, <1>6, <2>1 DEF OwnedInv, Owned, Temporaries
    <3> QED BY <1>2, <1>3, <1>5, <2>2, <3>1
  <2>3. CASE w # v
    <3>1. r[w].insn = qvm[w].insn /\ Storing(qvm, w)
      BY <1>6, <2>1, <2>3
    <3>2. qvm[w].insn.src # c
      BY <3>1 DEF OwnedInv, Owned, Temporaries
    <3>3. ASSUME NEW u \in VM, Storing(r, u), r[u].insn.src = r[w].insn.src
          PROVE  u = w
      <4>1. u # v
        BY <1>3, <3>1, <3>2, <3>3
      <4>2. r[u].insn = qvm[u].insn /\ Storing(qvm, u)
        BY <1>6, <2>1, <3>3, <4>1
      <4> QED BY <3>1, <3>3, <4>2 DEF OwnedInv, Owned, Temporaries
    <3> QED BY <3>1, <3>3 DEF OwnedInv, Owned, Temporaries
  <2> QED BY <2>2, <2>3
<1>9. \A w \in VM : FlagsMatch(r[w])
  <2> SUFFICES ASSUME NEW w \in VM PROVE FlagsMatch(r[w])
    OBVIOUS
  <2>1. FlagsMatch(qvm[w])
    BY DEF OwnedInv, Owned
  <2>2. CASE w = c
    BY <1>2, <1>3, <2>2 DEF FlagsMatch, Run
  <2>3. CASE w = v
    <3>1. qvm[v].wait = NotWaiting
      BY <1>2, <2>1, <2>3 DEF FlagsMatch, Run
    <3> QED BY <1>3, <2>3, <3>1 DEF FlagsMatch
  <2> QED BY <1>3, <2>1, <2>2, <2>3
<1> HIDE DEF n
<1>10. \A k \in 1..(n - 1) : chain[k] \in VM /\ chain[k] \notin {c, v}
  BY <1>1 DEF Inv, Safe, Linked, n
<1>11. Follows(chain, r, mem)
  <2>1. \A k \in 1..(n - 1) : chain[k + 1] = mem[qvm[chain[k]].insn.src]
    BY DEF OwnedInv, Owned, Follows, n
  <2> QED BY <1>6, <1>10, <2>1 DEF Follows, n
<1>12. Linked(chain, r, alive \cup {c})
  <2>1. \A k \in 1..n : r[chain[k]].at_end = qvm[chain[k]].at_end
    BY <1>1, <1>3
  <2> QED BY <1>1, <1>6, <1>10, <2>1, LinkedFields DEF Inv, Safe, n
<1> QED BY <1>2, <1>5, <1>7, <1>8, <1>9, <1>11, <1>12 DEF Owned, r

\* The quaint in the temporary of the running VM goes into its variable.
LEMMA MovOwned ==
  ASSUME Private, TypeOK, Inv, OwnedInv, Mov
  PROVE  LET q == Advance(qvm, Running)
             x == qvm[Running].insn.dst IN
         /\ Owned(chain, q, mem', alive')
         /\ Linked(chain, q, alive')
         /\ Rebound(x, Running, q, mem', alive')
<1> DEFINE v == Running
           n == Len(chain)
           x == qvm[v].insn.dst
           c == qvm[v].insn.src
           q == Advance(qvm, v)
<1>1. v \in VM /\ n \in Nat \ {0} /\ n \in 1..n /\ v = chain[n]
      /\ chain \in Seq(VM) /\ qvm \in [VM -> Struct]
      /\ \A k \in 1..n : chain[k] \in VM
  <2>1. n \in Nat \ {0} /\ v \in VM
    BY RunningType
  <2> HIDE DEF n
  <2>2. n \in 1..n
    BY <2>1
  <2> QED BY <2>1, <2>2, ElementOfSeq DEF n, Running, TypeOK
<1>2. /\ Storing(qvm, v) /\ alive' = alive /\ mem' = [mem EXCEPT ![x] = c]
      /\ x \in Var /\ v \in CanUse[x] /\ c \in alive
  BY <1>1 DEF Mov, Storing, OwnedInv, Owned, Temporaries
<1>3. mem'[x] = c /\ \A y \in Var \ {x} : mem'[y] = mem[y]
  BY <1>2 DEF TypeOK
<1>4. /\ q[v].insn = Run /\ q[v].wait = qvm[v].wait
      /\ \A w \in VM \ {v} : q[w] = qvm[w]
      /\ \A w \in VM : q[w].at_end = qvm[w].at_end
  BY <1>1, AdvanceFields, AdvanceKeeps
<1> HIDE DEF q, c, x
<1>5. Rebound(x, v, q, mem', alive')
  <2>1. \A d \in alive : d \in VM
    BY DEF TypeOK, VM
  <2>2. \A w \in VM : q[w].insn # Run => q[w].insn = qvm[w].insn
    BY <1>4
  <2> QED BY <1>2, <1>3, <1>4, <2>1, <2>2 DEF Rebound, c
<1>6. \A w \in VM : FlagsMatch(q[w])
  <2>1. FlagsMatch(q[v])
    BY <1>1, <1>2, <1>4 DEF OwnedInv, Owned, FlagsMatch, Storing, Run
  <2> QED BY <1>4, <2>1 DEF OwnedInv, Owned
<1> HIDE DEF n
<1>7. \A k \in 1..(n - 1) : q[chain[k]].insn = qvm[chain[k]].insn
  <2>1. \A k \in 1..(n - 1) : chain[k] \in VM /\ chain[k] # v
    BY <1>1 DEF Inv, Safe, Linked, n
  <2> QED BY <1>4, <2>1
<1>8. Follows(chain, q, mem')
  <2>1. ReboundAt(n, x, q, mem')
    BY <1>1, <1>2, <1>3, <1>7 DEF ReboundAt, n
  <2>2. \A k \in 1..(n - 1) : chain[k + 1] = mem'[q[chain[k]].insn.src]
    BY <2>1, RebindFollows
  <2> QED BY <2>2 DEF Follows, n
<1>9. Linked(chain, q, alive')
  <2>1. \A k \in 1..n : q[chain[k]].at_end = qvm[chain[k]].at_end
    BY <1>1, <1>4
  <2> QED BY <1>1, <1>2, <1>7, <2>1, LinkedFields DEF Inv, Safe, n
<1> QED BY <1>5, <1>6, <1>8, <1>9, Rebind DEF Owned, q, x

\* A variable of the running VM is set to null.
LEMMA DropOwned ==
  ASSUME Private, TypeOK, Inv, OwnedInv, NEW x \in Var, Drop(x)
  PROVE  /\ Owned(chain, qvm, mem', alive')
         /\ Rebound(x, Running, qvm, mem', alive')
<1> DEFINE v == Running
           n == Len(chain)
<1>1. v \in VM /\ n \in Nat \ {0} /\ n \in 1..n /\ v = chain[n]
  <2>1. n \in Nat \ {0} /\ v \in VM
    BY RunningType
  <2> HIDE DEF n
  <2>2. n \in 1..n
    BY <2>1
  <2> QED BY <2>1, <2>2 DEF n, Running
<1>2. /\ qvm[v].insn = Run /\ v \in CanUse[x]
      /\ alive' = alive /\ mem' = [mem EXCEPT ![x] = Null]
  BY DEF Drop, Free
<1>3. mem'[x] = Null /\ \A y \in Var \ {x} : mem'[y] = mem[y]
  BY <1>2 DEF TypeOK
<1>4. Rebound(x, v, qvm, mem', alive')
  BY <1>2, <1>3 DEF Rebound
<1> HIDE DEF n
<1>5. Follows(chain, qvm, mem')
  <2>1. ReboundAt(n, x, qvm, mem')
    BY <1>1, <1>2, <1>3 DEF ReboundAt, n
  <2>2. \A k \in 1..(n - 1) : chain[k + 1] = mem'[qvm[chain[k]].insn.src]
    BY <2>1, RebindFollows
  <2> QED BY <2>2 DEF Follows, n
<1> QED BY <1>4, <1>5, Rebind DEF OwnedInv, Owned

\* No VM of the chain has ended.
LEMMA ChainUnended ==
  ASSUME TypeOK, Inv, NEW c \in alive, qvm[c].at_end
  PROVE  \A k \in 1..Len(chain) : chain[k] # c
<1> SUFFICES ASSUME NEW k \in 1..Len(chain) PROVE chain[k] # c
  OBVIOUS
<1>1. CASE k = 1
  BY <1>1, VmAssumption DEF Inv, Safe, Linked, TypeOK
<1>2. CASE k \in 2..Len(chain)
  BY <1>2 DEF Inv, Safe, Linked
<1>3. Len(chain) \in Nat
  BY RunningType
<1> QED BY <1>1, <1>2, <1>3

\* The * of the running VM takes an ended quaint, and its variable is null.
LEMMA TakeOwned ==
  ASSUME Private, TypeOK, Inv, OwnedInv, NEW i \in Rtes, TakeEffect(i)
  PROVE  LET r == [qvm EXCEPT ![Value(i.src)] = Zeroed] IN
         /\ Advance(r, Running) = r
         /\ Owned(chain, r, mem', alive')
         /\ Rebound(i.src, Running, r, mem', alive')
<1> DEFINE v == Running
           c == Value(i.src)
           y == i.src
           r == [qvm EXCEPT ![c] = Zeroed]
           n == Len(chain)
<1>1. v \in VM /\ n \in 1..n /\ v = chain[n] /\ qvm \in [VM -> Struct]
      /\ \A k \in 1..n : chain[k] \in VM
  BY RunningType, ElementOfSeq DEF TypeOK, Running
<1>2. At(i) /\ c \in alive /\ qvm[c].at_end /\ alive' = alive \ {c}
      /\ mem' = IF y \in Var THEN [mem EXCEPT ![y] = Null] ELSE mem
  BY DEF TakeEffect
<1>3. y \in Var /\ v \in CanUse[y] /\ c = mem[y] /\ qvm[v].insn = Run
  BY <1>2, AtPrivate
<1>4. c \in VM /\ \A k \in 1..n : chain[k] # c
  BY <1>2, ChainUnended DEF TypeOK, VM
<1>5. mem'[y] = Null /\ \A x \in Var \ {y} : mem'[x] = mem[x]
  BY <1>2, <1>3 DEF TypeOK
<1>6. r \in [VM -> Struct] /\ \A w \in VM : r[w] = IF w = c THEN Zeroed ELSE qvm[w]
  BY <1>1, <1>4, ZeroedType
<1> HIDE DEF r, c
<1>7. r[v].insn = Run /\ Advance(r, v) = r
  BY <1>1, <1>3, <1>4, <1>6, AdvanceRun
<1>8. Rebound(y, v, r, mem', alive')
  <2>1. \A w \in VM : r[w].insn # Run => r[w].insn = qvm[w].insn
    BY <1>6 DEF Zeroed
  <2>2. \A d \in alive \ {mem[y]} : d \in alive' /\ r[d].at_end = qvm[d].at_end
    BY <1>2, <1>3, <1>6 DEF TypeOK, VM
  <2> QED BY <1>3, <1>5, <1>7, <2>1, <2>2 DEF Rebound
<1>9. \A w \in VM : FlagsMatch(r[w])
  <2>1. FlagsMatch(Zeroed)
    BY DEF FlagsMatch, Zeroed, Run
  <2> QED BY <1>6, <2>1 DEF OwnedInv, Owned
<1> HIDE DEF n
<1>10. Follows(chain, r, mem')
  <2>1. \A k \in 1..(n - 1) : r[chain[k]].insn = qvm[chain[k]].insn
    BY <1>1, <1>4, <1>6
  <2>2. ReboundAt(n, y, r, mem')
    BY <1>1, <1>3, <1>5, <2>1 DEF ReboundAt, n
  <2>3. \A k \in 1..(n - 1) : chain[k + 1] = mem'[r[chain[k]].insn.src]
    BY <2>2, RebindFollows
  <2> QED BY <2>3 DEF Follows, n
<1> QED BY <1>7, <1>8, <1>9, <1>10, Rebind DEF Owned, r, c

\* The flags of the instruction that resumes.
LEMMA PushFlags ==
  ASSUME TypeOK, OwnedInv, NEW i \in Rtes \cup Waits, At(i),
         i.op = "WAIT" /\ i.mode = "for" => i.arg # 0,
         NEW z \in Struct, z.insn = i,
         z.wait = IF i.op = "WAIT" THEN Flags(i) ELSE qvm[Running].wait
  PROVE  FlagsMatch(z)
<1>1. FlagsMatch(qvm[Running])
  BY RunningType DEF OwnedInv, Owned
<1>2. CASE i \in Rtes
  <2>1. i.op = "RTE" /\ qvm[Running].insn.op \in {"RTE", "RUN"}
    BY <1>2 DEF Rtes, At, Free, Run
  <2> QED BY <1>1, <2>1 DEF FlagsMatch
<1>3. CASE i \in Waits
  <2>1. i.op = "WAIT" /\ i.mode \in {"plain", "for", "until"}
    BY <1>3 DEF Waits, Insn, Run
  <2> QED BY <2>1 DEF FlagsMatch, Flags
<1> QED BY <1>2, <1>3

\* The running VM resumes the quaint in its variable.
LEMMA PushOwned ==
  ASSUME Private, TypeOK, Inv, OwnedInv, NEW i \in Rtes \cup Waits,
         NEW z \in Struct, NEW t, PushEffect(i, z, t)
  PROVE  Owned(Append(chain, Value(i.src)), [qvm EXCEPT ![Running] = z],
               mem, alive)
<1> DEFINE v == Running
           c == Value(i.src)
           s == qvm[v]
           r == [qvm EXCEPT ![v] = z]
           n == Len(chain)
           ch == Append(chain, c)
<1>1. v \in VM /\ n \in Nat \ {0} /\ n \in 1..n /\ v = chain[n]
      /\ qvm \in [VM -> Struct] /\ s \in Struct
      /\ \A k \in 1..n : chain[k] \in VM
  BY RunningType, ElementOfSeq DEF TypeOK, Running
<1>2. /\ At(i) /\ c \in alive /\ ~ qvm[c].at_end
      /\ \A k \in 1..n : chain[k] # c
      /\ i.op = "WAIT" /\ i.mode = "for" => i.arg # 0
      /\ z = [s EXCEPT !.insn = i,
                       !.wait = IF i.op = "WAIT" THEN Flags(i) ELSE s.wait]
  BY DEF PushEffect
<1>3. i.src \in Var /\ v \in CanUse[i.src] /\ c = mem[i.src]
  BY <1>2, AtPrivate
<1>4. c \in VM /\ c # v
  BY <1>1, <1>2 DEF TypeOK, VM
<1>5. Len(ch) = n + 1 /\ ch[n + 1] = c /\ \A k \in 1..n : ch[k] = chain[k]
  BY <1>1, <1>4, AppendProperties DEF TypeOK
<1>6. \A w \in VM : r[w] = IF w = v THEN z ELSE qvm[w]
  BY <1>1
<1>7. z.insn = i /\ z.at_end = s.at_end
      /\ z.wait = IF i.op = "WAIT" THEN Flags(i) ELSE qvm[Running].wait
  <2> HIDE DEF s
  <2>1. z.insn = i /\ z.at_end = s.at_end
        /\ z.wait = IF i.op = "WAIT" THEN Flags(i) ELSE s.wait
    BY <1>1, <1>2 DEF Struct
  <2> QED BY <2>1 DEF s
<1> HIDE DEF r, ch, n
<1>8. \A w \in VM : r[w].at_end = qvm[w].at_end
  BY <1>6, <1>7
<1>9. OnOwn(r, mem, alive)
  <2> SUFFICES ASSUME NEW w \in VM, Suspended(r[w])
               PROVE  /\ r[w].insn.src \in Var /\ w \in CanUse[r[w].insn.src]
                      /\ mem[r[w].insn.src] \in alive
                      /\ ~ r[mem[r[w].insn.src]].at_end
    BY DEF OnOwn
  <2>1. CASE w = v
    <3>1. r[w].insn = i
      BY <1>6, <1>7, <2>1
    <3> QED BY <1>2, <1>3, <1>4, <1>8, <2>1, <3>1
  <2>2. CASE w # v
    <3> DEFINE x == qvm[w].insn.src
    <3>1. r[w].insn = qvm[w].insn
      BY <1>6, <2>2
    <3>2. x \in Var /\ w \in CanUse[x] /\ mem[x] \in alive /\ ~ qvm[mem[x]].at_end
      BY <3>1 DEF OwnedInv, Owned, OnOwn, Suspended
    <3>3. mem[x] \in VM
      BY <3>2 DEF TypeOK, VM
    <3> QED BY <1>8, <3>1, <3>2, <3>3
  <2> QED BY <2>1, <2>2
<1>10. \A w \in VM : FlagsMatch(r[w])
  <2>1. FlagsMatch(z)
    BY <1>2, <1>7, PushFlags
  <2> QED BY <1>6, <2>1 DEF OwnedInv, Owned
<1>11. Follows(ch, r, mem)
  <2> SUFFICES ASSUME NEW k \in 1..n
               PROVE  ch[k + 1] = mem[r[ch[k]].insn.src]
    BY <1>1, <1>5 DEF Follows
  <2>1. CASE k = n
    BY <1>1, <1>3, <1>5, <1>6, <1>7, <2>1
  <2>2. CASE k \in 1..(n - 1)
    <3>1. ch[k] = chain[k] /\ ch[k + 1] = chain[k + 1] /\ chain[k] # v
          /\ chain[k] \in VM
      BY <1>1, <1>5, <2>2 DEF Inv, Safe, Linked, n
    <3>2. chain[k + 1] = mem[qvm[chain[k]].insn.src]
      BY <2>2 DEF OwnedInv, Owned, Follows, n
    <3> QED BY <1>6, <3>1, <3>2
  <2> QED BY <1>1, <2>1, <2>2
<1>12. Handles(mem, alive)
  BY DEF OwnedInv, Owned
<1>13. Temporaries(r, mem, alive)
  <2>1. z.insn.op \in {"WAIT", "RTE"}
    BY <1>7 DEF Rtes, Waits
  <2>2. \A w \in VM : Storing(r, w) => w # v /\ r[w] = qvm[w] /\ Storing(qvm, w)
    BY <1>6, <2>1 DEF Storing
  <2> QED BY <2>2 DEF OwnedInv, Owned, Temporaries
<1> QED BY <1>9, <1>10, <1>11, <1>12, <1>13 DEF Owned, r, ch

\* The function of the running VM returns to the resumer: what the resumer's
\* variable holds has ended, or is freed and the variable is null.
LEMMA PopOwned ==
  ASSUME Private, TypeOK, Inv, OwnedInv, NEW t, PopEffect(t),
         NEW q \in [VM -> Struct], Popped(q, t)
  PROVE  LET p == chain[Len(chain) - 1] IN
         /\ Owned(SubSeq(chain, 1, Len(chain) - 1), q, mem', alive')
         /\ Linked(SubSeq(chain, 1, Len(chain) - 1), q, alive')
         /\ Rebound(qvm[p].insn.src, p, q, mem', alive')
         /\ mem[qvm[p].insn.src] = Running
<1> DEFINE v == Running
           n == Len(chain)
           p == chain[n - 1]
           y == qvm[p].insn.src
           ch == SubSeq(chain, 1, n - 1)
<1>1. n \in Nat \ {0} /\ n > 1 /\ v = chain[n] /\ qvm \in [VM -> Struct]
      /\ \A k \in 1..n : chain[k] \in VM
  BY RunningType, ElementOfSeq DEF TypeOK, Running, PopEffect
<1>2. /\ p \in VM /\ v \in VM /\ v \in alive /\ p # v
      /\ \A w \in VM \ {v, p} : q[w] = qvm[w]
      /\ q[p].insn = Run
      /\ q[p].at_end = qvm[p].at_end
      /\ \/ /\ qvm[p].insn.op = "RTE"
            /\ alive' = alive \ {v}
            /\ mem' = IF y \in Var THEN [mem EXCEPT ![y] = Null] ELSE mem
            /\ q[v] = Zeroed
            /\ q[p].wait = qvm[p].wait
         \/ /\ qvm[p].insn.op = "WAIT"
            /\ UNCHANGED <<mem, alive>>
            /\ q[v].at_end
            /\ q[v].insn = qvm[v].insn /\ q[v].wait = qvm[v].wait
            /\ q[p].wait = NotWaiting
  BY DEF Popped
<1> HIDE DEF n
<1>3. n - 1 \in 1..n /\ n - 1 \in 1..(n - 1) /\ (n - 1) + 1 = n
  BY <1>1
<1>4. Len(ch) = n - 1 /\ \A k \in 1..(n - 1) : ch[k] = chain[k]
  BY <1>3, Prefix DEF TypeOK, n
<1>5. Suspended(qvm[p]) /\ mem[y] = v
  BY <1>1, <1>3 DEF Inv, Safe, Linked, OwnedInv, Owned, Follows, n
<1>6. y \in Var /\ p \in CanUse[y]
  BY <1>2, <1>5 DEF OwnedInv, Owned, OnOwn
<1>7. /\ \A x \in Var \ {y} : mem'[x] = mem[x]
      /\ mem'[y] \in alive' \cup {Null}
      /\ mem'[y] \in {mem[y], Null}
      /\ \A c \in alive \ {mem[y]} : c \in alive'
  BY <1>2, <1>5, <1>6 DEF TypeOK
<1>8. Rebound(y, p, q, mem', alive')
  <2>1. \A w \in VM : q[w].insn # Run => q[w].insn = qvm[w].insn
    BY <1>2 DEF Zeroed
  <2>2. \A c \in alive \ {mem[y]} : q[c].at_end = qvm[c].at_end
    BY <1>2, <1>5 DEF TypeOK, VM
  <2> QED BY <1>2, <1>6, <1>7, <2>1, <2>2 DEF Rebound
<1>9. \A w \in VM : FlagsMatch(q[w])
  <2> SUFFICES ASSUME NEW w \in VM PROVE FlagsMatch(q[w])
    OBVIOUS
  <2>1. FlagsMatch(qvm[w])
    BY DEF OwnedInv, Owned
  <2>2. CASE w = p
    BY <1>2, <2>1, <2>2 DEF FlagsMatch, Run
  <2>3. CASE w = v
    BY <1>2, <2>1, <2>3 DEF FlagsMatch, Zeroed, Run
  <2> QED BY <1>2, <2>1, <2>2, <2>3
<1>10. Follows(ch, q, mem')
  <2>1. \A k \in 1..((n - 1) - 1) : q[chain[k]].insn = qvm[chain[k]].insn
    <3> SUFFICES ASSUME NEW k \in 1..((n - 1) - 1)
                 PROVE  q[chain[k]].insn = qvm[chain[k]].insn
      OBVIOUS
    <3>1. k \in 1..n /\ k # n /\ k # n - 1 /\ n \in 1..n
      BY <1>1
    <3>2. chain[k] \in VM /\ chain[k] # v /\ chain[k] # p
      BY <1>1, <1>3, <3>1 DEF Inv, Safe, Linked, n
    <3> QED BY <1>2, <3>2
  <2>2. ReboundAt(n - 1, y, q, mem')
    BY <1>3, <1>6, <1>7, <2>1 DEF ReboundAt, n
  <2>3. \A k \in 1..((n - 1) - 1) : chain[k + 1] = mem'[q[chain[k]].insn.src]
    BY <2>2, RebindFollows
  <2> SUFFICES ASSUME NEW k \in 1..((n - 1) - 1)
               PROVE  ch[k + 1] = mem'[q[ch[k]].insn.src]
    BY <1>4 DEF Follows
  <2>4. k \in 1..(n - 1) /\ k + 1 \in 1..(n - 1)
    BY <1>1
  <2> QED BY <1>4, <2>3, <2>4
<1>11. Owned(ch, q, mem', alive')
  BY <1>8, <1>9, <1>10, Rebind DEF Owned
<1>12. Linked(ch, q, alive')
  <2>1. Linked(ch, qvm, alive) /\ ch \in Seq(VM)
    BY <1>3, LinkedPrefix, ChainType DEF Inv, Safe, TypeOK, n
  <2>2. ASSUME NEW k \in 1..Len(ch)
        PROVE  q[ch[k]].at_end = qvm[ch[k]].at_end
               /\ (ch[k] \in alive => ch[k] \in alive')
    <3>1. k \in 1..n /\ k # n /\ n \in 1..n /\ ch[k] = chain[k]
      BY <1>1, <1>4
    <3>2. chain[k] \in VM /\ chain[k] # v
      BY <1>1, <3>1 DEF Inv, Safe, Linked, n
    <3> QED BY <1>2, <3>1, <3>2
  <2>3. ASSUME NEW k \in 1..(Len(ch) - 1)
        PROVE  q[ch[k]].insn = qvm[ch[k]].insn
    <3>1. k \in 1..n /\ k # n /\ k # n - 1 /\ n \in 1..n /\ ch[k] = chain[k]
      BY <1>1, <1>4
    <3>2. chain[k] \in VM /\ chain[k] # v /\ chain[k] # p
      BY <1>1, <1>3, <3>1 DEF Inv, Safe, Linked, n
    <3> QED BY <1>2, <3>1, <3>2
  <2> QED BY <2>1, <2>2, <2>3, LinkedFields
<1> QED BY <1>5, <1>8, <1>11, <1>12 DEF n

-----------------------------------------------------------------------------
(***************************************************************************)
(* Every step preserves the invariant.                                     *)
(***************************************************************************)

\* The parents of a running VM that changes neither its instruction nor its
\* end, ...
LEMMA LocalLinked ==
  ASSUME TypeOK, Inv, NEW z, NEW t, LocalEffect(z, t)
  PROVE  Linked(chain, [qvm EXCEPT ![Running] = z], alive)
<1> DEFINE r == [qvm EXCEPT ![Running] = z]
<1>1. \A w \in VM : r[w].insn = qvm[w].insn /\ r[w].at_end = qvm[w].at_end
  BY DEF LocalEffect, LocalChange, TypeOK
<1>2. \A k \in 1..Len(chain) : chain[k] \in VM
  BY ChainAlive
<1>3. Len(chain) \in Nat /\ chain \in Seq(VM) /\ Linked(chain, qvm, alive)
  BY RunningType DEF TypeOK, Inv, Safe
<1> HIDE DEF r
<1>4. Linked(chain, r, alive)
  BY <1>1, <1>2, <1>3, LinkedFields
<1> QED BY <1>4 DEF r

\* ... and when a VM that is not in the chain changes.
LEMMA OtherLinked ==
  ASSUME TypeOK, Inv, NEW c \in VM, NEW z, NEW b,
         \A k \in 1..Len(chain) : chain[k] # c, alive \ {c} \subseteq b
  PROVE  Linked(chain, [qvm EXCEPT ![c] = z], b)
<1> DEFINE r == [qvm EXCEPT ![c] = z]
<1>1. \A k \in 1..Len(chain) : chain[k] \in VM /\ r[chain[k]] = qvm[chain[k]]
  BY ChainAlive DEF TypeOK
<1>2. Len(chain) \in Nat /\ chain \in Seq(VM) /\ Linked(chain, qvm, alive)
  BY RunningType DEF TypeOK, Inv, Safe
<1> HIDE DEF r
<1>3. Linked(chain, r, b)
  BY <1>1, <1>2, LinkedFields
<1> QED BY <1>3 DEF r

\* A * or wait with nothing to do leaves the ip where it may advance anyway.
LEMMA SkipIdle ==
  ASSUME Private, TypeOK, OwnedInv, NEW i \in Rtes \cup Waits, SkipEffect(i)
  PROVE  qvm[Running].insn = Run /\ Advance(qvm, Running) = qvm
<1>1. qvm[Running].insn = Run
  BY AtPrivate, VmAssumption DEF SkipEffect, TypeOK, VM
<1> QED BY <1>1, RunningType, AdvanceRun DEF TypeOK

\* The quaint a * or wait is about to resume is not in the chain: who is
\* there was resumed through a variable of its resumer, and no other variable
\* holds it.
LEMMA Acyclic ==
  ASSUME Private, TypeOK, Inv, OwnedInv, NEW i \in Rtes \cup Waits, At(i),
         Value(i.src) \in alive
  PROVE  \A k \in 1..Len(chain) : chain[k] # Value(i.src)
<1> DEFINE n == Len(chain)
           c == Value(i.src)
           x == i.src
<1> SUFFICES ASSUME NEW k \in 1..n, chain[k] = c
             PROVE  FALSE
  OBVIOUS
<1>1. n \in Nat \ {0} /\ n \in 1..n /\ Running = chain[n]
  BY RunningType DEF Running
<1>2. x \in Var /\ Running \in CanUse[x] /\ c = mem[x] /\ c # Null
  BY AtPrivate, VmAssumption DEF TypeOK, VM
<1> HIDE DEF n
<1>3. CASE k = 1
  BY <1>3, VmAssumption DEF Inv, Safe, Linked, TypeOK
<1>4. CASE k \in 2..n
  <2> DEFINE j == k - 1
  <2>1. j \in 1..(n - 1) /\ j \in 1..n /\ j + 1 = k /\ j # n
    BY <1>1, <1>4
  <2> HIDE DEF j
  <2> DEFINE y == qvm[chain[j]].insn.src
  <2>2. chain[j] \in VM /\ Suspended(qvm[chain[j]])
    BY <2>1, ChainAlive DEF Inv, Safe, Linked, n
  <2>3. y \in Var /\ chain[j] \in CanUse[y]
    BY <2>2 DEF OwnedInv, Owned, OnOwn
  <2>4. mem[y] = chain[k]
    BY <2>1 DEF OwnedInv, Owned, Follows, n
  <2>5. y = x
    BY <1>2, <2>3, <2>4 DEF OwnedInv, Owned, Handles
  <2>6. chain[j] = chain[n]
    BY <1>1, <1>2, <2>3, <2>5 DEF Private
  <2> QED BY <1>1, <2>1, <2>6 DEF Inv, Safe, Linked, n
<1> QED BY <1>1, <1>3, <1>4

\* ... so the parents never go round.
LEMMA NoKnot ==
  ASSUME Private, TypeOK, Inv, OwnedInv, NEW i \in Rtes \cup Waits, NEW z,
         NEW t, KnotEffect(i, z, t)
  PROVE  FALSE
<1>1. At(i) /\ Value(i.src) \in alive
      /\ \E k \in 1..Len(chain) : chain[k] = Value(i.src)
  BY DEF KnotEffect, Knot
<1> QED BY <1>1, Acyclic

LEMMA OwnedStep ==
  ASSUME Private, TypeOK, Inv, LifeInv, OwnedInv, Effect, TypeOK'
  PROVE  OwnedInv'
<1> DEFINE v == Running
<1>1. v \in VM /\ qvm \in [VM -> Struct] /\ chain \in Seq(VM)
      /\ alive' \subseteq Quaint /\ alive \subseteq Quaint
      /\ Linked(chain, qvm, alive) /\ Owned(chain, qvm, mem, alive)
  BY RunningType DEF TypeOK, Inv, Safe, OwnedInv
<1>2. ASSUME NEW ch \in Seq(VM), NEW q \in [VM -> Struct], NEW t,
             Poll(ch, q, t), Linked(ch, q, alive'), Owned(ch, q, mem', alive')
      PROVE  OwnedInv'
  BY <1>1, <1>2, PollOwned DEF OwnedInv
<1>3. ASSUME NEW z \in Struct, NEW t, LocalEffect(z, t)
      PROVE  OwnedInv'
  <2>1. /\ Linked(chain, [qvm EXCEPT ![v] = z], alive)
        /\ Owned(chain, [qvm EXCEPT ![v] = z], mem, alive)
        /\ [qvm EXCEPT ![v] = z] \in [VM -> Struct]
    BY <1>1, <1>3, LocalLinked, LocalOwned
  <2> QED BY <1>1, <1>2, <1>3, <2>1 DEF LocalEffect
<1>4. ASSUME NEW i \in Rtes \cup Waits, SkipEffect(i)
      PROVE  OwnedInv'
  BY <1>1, <1>2, <1>4, SkipIdle DEF SkipEffect
<1>5. ASSUME NEW x \in Var, NEW c \in Quaint \ alive, NEW z \in Struct,
             CreateEffect(x, c, z)
      PROVE  OwnedInv'
  <2> DEFINE r == WithNew(x, c, z)
  <2>1. r \in [VM -> Struct]
    BY WithNewFields
  <2>2. Owned(chain, r, mem', alive') /\ Linked(chain, r, alive')
    BY <1>5, CreateOwned
  <2>3. Poll(chain, r, now)
    BY <1>5 DEF CreateEffect, Created, WithNew
  <2> HIDE DEF r
  <2> QED BY <1>1, <1>2, <2>1, <2>2, <2>3
<1>6. ASSUME NEW x \in Var, Drop(x)
      PROVE  OwnedInv'
  <2>1. Owned(chain, qvm, mem', alive')
    BY <1>6, DropOwned
  <2> QED BY <1>1, <1>2, <1>6, <2>1 DEF Drop
<1>7. ASSUME NEW i \in Rtes, TakeEffect(i)
      PROVE  OwnedInv'
  <2> DEFINE c == Value(i.src)
             r == [qvm EXCEPT ![c] = Zeroed]
  <2>1. c \in VM /\ \A k \in 1..Len(chain) : chain[k] # c
    BY <1>7, ChainUnended DEF TakeEffect, TypeOK, VM
  <2>2. Linked(chain, r, alive \ {c}) /\ r \in [VM -> Struct]
    <3> HIDE DEF c
    <3> QED BY <1>1, <2>1, OtherLinked, ZeroedType
  <2>3. Advance(r, v) = r /\ Owned(chain, r, mem', alive')
    BY <1>7, TakeOwned
  <2> QED BY <1>1, <1>2, <1>7, <2>2, <2>3 DEF TakeEffect
<1>8. ASSUME NEW i \in Rtes \cup Waits, NEW z \in Struct, NEW t,
             PushEffect(i, z, t)
      PROVE  OwnedInv'
  <2> DEFINE ch == Append(chain, Value(i.src))
             q == [qvm EXCEPT ![v] = z]
  <2>1. Value(i.src) \in VM /\ Poll(ch, q, t) /\ UNCHANGED <<mem, alive>>
    BY <1>8 DEF PushEffect, TypeOK, VM
  <2>2. ch \in Seq(VM) /\ q \in [VM -> Struct]
    BY <1>1, <2>1, ChainType
  <2>3. Linked(ch, q, alive) /\ Owned(ch, q, mem, alive)
    BY <1>8, LinkedPush, PushOwned
  <2> HIDE DEF ch, q
  <2> QED BY <1>2, <2>1, <2>2, <2>3
<1>9. ASSUME NEW t, PopEffect(t)
      PROVE  OwnedInv'
  <2> DEFINE ch == SubSeq(chain, 1, Len(chain) - 1)
  <2>1. PICK q \in [VM -> Struct] : Popped(q, t)
    BY <1>9, PopFields DEF PopEffect
  <2>2. /\ Owned(ch, q, mem', alive') /\ Linked(ch, q, alive') /\ Poll(ch, q, t)
        /\ ch \in Seq(VM)
    BY <1>9, <2>1, PopOwned, ChainType DEF PopEffect, Popped
  <2> QED BY <1>2, <2>2
<1>10. ASSUME NEW why, StopEffect(why)
       PROVE  OwnedInv'
  BY <1>10 DEF StopEffect, Stop, OwnedInv
<1>11. CASE Mov
  <2> DEFINE q == Advance(qvm, v)
  <2>1. q \in [VM -> Struct]
    BY <1>1, AdvanceFields
  <2>2. Owned(chain, q, mem', alive') /\ Linked(chain, q, alive')
    BY <1>11, MovOwned
  <2>3. Poll(chain, q, now)
    BY <1>11 DEF Mov
  <2> HIDE DEF q
  <2> QED BY <1>1, <1>2, <2>1, <2>2, <2>3
<1>12. "copy" \notin Features
  BY DEF Private
<1> QED
  BY <1>3, <1>4, <1>5, <1>6, <1>7, <1>8, <1>9, <1>10, <1>11, <1>12, NoKnot
  DEF Effect

\* The interpreter goes on or stops, but never for a cycle.
LEMMA GoesOn ==
  ASSUME Private, TypeOK, Inv, OwnedInv, Effect
  PROVE  \/ status' = status
         \/ \E why \in {"exited", "illegal", "nomem", "undefined"} :
              StopEffect(why)
<1>1. ASSUME NEW ch, NEW q, NEW t, Poll(ch, q, t)
      PROVE  status' = status
  BY <1>1, PollCases
<1>2. ASSUME NEW t, PopEffect(t)
      PROVE  status' = status
  BY <1>1, <1>2, PopFields DEF PopEffect, Popped
<1>3. "copy" \notin Features
  BY DEF Private
<1> QED
  BY <1>1, <1>2, <1>3, NoKnot
  DEF Effect, LocalEffect, SkipEffect, CreateEffect, Created, Mov, Drop,
      TakeEffect, PushEffect

\* The parents do not go round.
Straight == status # "cyclic"

\* In a private program it holds in every state of every behaviour, and with
\* it the invariant of the chain.
LEMMA OwnedHolds ==
  ASSUME Private
  PROVE  Spec => [](OwnedInv /\ Inv)
<1>1. Init => OwnedInv
  <2> SUFFICES ASSUME Init PROVE OwnedInv
    OBVIOUS
  <2>1. /\ \A w \in VM : qvm[w].insn = Run /\ qvm[w].wait = NotWaiting
        /\ \A x \in Var : mem[x] = Null
        /\ Len(chain) = 1
    BY DEF Init, Zeroed
  <2> QED
    BY <2>1
    DEF OwnedInv, Owned, Handles, Temporaries, Storing, OnOwn, Suspended,
        FlagsMatch, Follows, Run
<1>2. TypeOK /\ GenInv /\ LifeInv /\ OwnedInv /\ Straight /\ [Next]_vars
        /\ TypeOK' => OwnedInv' /\ Straight'
  <2> USE DEF Straight
  <2> SUFFICES ASSUME TypeOK, GenInv, LifeInv, OwnedInv, Straight,
                      [Next]_vars, TypeOK'
               PROVE  OwnedInv' /\ Straight'
    OBVIOUS
  <2>0. Inv
    BY DEF GenInv
  <2>1. CASE Exec
    <3>1. Effect
      BY <2>0, <2>1, StepEffect DEF Exec
    <3>2. status' = status \/ status' \in {"exited", "illegal", "nomem", "undefined"}
      BY <2>0, <3>1, GoesOn DEF StopEffect, Stop
    <3> QED BY <2>0, <3>1, <3>2, OwnedStep
  <2>2. CASE Tick
    BY <2>2 DEF Tick, OwnedInv
  <2>3. CASE UNCHANGED vars
    BY <2>3 DEF vars, OwnedInv
  <2> QED BY <2>1, <2>2, <2>3 DEF Next, Ended
<1>3. Init => Straight
  BY DEF Init, Straight
<1>4. GenInv /\ Straight => Inv
  BY DEF GenInv, Straight
<1> QED BY <1>1, <1>2, <1>3, <1>4, TypeCorrect, InvHolds, LifeHolds, PTL DEF Spec

-----------------------------------------------------------------------------
(***************************************************************************)
(* The theorems: no handle dangles, and nothing breaks.                    *)
(***************************************************************************)

\* For every private program: each variable holds null or an allocated quaint
\* that no other variable holds, and nobody else has the quaint a VM is about
\* to store.
THEOREM HandlesCorrect ==
  ASSUME Private
  PROVE  Spec => []HandlesValid
<1>1. OwnedInv => HandlesValid
  BY DEF OwnedInv, Owned, Handles, Temporaries, HandlesValid
<1> QED BY <1>1, OwnedHolds, PTL

\* For every private program: the parents of the running VM go up to Root, are
\* all different, and everybody in between is suspended at a * or wait.  It is
\* the handles that keep insn_rte() and insn_wait(), which overwrite the parent
\* of whatever they resume, from making a cycle.
THEOREM ChainCorrect ==
  ASSUME Private
  PROVE  Spec => []ChainOK
<1>1. Inv => ChainOK
  BY DEF Inv, Safe, ChainOK
<1> QED BY <1>1, OwnedHolds, PTL

\* What is left of the stops of a private program.
LEMMA StopPrivate ==
  ASSUME Private, TypeOK, Inv, OwnedInv, NEW why, StopEffect(why)
  PROVE  /\ why # "undefined"
         /\ why = "illegal" => "falloff" \in Features
<1>1. ASSUME NEW i \in Rtes \cup Waits, At(i)
      PROVE  Value(i.src) \notin Quaint \ alive
  BY <1>1, AtPrivate, VmAssumption DEF VM
<1> QED BY <1>1 DEF StopEffect

\* For every private program whose functions return the values they owe: the
\* interpreter follows no freed handle, no VM becomes its own ancestor and no
\* return is illegal.
THEOREM NeverBreaks ==
  ASSUME Private, "falloff" \notin Features
  PROVE  Spec => []NeverBroken
<1>1. Init => NeverBroken
  BY DEF Init, NeverBroken
<1>2. TypeOK /\ Inv /\ LifeInv /\ OwnedInv /\ NeverBroken /\ [Next]_vars
        => NeverBroken'
  <2> SUFFICES ASSUME TypeOK, Inv, LifeInv, OwnedInv, NeverBroken, [Next]_vars
               PROVE  NeverBroken'
    OBVIOUS
  <2>1. CASE Exec
    <3>1. Effect
      BY <2>1, StepEffect DEF Exec
    <3>2. CASE status' = status
      BY <3>2 DEF NeverBroken
    <3>3. ASSUME NEW why \in {"exited", "illegal", "nomem", "undefined"},
                 StopEffect(why)
          PROVE  NeverBroken'
      BY <3>3, StopPrivate DEF NeverBroken, StopEffect, Stop
    <3> QED BY <3>1, <3>2, <3>3, GoesOn
  <2>2. CASE Tick
    BY <2>2 DEF Tick, NeverBroken
  <2>3. CASE UNCHANGED vars
    BY <2>3 DEF vars, NeverBroken
  <2> QED BY <2>1, <2>2, <2>3 DEF Next, Ended
<1> QED BY <1>1, <1>2, TypeCorrect, LifeHolds, OwnedHolds, PTL DEF Spec

-----------------------------------------------------------------------------
(***************************************************************************)
(* The theorems: * and wait come back when they should.                    *)
(***************************************************************************)

\* A poll gives control back to a VM only if its wait is over.
LEMMA PollBack ==
  ASSUME TypeOK, NEW ch \in Seq(VM), NEW q \in [VM -> Struct],
         NEW t \in {now, clock}, Poll(ch, q, t),
         NEW i \in 1..(Len(ch) - 1), Len(chain') = i
  PROVE  \E u \in {now, clock} : Over(q[ch[i]].wait, qvm'[ch[i + 1]], u)
<1> DEFINE n == Len(ch)
<1>1. n \in Nat /\ i \in 1..n /\ i + 1 \in 1..n
  OBVIOUS
<1>2. chain' # ch
  BY <1>1
<1>3. PICK j \in 1..(n - 1), u \in {t, clock} :
        /\ Over(q[ch[j]].wait, q[ch[j + 1]], u)
        /\ chain' = SubSeq(ch, 1, j)
  BY <1>2, PollCases
<1>4. j = i
  <2>1. j \in 1..n
    BY <1>1
  <2> QED BY <1>3, <2>1, Prefix
<1>5. ch[i + 1] \in VM
  BY <1>1, ElementOfSeq
<1>6. qvm'[ch[i + 1]].last_passed = q[ch[i + 1]].last_passed
  BY <1>5, PollFields
<1>7. Over(q[ch[i]].wait, qvm'[ch[i + 1]], u)
  BY <1>3, <1>4, <1>6 DEF Over
<1> QED BY <1>7

\* A VM of the chain gets control back because the quaint it runs has been
\* taken, or the one it waits for has ended, or its wait is over.
LEMMA BackCases ==
  ASSUME Private, TypeOK, Inv, OwnedInv, Effect, NEW i \in 1..Len(chain),
         BackAt(i)
  PROVE  \/ qvm[chain[i]].insn.op = "RTE" /\ chain[i + 1] \notin alive'
         \/ qvm[chain[i]].insn.op = "WAIT" /\ qvm'[chain[i + 1]].at_end
         \/ \E u \in {now, clock} :
              Over(qvm[chain[i]].wait, qvm'[chain[i + 1]], u)
<1> DEFINE v == Running
           n == Len(chain)
           Goal == \E u \in {now, clock} :
                     Over(qvm[chain[i]].wait, qvm'[chain[i + 1]], u)
<1>1. /\ n \in Nat /\ v = chain[n] /\ v \in VM /\ qvm \in [VM -> Struct]
      /\ chain \in Seq(VM) /\ i < n /\ Len(chain') = i
  BY RunningType, Prefix DEF TypeOK, BackAt, Running
<1>2. i \in 1..(n - 1) /\ i \in 1..n /\ n \in 1..n /\ i + 1 \in 1..n
  BY <1>1
<1>3. \A k \in 1..n : chain[k] \in VM
  BY <1>1, ElementOfSeq
<1>4. chain[i] # v
  BY <1>1, <1>2 DEF Inv, Safe, Linked
<1> HIDE DEF v
<1>5. ASSUME NEW q \in [VM -> Struct], NEW t \in {now, clock}, Poll(chain, q, t),
             q[chain[i]] = qvm[chain[i]]
      PROVE  Goal
  BY <1>1, <1>2, <1>5, PollBack
<1>6. ASSUME NEW z \in Struct, NEW t \in {now, clock}, LocalEffect(z, t)
      PROVE  Goal
  <2> DEFINE q == [qvm EXCEPT ![v] = z]
  <2>1. q \in [VM -> Struct] /\ Poll(chain, q, t) /\ q[chain[i]] = qvm[chain[i]]
    BY <1>1, <1>2, <1>3, <1>4, <1>6 DEF LocalEffect, v
  <2> HIDE DEF q
  <2> QED BY <1>5, <2>1
<1>7. ASSUME NEW j \in Rtes \cup Waits, SkipEffect(j)
      PROVE  Goal
  <2> DEFINE q == Advance(qvm, v)
  <2>1. q \in [VM -> Struct] /\ Poll(chain, q, now) /\ q[chain[i]] = qvm[chain[i]]
    BY <1>1, <1>2, <1>3, <1>4, <1>7, AdvanceFields DEF SkipEffect, v
  <2> HIDE DEF q
  <2> QED BY <1>5, <2>1
<1>8. ASSUME NEW x \in Var, NEW c \in Quaint \ alive, NEW z \in Struct,
             CreateEffect(x, c, z)
      PROVE  Goal
  <2> DEFINE q == WithNew(x, c, z)
  <2>1. Poll(chain, q, now)
    BY <1>8 DEF CreateEffect, Created, WithNew
  <2>2. chain[i] \in VM \ {c, Running}
    BY <1>2, <1>3, <1>4, ChainAlive DEF v
  <2>3. q \in [VM -> Struct]
    BY WithNewFields
  <2>4. q[chain[i]] = qvm[chain[i]]
    BY <2>2, OtherThanNew
  <2> HIDE DEF q
  <2> QED BY <1>5, <2>1, <2>3, <2>4
<1>9. ASSUME NEW x \in Var, Drop(x)
      PROVE  Goal
  BY <1>1, <1>5, <1>9 DEF Drop
<1>10. ASSUME NEW j \in Rtes, TakeEffect(j)
       PROVE  Goal
  <2> DEFINE c == Value(j.src)
             r == [qvm EXCEPT ![c] = Zeroed]
             q == Advance(r, v)
  <2>1. c \in VM /\ chain[i] # c /\ Poll(chain, q, now)
    BY <1>2, <1>10, ChainUnended DEF TakeEffect, TypeOK, VM, v
  <2>2. r \in [VM -> Struct] /\ r[chain[i]] = qvm[chain[i]]
    <3> HIDE DEF c
    <3> QED BY <1>1, <1>2, <1>3, <2>1, ZeroedType
  <2> HIDE DEF r
  <2>3. q \in [VM -> Struct] /\ q[chain[i]] = qvm[chain[i]]
    BY <1>1, <1>2, <1>3, <1>4, <2>2, AdvanceFields
  <2> HIDE DEF q
  <2> QED BY <1>5, <2>1, <2>3
<1>11. ASSUME NEW j \in Rtes \cup Waits, NEW z \in Struct,
              NEW t \in {now, clock}, PushEffect(j, z, t)
       PROVE  Goal
  <2> DEFINE c == Value(j.src)
             ch == Append(chain, c)
             q == [qvm EXCEPT ![v] = z]
  <2>1. c \in VM /\ Poll(ch, q, t)
    BY <1>11 DEF PushEffect, TypeOK, VM, v
  <2>2. /\ ch \in Seq(VM) /\ Len(ch) = n + 1 /\ \A k \in 1..n : ch[k] = chain[k]
    BY <1>1, <2>1, AppendProperties
  <2>3. q \in [VM -> Struct] /\ q[chain[i]] = qvm[chain[i]]
    BY <1>1, <1>2, <1>3, <1>4, <2>1
  <2> HIDE DEF ch, q
  <2>4. ch[i] = chain[i] /\ ch[i + 1] = chain[i + 1] /\ i \in 1..(Len(ch) - 1)
    BY <1>1, <1>2, <2>2
  <2>5. \E u \in {now, clock} : Over(q[ch[i]].wait, qvm'[ch[i + 1]], u)
    BY <1>1, <2>1, <2>2, <2>3, <2>4, PollBack
  <2> QED BY <2>3, <2>4, <2>5
<1>12. ASSUME NEW t \in {now, clock}, PopEffect(t)
       PROVE  \/ qvm[chain[i]].insn.op = "RTE" /\ chain[i + 1] \notin alive'
              \/ qvm[chain[i]].insn.op = "WAIT" /\ qvm'[chain[i + 1]].at_end
              \/ Goal
  <2> DEFINE p == chain[n - 1]
             ch == SubSeq(chain, 1, n - 1)
  <2>1. PICK q \in [VM -> Struct] :
          /\ p \in VM /\ v \in VM /\ p # v
          /\ Poll(ch, q, t)
          /\ \A w \in VM \ {v, p} : q[w] = qvm[w]
          /\ \/ qvm[p].insn.op = "RTE" /\ alive' = alive \ {v}
             \/ qvm[p].insn.op = "WAIT" /\ q[v].at_end
    BY <1>12, PopFields DEF PopEffect, Popped, v
  <2>2. n - 1 \in 1..n /\ n - 1 \in Nat /\ (n - 1) + 1 = n
    BY <1>1, <1>2
  <2>3. ch \in Seq(VM) /\ Len(ch) = n - 1 /\ \A k \in 1..(n - 1) : ch[k] = chain[k]
    BY <1>1, <2>2, Prefix
  <2> HIDE DEF ch, n
  <2>4. CASE i = n - 1
    <3>1. chain[i] = p /\ chain[i + 1] = v
      BY <1>1, <2>2, <2>4
    <3>2. q[v].at_end => qvm'[v].at_end
      BY <2>1, <2>3, PollFields
    <3> HIDE DEF p
    <3> QED BY <2>1, <3>1, <3>2
  <2>5. CASE i # n - 1
    <3>1. i \in 1..((n - 1) - 1) /\ i + 1 \in 1..(n - 1) /\ i \in 1..(n - 1)
      BY <1>1, <1>2, <2>5
    <3>2. chain[i] # p /\ chain[i] \in VM
      BY <1>2, <1>3, <2>2, <2>5 DEF Inv, Safe, Linked, n
    <3>3. q[chain[i]] = qvm[chain[i]]
      BY <1>4, <2>1, <3>2
    <3>4. ch[i] = chain[i] /\ ch[i + 1] = chain[i + 1]
      BY <2>3, <3>1
    <3>5. \E u \in {now, clock} : Over(q[ch[i]].wait, qvm'[ch[i + 1]], u)
      BY <1>1, <2>1, <2>3, <3>1, PollBack
    <3> QED BY <3>3, <3>4, <3>5
  <2> QED BY <2>4, <2>5
<1>13. ASSUME NEW why, StopEffect(why)
       PROVE  FALSE
  BY <1>1, <1>13 DEF StopEffect, Stop
<1>14. ASSUME Mov
       PROVE  Goal
  <2> DEFINE q == Advance(qvm, v)
  <2>1. q \in [VM -> Struct] /\ Poll(chain, q, now) /\ q[chain[i]] = qvm[chain[i]]
    BY <1>1, <1>2, <1>3, <1>4, <1>14, AdvanceFields DEF Mov, v
  <2> HIDE DEF q
  <2> QED BY <1>5, <2>1
<1>15. "copy" \notin Features
  BY DEF Private
<1> HIDE DEF Goal
<1>16. \/ qvm[chain[i]].insn.op = "RTE" /\ chain[i + 1] \notin alive'
       \/ qvm[chain[i]].insn.op = "WAIT" /\ qvm'[chain[i + 1]].at_end
       \/ Goal
  BY <1>6, <1>7, <1>8, <1>9, <1>10, <1>11, <1>12, <1>13, <1>14, <1>15, NoKnot
  DEF Effect
<1> QED BY <1>16 DEF Goal

\* For every private program: a * returns only when the quaint has been taken.
THEOREM RteCorrect ==
  ASSUME Private
  PROVE  Spec => RteCompletes
<1> DEFINE A == \A i \in 1..Len(chain) :
                  BackAt(i) /\ qvm[chain[i]].insn.op = "RTE"
                    => chain[i + 1] \notin alive'
<1>1. TypeOK /\ Inv /\ LifeInv /\ OwnedInv /\ [Next]_vars => [A]_vars
  <2> SUFFICES ASSUME TypeOK, Inv, LifeInv, OwnedInv, Next
               PROVE  A \/ UNCHANGED vars
    OBVIOUS
  <2>1. CASE Exec
    <3> SUFFICES ASSUME NEW i \in 1..Len(chain), BackAt(i),
                        qvm[chain[i]].insn.op = "RTE"
                 PROVE  chain[i + 1] \notin alive'
      OBVIOUS
    <3>1. Effect
      BY <2>1, StepEffect DEF Exec
    <3>2. qvm[chain[i]].wait = NotWaiting
      BY ChainAlive DEF OwnedInv, Owned, FlagsMatch
    <3>3. \A u : ~ Over(qvm[chain[i]].wait, qvm'[chain[i + 1]], u)
      BY <3>2 DEF Over, NotWaiting
    <3> QED BY <3>1, <3>3, BackCases
  <2>2. CASE Tick
    BY <2>2 DEF Tick, BackAt
  <2> QED BY <2>1, <2>2 DEF Next, Ended
<1> QED
  BY <1>1, TypeCorrect, LifeHolds, OwnedHolds, PTL
  DEF Spec, RteCompletes

\* A remainder is not greater than what it is the remainder of.
LEMMA Remainder ==
  ASSUME NEW x \in Nat, NEW w \in Nat \ {0}
  PROVE  x % w <= x
<1> DEFINE d == x \div w
           m == x % w
<1>1. d \in Int /\ m \in 0..(w - 1) /\ x = w * d + m
  OBVIOUS
<1> HIDE DEF d, m
<1>2. d >= 0
  <2> SUFFICES ASSUME d <= -1 PROVE FALSE
    BY <1>1
  <2>1. w * d <= -w
    BY <1>1
  <2> QED BY <1>1, <2>1
<1>3. w * d >= 0
  BY <1>1, <1>2
<1>4. m <= x
  BY <1>1, <1>3
<1> QED BY <1>4 DEF m

\* A wait whose timer has run out has waited for the whole timeout.
LEMMA TimeoutPassed ==
  ASSUME TypeOK, Inv, NEW v \in VM, NEW u \in {now, clock},
         qvm[v].wait.mode = "for", NEW n \in Timeouts, n * UnitNs < Word,
         qvm[v].wait.interval = Interval(n),
         (u - qvm[v].wait.start) % Word >= qvm[v].wait.interval
  PROVE  clock - qvm[v].wait.start >= n * UnitNs
<1> DEFINE s == qvm[v].wait.start
           x == u - s
           k == n * UnitNs
<1>1. /\ now \in Nat /\ clock \in Nat /\ now <= clock /\ u \in Nat /\ u <= clock
      /\ Word \in Nat \ {0} /\ n \in Nat /\ UnitNs \in Nat
  BY BoundAssumption DEF TypeOK, Inv, Safe
<1>2. s \in Nat /\ s <= now
  <2>1. qvm[v].wait \in Waiting
    BY DEF TypeOK, Struct
  <2>2. s \in Nat
    BY <2>1 DEF Waiting, NotWaiting
  <2> QED BY <2>2 DEF Inv, Safe, Timed
<1>3. k \in Nat /\ k < Word /\ x % Word >= k % Word
  BY <1>1 DEF Interval
<1> HIDE DEF s, k
<1>4. k % Word = k
  BY <1>1, <1>3
<1>5. x \in Nat
  BY <1>1, <1>2
<1>6. x % Word <= x /\ x % Word \in Nat
  BY <1>1, <1>5, Remainder
<1>7. x >= k
  <2> DEFINE r == x % Word
  <2>1. r <= x /\ r >= k /\ r \in Nat
    BY <1>3, <1>4, <1>6
  <2> HIDE DEF r, x
  <2> QED BY <1>3, <1>5, <2>1
<1>8. clock - s >= k
  BY <1>1, <1>2, <1>3, <1>7
<1> QED BY <1>8 DEF s, k

\* For every private program whose timeouts fit the arithmetic of the timers:
\* a wait that has resumed a quaint returns only when its function has
\* returned, the whole timeout has passed, or the quaint is at the label.
THEOREM WaitCorrect ==
  ASSUME Private, \A n \in Timeouts : n * UnitNs < Word
  PROVE  Spec => WaitSound
<1> DEFINE A == \A i \in 1..Len(chain) :
                  BackAt(i) /\ qvm[chain[i]].insn.op = "WAIT"
                    => LET w == qvm[chain[i]].insn
                           c == chain[i + 1] IN
                       \/ qvm'[c].at_end
                       \/ /\ w.mode = "for"
                          /\ clock - qvm[chain[i]].wait.start >= w.arg * UnitNs
                       \/ w.mode = "until" /\ qvm'[c].last_passed = w.arg
<1>1. TypeOK /\ Inv /\ LifeInv /\ OwnedInv /\ [Next]_vars => [A]_vars
  <2> SUFFICES ASSUME TypeOK, Inv, LifeInv, OwnedInv, Next
               PROVE  A \/ UNCHANGED vars
    OBVIOUS
  <2>1. CASE Exec
    <3> SUFFICES ASSUME NEW i \in 1..Len(chain), BackAt(i),
                        qvm[chain[i]].insn.op = "WAIT"
                 PROVE  LET w == qvm[chain[i]].insn
                            c == chain[i + 1] IN
                        \/ qvm'[c].at_end
                        \/ /\ w.mode = "for"
                           /\ clock - qvm[chain[i]].wait.start >= w.arg * UnitNs
                        \/ w.mode = "until" /\ qvm'[c].last_passed = w.arg
      OBVIOUS
    <3> DEFINE v == chain[i]
               w == qvm[v].insn
    <3>1. Effect
      BY <2>1, StepEffect DEF Exec
    <3>2. v \in VM /\ FlagsMatch(qvm[v]) /\ w \in Insn
      BY ChainAlive DEF OwnedInv, Owned, TypeOK, Struct
    <3>3. \/ w.mode = "plain"
          \/ w.mode = "for" /\ w.arg \in Timeouts
          \/ w.mode = "until"
      BY <3>2 DEF Insn, Run
    <3>4. /\ qvm[v].wait.mode = w.mode
          /\ w.mode = "for" => qvm[v].wait.interval = Interval(w.arg)
          /\ w.mode = "until" => qvm[v].wait.label = w.arg
      BY <3>2 DEF FlagsMatch
    <3>5. CASE qvm'[chain[i + 1]].at_end
      BY <3>5
    <3>6. ASSUME NEW u \in {now, clock},
                 Over(qvm[v].wait, qvm'[chain[i + 1]], u)
          PROVE  \/ /\ w.mode = "for"
                    /\ clock - qvm[v].wait.start >= w.arg * UnitNs
                 \/ w.mode = "until" /\ qvm'[chain[i + 1]].last_passed = w.arg
      <4>1. CASE w.mode = "for"
        <5> DEFINE n == w.arg
        <5>1. /\ n \in Timeouts /\ n * UnitNs < Word
              /\ qvm[v].wait.mode = "for" /\ qvm[v].wait.interval = Interval(n)
          BY <3>3, <3>4, <4>1
        <5>2. (u - qvm[v].wait.start) % Word >= qvm[v].wait.interval
          BY <3>6, <5>1 DEF Over
        <5> HIDE DEF n, v
        <5>3. clock - qvm[v].wait.start >= n * UnitNs
          BY <3>2, <5>1, <5>2, TimeoutPassed
        <5> QED BY <4>1, <5>3 DEF n
      <4>2. CASE w.mode # "for"
        BY <3>3, <3>4, <3>6, <4>2 DEF Over
      <4> QED BY <4>1, <4>2
    <3> QED BY <3>1, <3>5, <3>6, BackCases
  <2>2. CASE Tick
    BY <2>2 DEF Tick, BackAt
  <2> QED BY <2>1, <2>2 DEF Next, Ended
<1> QED
  BY <1>1, TypeCorrect, LifeHolds, OwnedHolds, PTL
  DEF Spec, WaitSound
=============================================================================
