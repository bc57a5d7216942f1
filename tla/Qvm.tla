--------------------------------- MODULE Qvm ---------------------------------
(***************************************************************************)
(* The resumable-function core of the Quaint virtual machine               *)
(* (src/src/exec.c): quaints are created with ~, resumed by the wait       *)
(* statement and the * operator, and frozen again by the poll that runs    *)
(* after every instruction.                                                *)
(*                                                                         *)
(* Every action is one iteration of the loop of exec(): the handler of one *)
(* instruction followed by check_and_eventually_split_vms().  The program  *)
(* is arbitrary: whenever the running VM is free to, it executes any       *)
(* instruction the constants allow, and CanUse, MaxNoint and Features say  *)
(* which class of programs that is.                                        *)
(*                                                                         *)
(* The parent pointers of the running VM and of its ancestors are the      *)
(* sequence chain: chain[1] is the VM of exec(), the last element is the   *)
(* global vm.  A parent pointer is only ever followed from the running VM  *)
(* upwards and is overwritten when the quaint is resumed, so a frozen      *)
(* quaint has no place in the chain.                                       *)
(***************************************************************************)
EXTENDS Integers, Sequences, FiniteSets

CONSTANTS
  Quaint,    \* the addresses calloc() may return for a quaint
  Root,      \* the VM that exec() itself allocates
  Null,      \* the null quaint
  Var,       \* the program's variables of a quaint type
  CanUse,    \* CanUse[v]: the VMs whose code names v (a local: just one)
  Valued,    \* the quaints with a non-void subtype
  Label,     \* wait labels
  NoLabel,   \* last_passed of a quaint that has passed none
  Timeouts,  \* values of the timeout operand of wait ... for
  UnitNs,    \* ticks of the clock per unit of the timeout
  Word,      \* number of values of the timeout arithmetic (2^64 in the code)
  Period,    \* the clock is read every Period polls (200 in the code)
  MaxClock,  \* bound on the clock
  MaxFrames, \* bound on the call depth inside one VM
  MaxNoint,  \* bound on the lexical nesting of noint blocks in a function
  Features,  \* what the program may do, see FeatureNames
  Failures   \* which system calls may fail: "alloc", "clock"

VM == {Root} \cup Quaint

\* "nest":     a noint block entered while another one of the VM is open
\* "retnoint": return from inside a noint block
\* "falloff":  a function with a value ends without return
\* "bfun":     ~ applied to a call of a built-in function
\* "deref":    wait and * on a handle loaded through a pointer
\* "copy":     a handle copied from one variable into another
FeatureNames == {"nest", "retnoint", "falloff", "bfun", "deref", "copy"}

ASSUME VmAssumption ==
  /\ Root \notin Quaint
  /\ Null \notin VM
  /\ Var \cap Quaint = {}
  /\ Valued \subseteq Quaint
  /\ CanUse \in [Var -> SUBSET VM]
  /\ NoLabel \notin Label

ASSUME BoundAssumption ==
  /\ Timeouts \subseteq Nat
  /\ UnitNs \in Nat \ {0}
  /\ Word \in Nat \ {0}
  /\ Period \in Nat \ {0}
  /\ MaxClock \in Nat
  /\ MaxFrames \in Nat \ {0}
  /\ MaxNoint \in Nat
  /\ Features \subseteq FeatureNames
  /\ Failures \subseteq {"alloc", "clock"}

VARIABLES
  chain,   \* the running VM (last) and its parents, up to Root (first)
  qvm,     \* [VM -> struct qvm]
  mem,     \* [Var -> the handle stored in the variable]
  alive,   \* the quaints that are allocated
  clock,   \* CLOCK_MONOTONIC
  now,     \* the global now: the clock as last read
  cycles,  \* the static counter of the poll, modulo Period
  status   \* "running", or why exec() or the process has ended

vars == <<chain, qvm, mem, alive, clock, now, cycles, status>>

-----------------------------------------------------------------------------
(***************************************************************************)
(* The state of one VM.  insn is the instruction at ip when it is fixed,   *)
(* that is when it has been executed and has not advanced ip (a WAIT or    *)
(* RTE that resumed a quaint) or when the code generator puts no other     *)
(* after the one before it (the MOV that stores what QNT or QNTV has left  *)
(* in a temporary), and Run when any instruction may come next.            *)
(* frames is the call stack: where each activation is and how many noint   *)
(* blocks of its text it is inside of.                                     *)
(***************************************************************************)
Run == [op |-> "RUN"]

Operand == Var \cup Quaint

Insn ==
  {Run} \cup [op : {"MOV"}, dst : Var, src : Quaint]
        \cup [op : {"RTE"}, src : Operand]
        \cup [op : {"WAIT"}, src : Operand, mode : {"plain"}]
        \cup [op : {"WAIT"}, src : Operand, mode : {"for"}, arg : Timeouts]
        \cup [op : {"WAIT"}, src : Operand, mode : {"until"}, arg : Label]

\* The waiting flags and the union of wait_for and wait_until
NotWaiting == [mode |-> "none"]

Waiting ==
  {NotWaiting} \cup [mode : {"plain"}]
               \cup [mode : {"for"}, start : Nat, interval : Nat]
               \cup [mode : {"until"}, label : Label]

Frame == [at : {"entry", "body", "bfun"}, noint : 0..MaxNoint]

Struct == [insn : Insn, frames : Seq(Frame), at_start : BOOLEAN,
           at_end : BOOLEAN, noint : BOOLEAN, wait : Waiting,
           last_passed : Label \cup {NoLabel}]

\* calloc: a struct qvm of zeroes
Zeroed == [insn |-> Run, frames |-> <<>>, at_start |-> FALSE,
           at_end |-> FALSE, noint |-> FALSE, wait |-> NotWaiting,
           last_passed |-> NoLabel]

Entered(where) == <<[at |-> where, noint |-> 0]>>

Running == chain[Len(chain)]

Top(v) == qvm[v].frames[Len(qvm[v].frames)]

\* The call stack s with f as its running activation
SetTop(s, f) == [s EXCEPT ![Len(s)] = f]

\* The VM is inside the text of a noint block in one of its activations
InNoint(q) == \E k \in 1..Len(q.frames) : q.frames[k].noint > 0

\* The handle an operand holds: a variable, or a temporary copy of it
Value(src) == IF src \in Var THEN mem[src] ELSE src

\* The operands the code of VM v may name
Operands(v) ==
  {x \in Var : v \in CanUse[x]} \cup
  (IF "deref" \in Features
   THEN {mem[x] : x \in {y \in Var : v \in CanUse[y]}} \ {Null}
   ELSE {})

\* VM v may execute an instruction of its own choice
Free(v) == /\ qvm[v].insn = Run
           /\ qvm[v].frames # <<>>
           /\ Top(v).at = "body"

-----------------------------------------------------------------------------
(***************************************************************************)
(* check_and_eventually_split_vms(): read the clock every Period-th time,  *)
(* walk from the running VM to its parents until one has noint set, and    *)
(* make the first one whose wait is over the running VM.  The handler's    *)
(* results ch, q and t are the chain, the VMs and the value of now after   *)
(* the instruction.                                                        *)
(***************************************************************************)
Over(w, child, t) ==
  \/ w.mode = "for"   /\ (t - w.start) % Word >= w.interval
  \/ w.mode = "until" /\ child.last_passed = w.label

\* Variants of Splits: the walk that forgets the noint flags of the parents,
\* that compares the label with the running VM, or that stops at one parent
SplitsOwnNoint(ch, q, t) ==
  {i \in 1..(Len(ch) - 1) :
     /\ Over(q[ch[i]].wait, q[ch[i + 1]], t)
     /\ ~ q[ch[Len(ch)]].noint}

SplitsAnyLabel(ch, q, t) ==
  {i \in 1..(Len(ch) - 1) :
     /\ Over(q[ch[i]].wait, q[ch[Len(ch)]], t)
     /\ \A j \in (i + 1)..Len(ch) : ~ q[ch[j]].noint}

SplitsOneParent(ch, q, t) ==
  {i \in {Len(ch) - 1} \ {0} :
     /\ Over(q[ch[i]].wait, q[ch[i + 1]], t)
     /\ ~ q[ch[i + 1]].noint}

Splits(ch, q, t) ==
  {i \in 1..(Len(ch) - 1) :
     /\ Over(q[ch[i]].wait, q[ch[i + 1]], t)
     /\ \A j \in (i + 1)..Len(ch) : ~ q[ch[j]].noint}

\* ip++ past the WAIT that is over, or past an RTE
Advance(q, v) == [q EXCEPT ![v].insn = Run]

\* A variant of EndWait: the ip stays at the WAIT
EndWaitKeepsIp(q, v) == [q EXCEPT ![v].wait = NotWaiting]

\* ... and the waiting flags cleared
EndWait(q, v) ==
  [q EXCEPT ![v] = [q[v] EXCEPT !.insn = Run, !.wait = NotWaiting]]

Walk(ch, q, t) ==
  \/ /\ Splits(ch, q, t) = {}
     /\ chain' = ch
     /\ qvm' = q
  \/ \E i \in Splits(ch, q, t) :
       /\ \A j \in Splits(ch, q, t) : j <= i
       /\ chain' = SubSeq(ch, 1, i)
       /\ qvm' = EndWait(q, ch[i])

Poll(ch, q, t) ==
  /\ cycles' = (cycles + 1) % Period
  /\ \/ cycles # 0 /\ now' = t /\ Walk(ch, q, t)
     \/ cycles = 0 /\ now' = clock /\ Walk(ch, q, clock)
     \/ /\ cycles = 0 /\ "clock" \in Failures
        /\ now' = t /\ chain' = ch /\ qvm' = q
  /\ UNCHANGED <<clock, status>>

\* The interpreter stops: an error, a crash, or the end of the program
Stop(why) ==
  /\ status' = why
  /\ UNCHANGED <<chain, qvm, mem, alive, clock, now, cycles>>

-----------------------------------------------------------------------------
(***************************************************************************)
(* Instructions that touch only the running VM.                            *)
(***************************************************************************)

\* Arithmetic, jumps, QAT, and the moves and pushes of anything but a handle:
\* no effect on the state kept here
Compute ==
  /\ Free(Running)
  /\ Poll(chain, qvm, now)
  /\ UNCHANGED <<mem, alive>>

\* A variant: at_start is not cleared
IncspKeepsStart ==
  LET v == Running
      f == [Top(v) EXCEPT !.at = "body"] IN
  /\ qvm[v].frames # <<>> /\ Top(v).at = "entry"
  /\ Poll(chain, [qvm EXCEPT ![v].frames = SetTop(qvm[v].frames, f)], now)
  /\ UNCHANGED <<mem, alive>>

\* INCSP, the first instruction of every function
Incsp ==
  LET v == Running
      f == [Top(v) EXCEPT !.at = "body"] IN
  /\ qvm[v].frames # <<>> /\ Top(v).at = "entry"
  /\ \/ /\ Poll(chain,
               [qvm EXCEPT ![v] =
                  [qvm[v] EXCEPT !.at_start = FALSE,
                                 !.frames = SetTop(qvm[v].frames, f)]],
               now)
        /\ UNCHANGED <<mem, alive>>
     \/ "alloc" \in Failures /\ Stop("nomem")

\* WLAB
Wlab(l) ==
  LET v == Running IN
  /\ Free(v)
  /\ Poll(chain, [qvm EXCEPT ![v].last_passed = l], now)
  /\ UNCHANGED <<mem, alive>>

\* NOINT, at the beginning of a noint block
NointInsn ==
  LET v == Running
      f == [Top(v) EXCEPT !.noint = @ + 1] IN
  /\ Free(v)
  /\ Top(v).noint < MaxNoint
  /\ "nest" \in Features \/ ~ InNoint(qvm[v])
  /\ Poll(chain,
          [qvm EXCEPT ![v] =
             [qvm[v] EXCEPT !.noint = TRUE,
                            !.frames = SetTop(qvm[v].frames, f)]],
          now)
  /\ UNCHANGED <<mem, alive>>

\* Variants of IntInsn: it leaves the flag set, or ends every block
IntKeepsFlag ==
  LET v == Running
      f == [Top(v) EXCEPT !.noint = @ - 1] IN
  /\ Free(v)
  /\ Top(v).noint > 0
  /\ Poll(chain, [qvm EXCEPT ![v].frames = SetTop(@, f)], now)
  /\ UNCHANGED <<mem, alive>>

IntEveryBlock ==
  LET v == Running
      f == [Top(v) EXCEPT !.noint = @ - 1] IN
  /\ Free(v)
  /\ Poll(chain, [qvm EXCEPT ![v] =
                    [qvm[v] EXCEPT !.noint = FALSE,
                                   !.frames = SetTop(qvm[v].frames, f)]], now)
  /\ UNCHANGED <<mem, alive>>

\* INT, at the end of a noint block
IntInsn ==
  LET v == Running
      f == [Top(v) EXCEPT !.noint = @ - 1] IN
  /\ Free(v)
  /\ Top(v).noint > 0
  /\ Poll(chain,
          [qvm EXCEPT ![v] =
             [qvm[v] EXCEPT !.noint = FALSE,
                            !.frames = SetTop(qvm[v].frames, f)]],
          now)
  /\ UNCHANGED <<mem, alive>>

\* CALL and CALLV, of a function of the program or of a built-in one
Call(where) ==
  LET v == Running IN
  /\ Free(v)
  /\ Len(qvm[v].frames) < MaxFrames
  /\ Poll(chain, [qvm EXCEPT ![v].frames = @ \o Entered(where)], now)
  /\ UNCHANGED <<mem, alive>>

-----------------------------------------------------------------------------
(***************************************************************************)
(* handle_return(): the end of an activation.  Below the last activation   *)
(* of a VM lies the VM that resumed it, and the instruction that VM is     *)
(* suspended at decides what happens; below the last one of Root lies the  *)
(* end of the program.                                                     *)
(***************************************************************************)
ReturnToCaller(t) ==
  LET v == Running
      n == Len(qvm[v].frames) IN
  /\ n > 1
  /\ Poll(chain, [qvm EXCEPT ![v].frames = SubSeq(@, 1, n - 1)], t)
  /\ UNCHANGED <<mem, alive>>

\* Variant of ReturnToRte: src keeps the freed handle
ReturnToRteKeepsHandle(t) ==
  LET v == Running
      p == chain[Len(chain) - 1] IN
  /\ qvm[p].insn.op = "RTE"
  /\ alive' = alive \ {v}
  /\ Poll(SubSeq(chain, 1, Len(chain) - 1),
          Advance([qvm EXCEPT ![v] = Zeroed], p), t)
  /\ UNCHANGED mem

\* The resumer runs *src: take the value, free the quaint, nullify src
ReturnToRte(t) ==
  LET v == Running
      p == chain[Len(chain) - 1]
      src == qvm[p].insn.src IN
  /\ qvm[p].insn.op = "RTE"
  /\ alive' = alive \ {v}
  /\ mem' = IF src \in Var THEN [mem EXCEPT ![src] = Null] ELSE mem
  /\ Poll(SubSeq(chain, 1, Len(chain) - 1),
          Advance([qvm EXCEPT ![v] = Zeroed], p), t)

\* Variant of ReturnToWait: the waiting flags of the resumer stay set
ReturnToWaitKeepsFlags(t) ==
  LET v == Running
      p == chain[Len(chain) - 1] IN
  /\ qvm[p].insn.op = "WAIT"
  /\ Poll(SubSeq(chain, 1, Len(chain) - 1),
          Advance([qvm EXCEPT ![v] = [qvm[v] EXCEPT !.at_end = TRUE,
                                                    !.last_passed = NoLabel,
                                                    !.frames = <<>>]], p), t)
  /\ UNCHANGED <<mem, alive>>

\* The resumer waits: keep the value in the quaint, which has now ended
ReturnToWait(t) ==
  LET v == Running
      p == chain[Len(chain) - 1] IN
  /\ qvm[p].insn.op = "WAIT"
  /\ Poll(SubSeq(chain, 1, Len(chain) - 1),
          EndWait([qvm EXCEPT ![v] = [qvm[v] EXCEPT !.at_end = TRUE,
                                                    !.last_passed = NoLabel,
                                                    !.frames = <<>>]], p), t)
  /\ UNCHANGED <<mem, alive>>

\* withValue: the function delivers a value; t: now after the instruction
HandleReturn(withValue, t) ==
  LET v == Running
      p == chain[Len(chain) - 1] IN
  \/ ReturnToCaller(t)
  \/ Len(qvm[v].frames) = 1 /\ Len(chain) = 1 /\ Stop("exited")
  \/ /\ Len(qvm[v].frames) = 1 /\ Len(chain) > 1
     /\ \/ withValue = (v \in Valued) /\ ReturnToRte(t)
        \/ ReturnToWait(t)
        \/ /\ qvm[p].insn.op # "WAIT"
           /\ qvm[p].insn.op = "RTE" => withValue # (v \in Valued)
           /\ Stop("illegal")

\* RET and RETV
Ret(withValue) ==
  LET v == Running IN
  /\ Free(v)
  /\ Top(v).noint = 0 \/ "retnoint" \in Features
  /\ withValue = (v \in Valued) \/ (~ withValue /\ "falloff" \in Features)
  /\ HandleReturn(withValue, now)

\* BFUN: a built-in function runs and returns; monotime reads the clock
Bfun ==
  LET v == Running IN
  /\ qvm[v].frames # <<>> /\ Top(v).at = "bfun"
  /\ \/ \E t \in {now, clock} : HandleReturn(v \in Valued, t)
     \/ Stop("exited")
     \/ Failures # {} /\ Stop("nomem")

-----------------------------------------------------------------------------
(***************************************************************************)
(* Instructions on quaints.                                                *)
(***************************************************************************)

\* A quaint of struct z is allocated at q; its handle is in a temporary of
\* the running VM, and the next instruction of that VM stores it in x.
Created(x, q, z) ==
  /\ alive' = alive \cup {q}
  /\ Poll(chain,
          [qvm EXCEPT ![Running].insn = [op |-> "MOV", dst |-> x, src |-> q],
                      ![q] = z], now)
  /\ UNCHANGED mem

\* QNT: ~f(...), for x; where tells a built-in f from another
Qnt(x, where) ==
  /\ Free(Running) /\ Running \in CanUse[x]
  /\ \/ \E q \in Quaint \ alive :
          Created(x, q, [Zeroed EXCEPT !.at_start = TRUE,
                                       !.frames = Entered(where)])
     \/ "alloc" \in Failures /\ Stop("nomem")

\* QNTV: ~value, for x
Qntv(x) ==
  /\ Free(Running) /\ Running \in CanUse[x]
  /\ \/ \E q \in Valued \ alive :
          Created(x, q, [Zeroed EXCEPT !.at_start = TRUE, !.at_end = TRUE])
     \/ "alloc" \in Failures /\ Stop("nomem")

\* MOV of the temporary of QNT or QNTV into the variable: the quaint it held,
\* if any, is orphaned
Mov ==
  LET i == qvm[Running].insn IN
  /\ i.op = "MOV"
  /\ mem' = [mem EXCEPT ![i.dst] = i.src]
  /\ Poll(chain, Advance(qvm, Running), now)
  /\ UNCHANGED alive

\* MOV and PUSH of a handle: an assignment, an initializer, an argument or a
\* function's value of a quaint type.  A local variable declared without an
\* initializer starts with what the stack held there, an old handle say.
Copy(x, y) ==
  /\ Free(Running) /\ Running \in CanUse[x] \cap CanUse[y]
  /\ mem' = [mem EXCEPT ![x] = mem[y]]
  /\ Poll(chain, qvm, now)
  /\ UNCHANGED alive

\* MOV of null into x: the quaint x held, if any, is orphaned
Drop(x) ==
  /\ Free(Running) /\ Running \in CanUse[x]
  /\ mem' = [mem EXCEPT ![x] = Null]
  /\ Poll(chain, qvm, now)
  /\ UNCHANGED alive

\* The running VM is at instruction i: again, or as its own choice
At(i) ==
  \/ qvm[Running].insn = i
  \/ Free(Running) /\ i.src \in Operands(Running)

\* Quaint c, a parent of the running VM or that VM itself, is resumed like any
\* other: its parent is overwritten, and with that the parents go round from
\* c to c.  Root is not among them any more, so it never gets control back;
\* the poll goes round with them, for ever if none of them is in a noint block
\* or has a wait that is over.  What the VMs of the cycle do from here on is
\* not modelled.
Knot(c, q, t) ==
  /\ \E k \in 1..Len(chain) :
       /\ chain[k] = c
       /\ chain' = Append(SubSeq(chain, k, Len(chain)), c)
  /\ qvm' = q
  /\ now' = t
  /\ status' = "cyclic"
  /\ UNCHANGED <<mem, alive, clock, cycles>>

\* Resume quaint c: the running VM becomes its parent
Resume(c, q, t) ==
  /\ c \in alive
  /\ \/ /\ \A k \in 1..Len(chain) : chain[k] # c
        /\ Poll(Append(chain, c), q, t)
        /\ UNCHANGED <<mem, alive>>
     \/ Knot(c, q, t)

\* Variant of Rte: the value of an ended quaint is taken, src is not nullified
RteKeepsHandle(i) ==
  LET v == Running
      c == Value(i.src) IN
  /\ At(i)
  /\ \/ /\ c = Null
        /\ Poll(chain, Advance(qvm, v), now)
        /\ UNCHANGED <<mem, alive>>
     \/ /\ c \in alive /\ qvm[c].at_end
        /\ alive' = alive \ {c}
        /\ Poll(chain, Advance([qvm EXCEPT ![c] = Zeroed], v), now)
        /\ UNCHANGED mem
     \/ /\ c \in alive /\ ~ qvm[c].at_end
        /\ Resume(c, [qvm EXCEPT ![v].insn = i], now)

\* RTE and RTEV: *src
Rte(i) ==
  LET v == Running
      c == Value(i.src) IN
  /\ At(i)
  /\ \/ /\ c = Null
        /\ Poll(chain, Advance(qvm, v), now)
        /\ UNCHANGED <<mem, alive>>
     \/ /\ c \in alive /\ qvm[c].at_end
        /\ alive' = alive \ {c}
        /\ mem' = IF i.src \in Var THEN [mem EXCEPT ![i.src] = Null] ELSE mem
        /\ Poll(chain, Advance([qvm EXCEPT ![c] = Zeroed], v), now)
     \/ /\ c \in alive /\ ~ qvm[c].at_end
        /\ Resume(c, [qvm EXCEPT ![v].insn = i], now)
     \/ c \in Quaint \ alive /\ Stop("undefined")

\* The timeout in nanoseconds, computed in an uint64_t
Interval(units) == (units * UnitNs) % Word

Flags(i) ==
  CASE i.mode = "plain" -> [mode |-> "plain"]
    [] i.mode = "for"   -> [mode |-> "for", start |-> clock,
                            interval |-> Interval(i.arg)]
    [] i.mode = "until" -> [mode |-> "until", label |-> i.arg]

\* Variants of Wait: it resumes an ended quaint, or reads the clock into the
\* start of the timer and not into now
WaitOnEnded(i) ==
  LET v == Running
      c == Value(i.src) IN
  /\ At(i)
  /\ \/ /\ c = Null
        /\ Poll(chain, Advance(qvm, v), now)
        /\ UNCHANGED <<mem, alive>>
     \/ /\ c \in alive
        /\ i.mode = "for" => i.arg # 0
        /\ Resume(c, [qvm EXCEPT ![v] = [qvm[v] EXCEPT !.insn = i,
                                                       !.wait = Flags(i)]],
                  IF i.mode = "for" THEN clock ELSE now)

WaitOldNow(i) ==
  LET v == Running
      c == Value(i.src) IN
  /\ At(i)
  /\ \/ /\ c = Null \/ (c \in alive /\ qvm[c].at_end)
        /\ Poll(chain, Advance(qvm, v), now)
        /\ UNCHANGED <<mem, alive>>
     \/ /\ c \in alive /\ ~ qvm[c].at_end
        /\ i.mode = "for" => i.arg # 0
        /\ Resume(c, [qvm EXCEPT ![v] = [qvm[v] EXCEPT !.insn = i,
                                                       !.wait = Flags(i)]],
                  now)

\* WAIT: wait src [for timeout | until label]
Wait(i) ==
  LET v == Running
      c == Value(i.src) IN
  /\ At(i)
  /\ \/ /\ \/ c = Null
           \/ c \in alive /\ qvm[c].at_end
           \/ c \in alive /\ i.mode = "for" /\ i.arg = 0
        /\ Poll(chain, Advance(qvm, v), now)
        /\ UNCHANGED <<mem, alive>>
     \/ /\ c \in alive /\ ~ qvm[c].at_end
        /\ i.mode = "for" => i.arg # 0
        /\ \/ Resume(c, [qvm EXCEPT ![v] = [qvm[v] EXCEPT !.insn = i,
                                                       !.wait = Flags(i)]],
                     IF i.mode = "for" THEN clock ELSE now)
           \/ i.mode = "for" /\ "clock" \in Failures /\ Stop("nomem")
     \/ c \in Quaint \ alive /\ Stop("undefined")

-----------------------------------------------------------------------------
Rtes  == [op : {"RTE"}, src : Operand]
Waits == {i \in Insn : i.op = "WAIT"}

\* exec(): Root starts at the first instruction of the first function
Init ==
  /\ chain = <<Root>>
  /\ qvm = [v \in VM |-> IF v = Root
                         THEN [Zeroed EXCEPT !.frames = Entered("entry")]
                         ELSE Zeroed]
  /\ mem = [x \in Var |-> Null]
  /\ alive = {}
  /\ clock = 0 /\ now = 0 /\ cycles = 0
  /\ status = "running"

Step ==
  \/ Compute
  \/ Incsp
  \/ \E l \in Label : Wlab(l)
  \/ NointInsn
  \/ IntInsn
  \/ Call("entry")
  \/ Call("bfun")
  \/ \E b \in BOOLEAN : Ret(b)
  \/ Bfun
  \/ \E x \in Var : Qnt(x, "entry")
  \/ "bfun" \in Features /\ \E x \in Var : Qnt(x, "bfun")
  \/ \E x \in Var : Qntv(x)
  \/ Mov
  \/ \E x \in Var : Drop(x)
  \/ "copy" \in Features /\ \E x, y \in Var : Copy(x, y)
  \/ \E i \in Rtes : Rte(i)
  \/ \E i \in Waits : Wait(i)

\* One instruction of the loop of exec()
Exec == status = "running" /\ Step

\* The clock advances on its own
Tick ==
  /\ status = "running"
  /\ clock < MaxClock
  /\ clock' = clock + 1
  /\ UNCHANGED <<chain, qvm, mem, alive, now, cycles, status>>

\* Once exec() has returned nothing happens any more
Ended == status # "running" /\ UNCHANGED vars

Next == Exec \/ Tick \/ Ended

Spec == Init /\ [][Next]_vars

-----------------------------------------------------------------------------
(***************************************************************************)
(* Properties.                                                             *)
(***************************************************************************)

\* Every variable of the model has its type, and the bounds are respected.
TypeOK ==
  /\ chain \in Seq(VM) /\ chain # <<>>
  /\ qvm \in [VM -> Struct]
  /\ mem \in [Var -> Quaint \cup {Null}]
  /\ alive \subseteq Quaint
  /\ clock \in 0..MaxClock /\ now \in 0..MaxClock
  /\ cycles \in 0..(Period - 1)
  /\ status \in {"running", "exited", "illegal", "nomem", "cyclic",
                 "undefined"}

\* The VM of struct s is suspended at the instruction that resumed another
Suspended(s) == s.insn.op \in {"WAIT", "RTE"}

Linked(ch, q, a) ==
  /\ ch[1] = Root
  /\ \A i, j \in 1..Len(ch) : ch[i] = ch[j] => i = j
  /\ \A i \in 2..Len(ch) : ch[i] \in a /\ ~ q[ch[i]].at_end
  /\ \A i \in 1..(Len(ch) - 1) : Suspended(q[ch[i]])

\* The parents of the running VM (check_and_eventually_split_vms and
\* handle_return follow them without a test): they start at Root, no VM is
\* its own ancestor, all of them are allocated and unfinished, and every VM
\* but the running one is suspended at a WAIT or an RTE.  A program in which
\* a quaint finds its own handle, in a global variable say, breaks it.
ChainOK == Linked(chain, qvm, alive)

Usable(ch, q, a) ==
  /\ \A i \in 1..Len(ch) : ch[i] = Root \/ (ch[i] \in a /\ ~ q[ch[i]].at_end)
  /\ \A i \in 1..(Len(ch) - 1) : Suspended(q[ch[i]])

\* Whoever the parents are, and even when they go round: a parent pointer
\* never leads to a quaint that has been freed or that has ended, nor to one
\* whose ip is anywhere but at the WAIT or RTE which the poll steps over and
\* handle_return reads.
ParentsUsable == Usable(chain, qvm, alive)

Timed(q, t) ==
  \A v \in VM : q[v].wait.mode = "for" => q[v].wait.start <= t

\* insn_wait takes the start of a timer from the same reading of the clock
\* as the global now, so the unsigned now - start of the poll never wraps.
TimersSane == now <= clock /\ Timed(qvm, now)

Held(ch, q, a) ==
  \A c \in a :
    (\A i \in 1..Len(ch) : ch[i] # c) /\ ~ q[c].at_end => ~ InNoint(q[c])

\* A quaint that is frozen is not in the middle of a noint block: no wait up
\* in the call stack has interrupted the block's statement sequence
\* (README.md, "The noint block").
NointHeld == Held(chain, qvm, alive)

\* The noint flag of an unfinished VM is set only while the VM is inside a
\* noint block, so that it can be interrupted everywhere else.
NointOnlyInside ==
  \A v \in VM : qvm[v].noint /\ ~ qvm[v].at_end => InNoint(qvm[v])

\* The VM whose temporary holds the handle of a new quaint
Storing(q, v) == q[v].insn.op = "MOV"

\* A variable holds null or an allocated quaint, and no two variables hold
\* the same one: * frees the quaint and nullifies the variable it came from.
\* The quaint in a temporary of a VM that is about to store it, or that has
\* been frozen before it could, is in no variable.
HandlesValid ==
  /\ \A x \in Var : mem[x] \in alive \cup {Null}
  /\ \A x, y \in Var : mem[x] = mem[y] /\ mem[x] # Null => x = y
  /\ \A v \in VM : Storing(qvm, v) =>
       qvm[v].insn.src \in alive /\ \A x \in Var : mem[x] # qvm[v].insn.src

\* The interpreter never follows a freed handle, never makes a VM its own
\* ancestor (the poll would loop for ever) and never meets an illegal return.
NeverBroken == status \notin {"illegal", "cyclic", "undefined"}

\* The VM that was at position i of the chain gets control back in this step.
BackAt(i) == i < Len(chain) /\ chain' = SubSeq(chain, 1, i)

\* *q returns only when the quaint has terminated, and then it has been
\* freed: no wait up in the call stack makes the operator return early.
RteCompletes ==
  [][\A i \in 1..Len(chain) :
       BackAt(i) /\ qvm[chain[i]].insn.op = "RTE"
         => chain[i + 1] \notin alive']_vars

\* A wait that has resumed a quaint returns only when the function has
\* returned, the whole timeout has passed on the clock, or the quaint is at
\* the label.
WaitSound ==
  [][\A i \in 1..Len(chain) :
       BackAt(i) /\ qvm[chain[i]].insn.op = "WAIT"
         => LET w == qvm[chain[i]].insn
                c == chain[i + 1] IN
            \/ qvm'[c].at_end
            \/ /\ w.mode = "for"
               /\ clock - qvm[chain[i]].wait.start >= w.arg * UnitNs
            \/ w.mode = "until" /\ qvm'[c].last_passed = w.arg]_vars

\* insn_qat: the query q@start, q@end or q@label on the VM struct q
Query(q, what) ==
  CASE what = "start" -> q.at_start
    [] what = "end"   -> q.at_end
    [] OTHER          -> q.last_passed = what

\* A quaint whose function returns to a wait is not at its start any more, so
\* that q@start and q@end together tell a quaint that holds a value (README.md,
\* "The @ query operator").
EndedNotAtStart ==
  [][\A q \in alive \cap alive' :
       ~ Query(qvm[q], "end") /\ Query(qvm'[q], "end")
         => ~ Query(qvm'[q], "start")]_vars

\* The quaints that a VM is waiting on, or is frozen in a wait on, in programs
\* where only that VM names the variable
WaitedOn ==
  {Value(qvm[v].insn.src) : v \in {w \in VM : qvm[w].insn.op = "WAIT"}}

\* A quaint that has been waited on and is frozen again is not at its start:
\* "q@start returns 1 only when the quaint has just been created with the ~
\* operator and has never been waited on" (README.md, "The @ query operator").
StartIsFresh ==
  \A c \in WaitedOn \cap alive :
    (\A i \in 1..Len(chain) : chain[i] # c) => ~ Query(qvm[c], "start")

\* What a VM of struct s is in the middle of, with the variables m: the
\* resumption at its fixed instruction
Activity(s, m) ==
  LET src == s.insn.src
      on == IF src \in Var THEN m[src] ELSE src IN
  CASE s.insn.op \in {"RUN", "MOV"} ->
                             [kind |-> "none", on |-> Root, at |-> NoLabel]
    [] s.insn.op = "RTE"  -> [kind |-> "run", on |-> on, at |-> NoLabel]
    [] s.insn.op = "WAIT" -> [kind |-> s.insn.mode, on |-> on,
                              at |-> IF s.insn.mode = "until"
                                     THEN s.insn.arg ELSE NoLabel]

Doing(q, m)   == [v \in VM |-> Activity(q[v], m)]
Started(q, a) == {c \in a : ~ Query(q[c], "start")}
AtEnd(q, a)   == {c \in a : Query(q[c], "end")}
Passing(q)    == [c \in Quaint |-> q[c].last_passed]
Inside(q)     == {v \in VM : InNoint(q[v])}

Kept == INSTANCE Promise WITH
  stack <- chain, doing <- Doing(qvm, mem), live <- alive,
  started <- Started(qvm, alive), ended <- AtEnd(qvm, alive),
  passed <- Passing(qvm), inside <- Inside(qvm)

\* The interpreter keeps what a quaint promises: instruction by instruction,
\* with the polls in between, every step of exec() is a step of Promise.  In
\* particular a quaint is never resumed twice at a time, goes on exactly where
\* it was frozen, is interrupted only by a wait whose condition holds, and is
\* freed only by the * that takes its value.
PromiseKept == Kept!Spec

\* A JMP or CJMP of a program that is running
Jump == status = "running" /\ Compute

\* Fairness: the interpreter keeps executing and the clock keeps running, and
\* since the text of a program is finite, a program that runs for ever jumps
\* again and again.  Without the last part an endless row of WAITs that end at
\* once would keep every poll busy.
Fairness == WF_vars(Exec) /\ WF_vars(Tick) /\ SF_vars(Jump)

LiveSpec == Spec /\ Fairness

\* No VM of the call stack is inside the text of a noint block
Interruptible == \A i \in 1..Len(chain) : ~ InNoint(qvm[chain[i]])

\* Root waits with a timeout that ends within the bound of the clock
TimerSet ==
  /\ Len(chain) > 1
  /\ qvm[Root].wait.mode = "for"
  /\ qvm[Root].wait.start + qvm[Root].wait.interval <= MaxClock

\* The timeout of the outermost wait is honoured whatever the quaints below
\* do: if the program leaves its noint blocks again and again, Root gets
\* control back (README.md, "The wait statement").
TimeoutHonoured ==
  []<>Interruptible => (TimerSet ~> (Len(chain) = 1 \/ status # "running"))

=============================================================================
