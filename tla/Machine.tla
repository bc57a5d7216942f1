-------------------------------- MODULE Machine --------------------------------
(***************************************************************************)
(* The machine of exec.c as it runs generated code: instruction pointer,   *)
(* stack, frames of temporaries, calls, returns, and the stacks of quaints.*)
(* Nothing times out here (module Qvm is about that), so that a quaint that*)
(* is resumed runs to its end.                                             *)
(*                                                                         *)
(* Memory is a set of cells.  Writing one destroys every cell it overlaps, *)
(* and reading what is not exactly a cell gives Junk: a value that survives*)
(* is one whose place nobody else has used.                                *)
(*                                                                         *)
(* What an arithmetic operation computes is module Lower's business.  Here *)
(* its operands are observed, in the log, and its result is any answer.    *)
(***************************************************************************)
EXTENDS Gen

CONSTANTS
  Programs,    \* the programs, a sequence
  Answers,     \* results of an operation
  MaxAnswers,  \* bound: so many operations have any answer, later ones zero
  StackSize    \* STACK_SIZE

ASSUME MachineAssumption ==
  /\ MaxAnswers \in Nat /\ StackSize \in Nat /\ 0 \in Answers
  /\ Answers \subseteq Nat

VARIABLES
  prog,    \* which program runs
  o,       \* its object code
  vms,     \* the machines by their number, Null once freed; 1 is the root
  vm,      \* the one that runs
  bss,     \* the global variables
  log,     \* the operations so far: operands and answer
  status   \* running, or how the program has stopped

vars == <<prog, o, vms, vm, bss, log, status>>

Code == o.code

Junk == -1

-----------------------------------------------------------------------------
(***************************************************************************)
(* Memory and operands                                                     *)
(***************************************************************************)
Store(mem, off, size, val) ==
  {x \in mem : x.off + x.size <= off \/ off + size <= x.off}
    \cup {[off |-> off, size |-> size, val |-> val]}

Load(mem, off, size) ==
  LET hit == {x \in mem : x.off = off /\ x.size = size}
  IN IF hit = {} THEN Junk ELSE (CHOOSE x \in hit : TRUE).val

\* The address of a machine, and the machine at an address
Addr(q) == 100 + q

\* The temporaries of the function a machine is in
Temps(v) == v.temps[Len(v.temps)]

\* opd_val, to read
Val(v, x) ==
  CASE x.opd = "imm"  -> x.val
    [] x.opd = "temp" -> Load(Temps(v).mem, x.off, x.size)
    [] x.opd = "auto" -> Load(v.stack, v.bp + x.off, x.size)
    [] x.opd = "glob" -> Load(bss, x.off, x.size)

\* opd_val, to write: in the machine, or among the global variables
Put(v, x, val) ==
  CASE x.opd = "temp" ->
         [v EXCEPT !.temps[Len(v.temps)].mem = Store(@, x.off, x.size, val)]
    [] x.opd = "auto" ->
         [v EXCEPT !.stack = Store(@, v.bp + x.off, x.size, val)]
    [] OTHER -> v

PutGlobal(x, val) ==
  IF x.opd = "glob" THEN Store(bss, x.off, x.size, val) ELSE bss

Advance(v) == [v EXCEPT !.ip = @ + 1]

-----------------------------------------------------------------------------
(***************************************************************************)
(* Instructions                                                            *)
(***************************************************************************)
V == vms[vm]

I == Code[V.ip + 1]

At_(ops) == status = "running" /\ I.op \in ops

\* The machine that runs becomes w, and goes on
Become(w) == vms' = [vms EXCEPT ![vm] = w] /\ UNCHANGED <<prog, o, vm, status>>

\* LEGAL_IF: the program stops
Stop(why) == status' = why /\ UNCHANGED <<prog, o, vms, vm, bss, log>>

\* The result val goes to the destination of the instruction
Result(val) ==
  /\ Become(Advance(Put(V, I.dst, val)))
  /\ bss' = PutGlobal(I.dst, val)

Silent == UNCHANGED <<bss, log>>

\* insn_mov
Mov == At_({"MOV"}) /\ Result(Val(V, I.a)) /\ UNCHANGED log

\* insn_oz, and the AND with one and the OR with zero that follow it
Oz == At_({"OZ"}) /\ Result(IF Val(V, I.a) = 0 THEN 0 ELSE 1) /\ UNCHANGED log

AndOr ==
  /\ At_({"AND", "OR"})
  /\ Result(IF I.op = "AND" THEN (Val(V, I.a) * Val(V, I.b)) % 2
                            ELSE Val(V, I.a) + Val(V, I.b))
  /\ UNCHANGED log

\* The answers an operation may give, the more of them the longer the log
May == IF Len(log) < MaxAnswers THEN Answers ELSE {0}

Event(in, out) == [in |-> in, out |-> out]

\* insn_bin_arith and its like
Bin ==
  /\ At_({"BIN"})
  /\ \E answer \in May :
       /\ Result(answer)
       /\ log' = Append(log, Event(<<Val(V, I.a), Val(V, I.b)>>, answer))

\* insn_cjmp
Cjmp ==
  /\ At_({"JZ", "JNZ"})
  /\ Become(IF (Val(V, I.a) = 0) <=> (I.op = "JZ")
              THEN [V EXCEPT !.ip = I.loc] ELSE Advance(V))
  /\ Silent

\* insn_jmp
Jmp == At_({"JMP"}) /\ Become([V EXCEPT !.ip = I.loc]) /\ Silent

Nop == At_({"NOP", "NOINT", "INT"}) /\ Become(Advance(V)) /\ Silent

-----------------------------------------------------------------------------
(***************************************************************************)
(* Calls                                                                   *)
(***************************************************************************)

\* insn_pushr: the place to return to and the frame to return to
Pushr ==
  /\ At_({"PUSHR"})
  /\ IF V.sp % 8 # 0 THEN Stop("illegal")
     ELSE IF V.sp + 16 > StackSize THEN Stop("overflow")
     ELSE /\ Become(Advance(Put(
               [V EXCEPT !.stack = Store(Store(@, V.sp, 8, I.loc), V.sp + 8, 8, V.bp),
                         !.sp = @ + 16],
               I.dst, V.sp + 16)))
          /\ Silent

\* insn_push
Push ==
  /\ At_({"PUSH"})
  /\ LET sp == AlignUp(V.sp + I.a.size, 8)
     IN IF V.sp % 8 # 0 THEN Stop("illegal")
        ELSE IF sp > StackSize THEN Stop("overflow")
        ELSE /\ Become(Advance(
                  [V EXCEPT !.stack = Store(@, V.sp, I.a.size, Val(V, I.a)),
                            !.sp = sp]))
             /\ Silent

\* insn_call_callv
Call ==
  /\ At_({"CALL", "CALLV"})
  /\ Become([V EXCEPT !.ip = Val(V, I.a), !.bp = Val(V, I.b)])
  /\ Silent

NewTemps(size) == [size |-> size, mem |-> {}]

\* insn_incsp
Incsp ==
  /\ At_({"INCSP"})
  /\ LET sp == V.sp + I.a.val
     IN IF I.a.val % 8 # 0 THEN Stop("illegal")
        ELSE IF sp > StackSize THEN Stop("overflow")
        ELSE IF sp % 8 # 0 THEN Stop("illegal")
        ELSE /\ Become(Advance([V EXCEPT !.sp = sp,
                                         !.temps = Append(@, NewTemps(I.b.val))]))
             /\ Silent

\* handle_return, when the stack is empty and someone has resumed the quaint:
\* the value goes to the RTEV, or stays at the bottom of its stack for later
ReturnToResumer(w, size, val, events) ==
  LET p == vms[w.parent]
      insn == Code[p.ip + 1]
      bare == [w EXCEPT !.temps = <<>>]
  IN IF insn.op \notin {IF size > 0 THEN "RTEV" ELSE "RTE", "WAIT"}
       THEN Stop("illegal")
     ELSE IF insn.op = "WAIT"
       THEN /\ vms' = [vms EXCEPT
                 ![vm] = [bare EXCEPT !.at_end = TRUE,
                            !.stack = IF size > 0 THEN Store(@, 0, size, val) ELSE @],
                 ![w.parent] = Advance(p)]
            /\ vm' = w.parent /\ log' = log \o events
            /\ UNCHANGED <<prog, o, bss, status>>
     ELSE IF size > 0 /\ size # insn.dst.size THEN Stop("illegal")
     ELSE LET got == IF size > 0 THEN Put(p, insn.dst, val) ELSE p
          IN /\ vms' = [vms EXCEPT ![vm] = Null,
                                   ![w.parent] = Advance(Put(got, insn.a, 0))]
             /\ vm' = w.parent /\ log' = log \o events
             /\ bss' = PutGlobal(insn.a, 0)
             /\ UNCHANGED <<prog, o, status>>

\* ... when a function has been called: the value goes to the CALLV
ReturnToCaller(w, size, val, events) ==
  LET back == [w EXCEPT !.temps = SubSeq(@, 1, Len(@) - 1),
                        !.ip = Load(w.stack, w.sp, 8),
                        !.bp = Load(w.stack, w.sp + 8, 8)]
      insn == Code[back.ip + 1]
  IN IF back.ip \notin 0..(Len(Code) - 1) \/ back.bp \notin 0..StackSize
       THEN Stop("illegal")
     ELSE IF size > 0 /\ (insn.op # "CALLV" \/ insn.dst.size # size)
       THEN Stop("illegal")
     ELSE /\ Become(Advance(IF size > 0 THEN Put(back, insn.dst, val) ELSE back))
          /\ log' = log \o events
          /\ UNCHANGED bss

\* The three cases; the root's last return is the exit status
HandleReturn(w, size, val, events) ==
  IF w.sp # 0 THEN ReturnToCaller(w, size, val, events)
  ELSE IF w.parent # Null THEN ReturnToResumer(w, size, val, events)
  ELSE /\ status' = "exit"
       /\ log' = log \o events \o <<Event(<<>>, IF size > 0 THEN val ELSE 0)>>
       /\ UNCHANGED <<prog, o, vms, vm, bss>>

\* insn_ret_retv
Ret ==
  /\ At_({"RET", "RETV"})
  /\ LET size == I.b.val
         w == [V EXCEPT !.sp = @ - size]
     IN IF V.sp % 8 # 0 \/ V.bp % 8 # 0 \/ V.sp < size \/ V.temps = <<>>
          THEN Stop("illegal")
        ELSE IF I.op = "RETV" THEN HandleReturn(w, I.a.size, Val(V, I.a), <<>>)
        ELSE HandleReturn(w, 0, 0, <<>>)

\* insn_bfun: it takes its arguments off the stack and returns like a
\* function, through an empty frame of temporaries of its own
Bfun ==
  /\ At_({"BFUN"})
  /\ LET f == Bfuns[V.ip + 1]
         args == 8 * Len(f.params)
         in == [i \in DOMAIN f.params |-> Load(V.stack, V.bp + 8 * (i - 1), f.params[i])]
         w == [V EXCEPT !.sp = @ - args - 16, !.temps = Append(@, NewTemps(0))]
     IN IF V.ip = 0 \/ V.sp % 8 # 0 \/ V.bp % 8 # 0 \/ V.sp < 16 + args
             \/ V.bp + args > StackSize
          THEN Stop("illegal")
        ELSE \E answer \in (IF f.size > 0 THEN May ELSE {0}) :
               HandleReturn(w, f.size, answer, <<Event(<<V.ip>> \o in, answer)>>)

-----------------------------------------------------------------------------
(***************************************************************************)
(* Quaints                                                                 *)
(***************************************************************************)
NewVm == [ip |-> 0, sp |-> 0, bp |-> 0, stack |-> {}, temps |-> <<>>,
          parent |-> Null, at_end |-> FALSE]

\* The machine that runs becomes w, and a new one is made
Spawn(w, new) == vms' = Append([vms EXCEPT ![vm] = w], new)

\* insn_getsp
Getsp == At_({"GETSP"}) /\ Result(V.sp) /\ UNCHANGED log

\* insn_qnt: the arguments move from the top of this stack to the new one,
\* above the two words a call would have pushed
Qnt ==
  /\ At_({"QNT"})
  /\ LET ssp == Val(V, I.b)
         args == {x \in V.stack : x.off >= ssp /\ x.off + x.size <= V.sp}
         new == [NewVm EXCEPT
                   !.ip = Val(V, I.a), !.bp = 16, !.sp = 16 + V.sp - ssp,
                   !.stack = {[x EXCEPT !.off = @ - ssp + 16] : x \in args}]
     IN Spawn(Advance([Put(V, I.dst, Addr(Len(vms) + 1)) EXCEPT !.sp = ssp]), new)
  /\ UNCHANGED <<prog, o, vm, bss, log, status>>

\* insn_qntv: the value is at the bottom of the stack
Qntv ==
  /\ At_({"QNTV"})
  /\ Spawn(Advance(Put(V, I.dst, Addr(Len(vms) + 1))),
           [NewVm EXCEPT !.at_end = TRUE,
                         !.stack = Store({}, 0, I.a.size, Val(V, I.a))])
  /\ UNCHANGED <<prog, o, vm, bss, log, status>>

\* The machine a * or a wait is about
Quaint == Val(V, I.a) - Addr(0)

\* insn_rte_rtev: nothing, a value that is there, or a quaint to be run first
Rte ==
  /\ At_({"RTE", "RTEV"})
  /\ \/ /\ Val(V, I.a) = 0
        /\ Result(0) /\ UNCHANGED log
     \/ /\ Val(V, I.a) # 0 /\ vms[Quaint].at_end
        /\ LET got == Put(V, I.dst, Load(vms[Quaint].stack, 0, I.dst.size))
           IN vms' = [vms EXCEPT ![Quaint] = Null,
                                 ![vm] = Advance(Put(got, I.a, 0))]
        /\ bss' = PutGlobal(I.a, 0)
        /\ UNCHANGED <<prog, o, vm, log, status>>
     \/ /\ Val(V, I.a) # 0 /\ ~ vms[Quaint].at_end
        /\ vms' = [vms EXCEPT ![Quaint].parent = vm]
        /\ vm' = Quaint
        /\ UNCHANGED <<prog, o, bss, log, status>>

\* insn_wait, without a time and without a label
Wait ==
  /\ At_({"WAIT"})
  /\ \/ /\ Val(V, I.a) = 0 \/ vms[Quaint].at_end
        /\ Become(Advance(V))
        /\ Silent
     \/ /\ Val(V, I.a) # 0 /\ ~ vms[Quaint].at_end
        /\ vms' = [vms EXCEPT ![Quaint].parent = vm]
        /\ vm' = Quaint
        /\ UNCHANGED <<prog, o, bss, log, status>>

-----------------------------------------------------------------------------
\* exec: the first function of the program, on an empty stack
Init ==
  /\ prog \in DOMAIN Programs
  /\ o = ObjCreate(Programs[prog])
  /\ vms = <<[NewVm EXCEPT !.ip = Len(Bfuns), !.sp = 16, !.bp = 16,
                           !.stack = Store({}, 0, 8, Len(Code))]>>
  /\ bss = {[off |-> x.data.off, size |-> x.data.size, val |-> 0] :
              x \in Range(o.data.layout.items)}
  /\ vm = 1 /\ log = <<>> /\ status = "running"

Next ==
  \/ Mov \/ Oz \/ AndOr \/ Bin
  \/ Cjmp \/ Jmp \/ Nop
  \/ Pushr \/ Push \/ Call \/ Incsp \/ Ret \/ Bfun
  \/ Getsp \/ Qnt \/ Qntv \/ Rte \/ Wait

\* The machine does nothing but execute the next instruction
Spec == Init /\ [][Next]_vars /\ WF_vars(Next)

=============================================================================
