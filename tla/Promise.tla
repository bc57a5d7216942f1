------------------------------- MODULE Promise -------------------------------
(***************************************************************************)
(* What a quaint promises (README.md, "The noint block", "The wait         *)
(* statement" and the operators ~, * and @): the life of every quaint as   *)
(* its users see it, without instructions, clocks, flags or variables.     *)
(*                                                                         *)
(* A quaint is created, resumed any number of times, ends at most once and *)
(* is then taken by *.  While it is resumed it is on the stack, above the  *)
(* one that resumed it, and that one is doing nothing else.  Between two   *)
(* operations of the one on top, waits may be over: then whoever waits     *)
(* gets control back and everything above is frozen as it stands.          *)
(***************************************************************************)
EXTENDS Integers, Sequences

CONSTANTS
  Quaint,    \* the quaints
  Root,      \* the program itself
  Label,     \* wait labels
  NoLabel    \* no label

VARIABLES
  stack,     \* who resumed whom: Root first, the one that runs last
  doing,     \* what each one is in the middle of: Idle, a * or a wait
  live,      \* the quaints that have been created and not been taken
  started,   \* ... those that have begun to run: q@start is false
  ended,     \* ... those whose function has returned: q@end is true
  passed,    \* ... the label that holds for it: q@label is true
  inside     \* who is in a noint block

pvars == <<stack, doing, live, started, ended, passed, inside>>

\* *q, wait q, wait q for some time, and wait q until the label
Resumption ==
  [kind : {"run", "plain", "for"}, on : Quaint, at : {NoLabel}]
    \cup [kind : {"until"}, on : Quaint, at : Label]

Idle == [kind |-> "none", on |-> Root, at |-> NoLabel]

\* The activities d, when v turns to r
Now(d, v, r) == [w \in {Root} \cup Quaint |-> IF w = v THEN r ELSE d[w]]

Top == stack[Len(stack)]

Resumer == stack[Len(stack) - 1]

\* The labels after the one that runs has passed l
Passed(l) == [q \in Quaint |-> IF q = Top THEN l ELSE passed[q]]

OnStack(q) == \E k \in 1..Len(stack) : stack[k] = q

\* The wait of w is over: the time is anyone's guess, the label is not
MayEnd(w, labels) ==
  \/ w.kind = "for"
  \/ w.kind = "until" /\ labels[w.on] = w.at

\* An operation leaves the stack s, the activities d and the labels; then
\* at most one wait ends, of someone above whom nobody is in a noint block.
Interrupt(s, d, labels, in) ==
  \/ stack' = s /\ doing' = d
  \/ \E i \in 1..(Len(s) - 1) :
       /\ MayEnd(d[s[i]], labels)
       /\ \A j \in (i + 1)..Len(s) : s[j] \notin in
       /\ stack' = SubSeq(s, 1, i)
       /\ doing' = Now(d, s[i], Idle)

-----------------------------------------------------------------------------
\* ~f(...) and ~value
Create(q, isValue) ==
  /\ doing[Top] = Idle
  /\ q \notin live
  /\ live' = live \cup {q}
  /\ ended' = IF isValue THEN ended \cup {q} ELSE ended
  /\ Interrupt(stack, doing, passed, inside)
  /\ UNCHANGED <<started, passed, inside>>

\* * or wait on a quaint that has not ended: anew, or again after everything
\* from here upwards has been frozen and is resumed
Resume(r) ==
  /\ doing[Top] \in {Idle, r}
  /\ r.on \in live \ ended
  /\ ~ OnStack(r.on)
  /\ Interrupt(Append(stack, r.on), Now(doing, Top, r), passed, inside)
  /\ UNCHANGED <<live, started, ended, passed, inside>>

\* * on a quaint that has ended
Take(q) ==
  /\ doing[Top] = Idle
  /\ q \in ended
  /\ live' = live \ {q}
  /\ ended' = ended \ {q}
  /\ started' = started \ {q}
  /\ Interrupt(stack, doing, passed, inside)
  /\ UNCHANGED <<passed, inside>>

\* The function begins
Begin ==
  /\ doing[Top] = Idle
  /\ started' = started \cup ({Top} \ {Root})
  /\ Interrupt(stack, doing, passed, inside)
  /\ UNCHANGED <<live, ended, passed, inside>>

\* A wait label
Pass(l) ==
  /\ doing[Top] = Idle
  /\ passed' = Passed(l)
  /\ Interrupt(stack, doing, Passed(l), inside)
  /\ UNCHANGED <<live, started, ended, inside>>

\* The begin and the end of a noint block
Enter ==
  /\ doing[Top] = Idle
  /\ inside' = inside \cup {Top}
  /\ Interrupt(stack, doing, passed, inside \cup {Top})
  /\ UNCHANGED <<live, started, ended, passed>>

Leave ==
  /\ doing[Top] = Idle
  /\ inside' = inside \ {Top}
  /\ Interrupt(stack, doing, passed, inside \ {Top})
  /\ UNCHANGED <<live, started, ended, passed>>

\* The function returns: to a * the quaint is taken, to a wait it has ended,
\* and its resumer goes on
Return ==
  /\ Len(stack) > 1 /\ doing[Top] = Idle
  /\ Top \in started /\ Top \notin inside
  /\ \/ /\ doing[Resumer].kind = "run"
        /\ live' = live \ {Top}
        /\ started' = started \ {Top}
        /\ UNCHANGED ended
     \/ /\ doing[Resumer].kind # "run"
        /\ ended' = ended \cup {Top}
        /\ UNCHANGED <<live, started>>
  /\ passed' = Passed(NoLabel)
  /\ Interrupt(SubSeq(stack, 1, Len(stack) - 1),
               Now(doing, Resumer, Idle), Passed(NoLabel), inside)
  /\ UNCHANGED inside

\* Anything else
Other ==
  /\ Interrupt(stack, doing, passed, inside)
  /\ UNCHANGED <<live, started, ended, passed, inside>>

Init ==
  /\ stack = <<Root>>
  /\ doing = [v \in {Root} \cup Quaint |-> Idle]
  /\ live = {} /\ started = {} /\ ended = {} /\ inside = {}
  /\ passed = [q \in Quaint |-> NoLabel]

Next ==
  \/ \E q \in Quaint, b \in BOOLEAN : Create(q, b)
  \/ \E r \in Resumption : Resume(r)
  \/ \E q \in Quaint : Take(q)
  \/ Begin
  \/ \E l \in Label : Pass(l)
  \/ Enter
  \/ Leave
  \/ Return
  \/ Other

Spec == Init /\ [][Next]_pvars

=============================================================================
