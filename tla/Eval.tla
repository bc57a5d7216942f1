---------------------------------- MODULE Eval ---------------------------------
(***************************************************************************)
(* A computation of several steps: each step takes the value of the one    *)
(* before, which is evaluated first and once.  TLC's evaluation then takes *)
(* as long as a program is long and goes as deep as it is nested.          *)
(***************************************************************************)
EXTENDS Integers, Sequences, SequencesExt

\* next of the value g
Then(g, next(_)) == CHOOSE r \in {next(h) : h \in {g}} : TRUE

\* The fold of op over seq that goes from value to value
Fold(op(_, _), base, seq) ==
  LET upto[i \in 0 .. Len(seq)] ==
        IF i = 0 THEN base
        ELSE CHOOSE r \in {op(g, x) : g \in {upto[i - 1]}, x \in {seq[i]}} : TRUE
  IN  upto[Len(seq)]

===============================================================================
