-------------------------------- MODULE MCQvm --------------------------------
(***************************************************************************)
(* Small instances of Qvm for TLC.                                         *)
(***************************************************************************)
EXTENDS Qvm, TLC

CONSTANTS q1, q2, v0, v1

\* Root and q1 have a variable of their own each, a local variable of a function;
\* the code of q2 has none
PrivateUse == v0 :> {Root} @@ v1 :> {q1}

\* Global variables, which every function uses
SharedUse == [x \in Var |-> VM]

\* The global variables are interchangeable, and so are the quaints where all of
\* them have a value
SharedSymmetry == Permutations({v0, v1}) \cup Permutations({q1, q2})

=============================================================================
