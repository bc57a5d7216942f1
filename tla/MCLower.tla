------------------------------- MODULE MCLower -------------------------------
(***************************************************************************)
(* A program's types small enough for TLC: every kind, both signs, one     *)
(* struct in another, arrays and pointers of what matters.                 *)
(***************************************************************************)
EXTENDS Lower, TLC

D(kind, size, count) ==
  [kind |-> kind, size |-> size, count |-> count, sub |-> "void",
   elem |-> "void", flip |-> "void", members |-> {}, params |-> <<>>,
   ret |-> "void"]
Ptr(t)       == [D("ptr", 8, 1) EXCEPT !.sub = t]
Array(e, d)  == [d EXCEPT !.count = 3, !.elem = e]

MCScalar ==
  "void" :> D("void", 0, 0) @@
  "u8"   :> [D("u", 1, 1) EXCEPT !.flip = "i8"] @@
  "i8"   :> D("i", 1, 1) @@
  "usize" :> [D("u", 8, 1) EXCEPT !.flip = "ssize"] @@
  "ssize" :> D("i", 8, 1) @@
  "enum" :> D("enum", 1, 1) @@
  "vptr" :> D("vptr", 8, 1) @@
  "pu8"  :> Ptr("u8") @@ "ps" :> Ptr("s") @@ "pq" :> Ptr("q") @@
  "pps"  :> Ptr("ps") @@ "pas" :> Ptr("as") @@
  "fu8"  :> [D("fptr", 8, 1) EXCEPT !.params = <<"u8", "ps">>, !.ret = "u8"] @@
  "fvoid" :> D("fptr", 8, 1) @@
  "q"    :> [D("quaint", 8, 1) EXCEPT !.sub = "u8"] @@
  "qv"   :> D("quaint", 8, 1) @@
  "n"    :> [D("struct", 8, 1) EXCEPT !.members = {"ssize"}] @@
  "s"    :> [D("struct", 40, 1) EXCEPT !.members = {"u8", "pu8", "q", "n", "au8"}]

MCDesc ==
  LET elem == [t \in DOMAIN MCScalar |-> [MCScalar[t] EXCEPT !.elem = t]]
  IN  elem @@ "au8" :> Array("u8", elem["u8"])
           @@ "as" :> Array("s", elem["s"])
           @@ "aps" :> Array("ps", elem["ps"])
           @@ "aq" :> Array("q", elem["q"])
           @@ "ausize" :> Array("usize", elem["usize"])

MCType == DOMAIN MCDesc

=============================================================================
