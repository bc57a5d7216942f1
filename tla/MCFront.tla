-------------------------------- MODULE MCFront --------------------------------
(***************************************************************************)
(* The files that Front is checked on                                      *)
(***************************************************************************)
EXTENDS Front

-----------------------------------------------------------------------------
(***************************************************************************)
(* Expressions and statements that are written down and read back          *)
(***************************************************************************)
A == <<"atom">>
bin(op, a, b) == <<"bin", op, a, b>>

\* An operator of each level
Bins == {"MEMB", "MULT", "PLUS", "LSHF", "LTHN", "EQUL", "AMPS", "CARE", "PIPE", "CONJ", "DISJ",
         "ASSN", "COMA"}

\* Expressions with one operator, and with two
One ==
  {bin(op, A, A) : op \in Bins} \cup {<<"pre", op, A>> : op \in {"MINS", "INCR"}} \cup
  {<<"post", "INCR", A>>, <<"call", A, <<>>>>, <<"call", A, <<A>>>>, <<"index", A, A>>,
   <<"cond", A, A, A>>}
Two ==
  UNION {{bin(op, e, A) : op \in Bins} \cup {bin(op, A, e) : op \in Bins \ {"MEMB"}} \cup
         {<<"pre", "MINS", e>>, <<"post", "INCR", e>>, <<"call", e, <<A>>>>, <<"call", A, <<e>>>>,
          <<"index", e, A>>, <<"index", A, e>>,
          <<"cond", e, A, A>>, <<"cond", A, e, A>>, <<"cond", A, A, e>>} : e \in One}

x == <<"expr", <<>>, A>>
Simple ==
  {x, <<"expr", <<"CONS", "EXPO">>, bin("ASSN", A, A)>>, <<"wait", A, <<>>, <<>>, FALSE>>,
   <<"wait", A, <<"WFOR">>, <<<<"time", "WSEC", A>>>>, TRUE>>,
   <<"wait", A, <<"WUNT">>, <<A>>, FALSE>>, <<"return", <<>>>>, <<"return", <<A>>>>,
   <<"use", A>>, <<"type", TRUE, A>>, <<"type", FALSE, A>>, <<"label", A>>}
Governing(ss) ==
  {<<"block", ss>>, <<"noint", ss>>, <<"while", A, ss>>, <<"do", ss, A>>,
   <<"if", A, ss, <<>>, <<>>>>, <<"if", A, ss, <<<<A, ss>>, <<A, <<>>>>>>, <<>>>>,
   <<"if", A, ss, <<<<A, ss>>>>, <<ss>>>>, <<"func", <<"EXPO">>, <<"call", A, <<A>>>>, ss>>,
   <<"func", <<>>, A, ss>>}
Nested == UNION {Governing(<<c, x>>) : c \in Governing(<<x>>)}

\* The parser takes a while after a block for the end of a do, as a comment in it
\* says; such programs are left out
Spaced(p) == ~(Len(p) = 2 /\ p[1][1] \in {"block", "noint"} /\ p[2][1] = "while")

Expressions == {<<<<"expr", <<>>, e>>>> : e \in Two}
Statements ==
  {<<s>> : s \in Simple \cup Governing(<<x>>) \cup Nested} \cup
  {p \in {<<s, u>> : s \in {x, <<"label", A>>} \cup Governing(<<x>>),
                     u \in Simple \cup Governing(<<>>)} : Spaced(p)}

\* Three characters of any kind
Letters == {"a", "1", " ", "\n", "\"", "/", "*", "+", "=", ":", "$"}
Raw == {a \o b \o c : a, b, c \in Letters}

-----------------------------------------------------------------------------
(***************************************************************************)
(* Programs                                                                *)
(***************************************************************************)
Programs == {
  \* types, good and bad
  "type s: struct(x: u32, y: ptr(u8)); type s: u8; v: s; w: union(a: s[2], b: s); z: nope[2];",
  "type e: enum(A, B): u8; type d: enum(A, A); type c: enum(A, 1); type b: enum(); v: e; type a: enum(X): i8;",
  "h: fptr(a: u8, b: s): u8; k: fptr(a: u8, b: quaint()): ptr(u8); type p: fptr(a: u8): u8; l: p; m: ptr; o: struct(a: u8, a: u8);",
  "type s: struct(x: u32, y: ptr(u8)); type u: union(a: s, b: fptr(c: u8): s); v: s; w: u; f(a: s): u { z: u; return z; }",
  \* functions
  "exposed f(a: u32, b: u8): u32 { return a; } g(c: u8) { return; } h: u8 { return g; }",
  "exposed exposed i {} j(1) {} k(a: u8): nope {} 1 {} l(a: u8) { return 1; }",
  \* statements out of place
  "return 3; a = 5; [l] wait q; while 1 { 1; } noint { 1; } f { g(a: int) { } type t: int; use \"u\"; exposed b: u8; }",
  "f { a, b: u8 = 1; a, b; a, a: u8; const c: u8; const const d: u8; 1 + 2: u8; a as nope; sizeof nope; static s: u8 = 1 sec; }",
  \* times out of place
  "f { q: quaint(); wait q for 1 sec; wait q for (1 sec); wait 1 sec; return 1 sec; }",
  "f { if 1 sec { a: nope; } elif 2 { [l] } else { { } } while 1 sec { [l] } do { return; } while 2; }",
  \* names
  "x: u8; f(x: u8) { { y: u8 = x; } { x: u8 = x; { x = 1; } } x = 2; while x { x: u8; x; } do { x: u8; } while x; if x { x: u8; x; } elif x { } else { x; } x; } g { y, x: u8; x = y; f(x); }",
  "f { x; x: u8; { x; } } x: u8;",
  "x: u8; f { { x: u8; x = 1; } x = 2; { x = 3; x: u8; } }",
  "x: u8; x: u16; f { } f { a: u8; } g { a: u8; a: u8; f(a); h; h: u8; }",
  \* labels
  "f { [a] [b] { [a] } if 1 { [b] } } g { q: quaint(); wait q until f::b; q@f::a; q@end; [a] }",
  "f { [a] noint { [b] } } g { q: quaint(); wait q until f::a noblock; wait q until g::b; q@f::c; }",
  \* mistakes that break the compiler
  "f { q: quaint(); q.(1 sec); }",
  "f { q: quaint(); q@(1 sec); }",
  "f { q: quaint(); q@(f::(1 sec)); }",
  "type A: enum(X); type B: enum(Z): A;"}

-----------------------------------------------------------------------------
NoFault == [Fresh EXCEPT !.fails = -1]

Init ==
  /\ \/ /\ wrote \in Expressions \cup Statements
        /\ LexInit(SpellUnit(wrote)) /\ mem = NoFault
     \/ wrote = <<>> /\ (\E s \in Raw : LexInit(s)) /\ mem = NoFault
     \/ wrote = <<>> /\ (\E s \in Programs : LexInit(s)) /\ mem = Fresh
  /\ ParseInit /\ DriverInit

Spec == Init /\ [][FrontNext]_<<vars, wrote>> /\ WF_<<vars, wrote>>(FrontNext)

=============================================================================
