-------------------------------- MODULE MCFlow --------------------------------
(***************************************************************************)
(* Small programs for Machine: every statement and every control-flow      *)
(* expression of Gen, nested in one another, with locals of 1, 8 and 12    *)
(* bytes in the blocks.  Each comment is the program in Quaint.            *)
(***************************************************************************)
EXTENDS Source

\* u8, u64, and a struct of three u32
U8 == [size |-> 1, align |-> 1]
U64 == [size |-> 8, align |-> 8]
S12 == [size |-> 12, align |-> 4]

\* The null function, monotime(): u64, pu8(: u8), pu64(: u64)
MCBfuns == << [params |-> <<>>, size |-> 0], [params |-> <<>>, size |-> 8],
              [params |-> <<1>>, size |-> 0], [params |-> <<8>>, size |-> 0] >>

name(obj, k) == [an |-> "NAME", obj |-> obj, key |-> k]
local(k) == name("AVAR", k)
param(k) == name("PARM", k)
glob(k) == name("GVAR", k)
num(v, type) == [an |-> "NMBR", value |-> v, size |-> type.size]
bin(a, b, type) == [an |-> "BEXP", lhs |-> a, rhs |-> b, size |-> type.size]
assign(a, b) == [an |-> "ASSN", lhs |-> a, rhs |-> b]
asop(a, b) == [an |-> "ASOP", lhs |-> a, rhs |-> b]
and(a, b) == [an |-> "CONJ", lhs |-> a, rhs |-> b, size |-> 1]
or(a, b) == [an |-> "DISJ", lhs |-> a, rhs |-> b, size |-> 1]
comma(a, b) == [an |-> "COMA", lhs |-> a, rhs |-> b]
ternary(c, a, b, type) ==
  [an |-> "TEXP", cond |-> c, tval |-> a, fval |-> b, size |-> type.size]
call(f, list, size) == [an |-> "FEXP", lhs |-> f, rhs |-> list, size |-> size]
tilde(e) == [an |-> "TILD", rhs |-> e]
run(e, size) == [an |-> "MULT", rhs |-> e, size |-> size]

decl(names, type, init) ==
  [an |-> "DECL", names |-> names, size |-> type.size, align |-> type.align,
   init |-> init]
block(stmts) == [an |-> "BLOK", stmts |-> stmts]
noint(stmts) == [an |-> "NOIN", stmts |-> stmts]
if(e, yes, elifs, no) ==
  [an |-> "COND", if_expr |-> e, if_block |-> block(yes),
   elif |-> [i \in DOMAIN elifs |->
               [expr |-> elifs[i][1], block |-> block(elifs[i][2])]],
   else_block |-> IF no = <<>> THEN Null ELSE block(no)]
while(e, stmts) == [an |-> "WHIL", expr |-> e, stmts |-> stmts]
dowhile(e, stmts) == [an |-> "DOWH", expr |-> e, stmts |-> stmts]
return(e) == [an |-> "RETN", expr |-> e]
waitfor(e) == [an |-> "WAIT", wquaint |-> e]

func(key, params, stmts) ==
  [an |-> "FUNC", key |-> key, stmts |-> stmts,
   params |-> [i \in DOMAIN params |->
                 [key |-> params[i][1], size |-> params[i][2].size]]]
program(globals, funcs) == [globals |-> globals, funcs |-> funcs]

monotime == call(name("BFUN", 1), Null, 8)
pu8(e) == call(name("BFUN", 2), e, 0)
pu64(e) == call(name("BFUN", 3), e, 0)

\* Addresses of names and functions: some of them collide in a table
A == 4
B == 8
C == 12
D == 5
G == 40
Main == name("FUNC", 60)
F == name("FUNC", 64)

\* An operation on two small numbers, and one on an expression
ask(n) == bin(num(n, U8), num(1, U8), U8)
op(e) == bin(e, num(1, U8), U8)
op64(e) == bin(e, num(7, U64), U64)

MCPrograms == <<
  \* Main() { A: u8 = ask; B: s12; C: u8 = A + 1; if A { D: u64 = 7; pu64(D); }
  \*   elif C && ask { D2: u8 = C; pu8(D2) } else { A = C; } return A; }
  program(<<>>, <<
    func(60, <<>>, <<
      decl(<<A>>, U8, ask(3)), decl(<<B>>, S12, Null), decl(<<C>>, U8, op(local(A))),
      if(local(A), <<decl(<<D>>, U64, num(7, U64)), pu64(local(D))>>,
         << <<and(local(C), ask(2)), <<decl(<<20>>, U8, local(C)), pu8(local(20))>> >> >>,
         <<assign(local(A), local(C))>>),
      return(local(A))>>)>>),
  \* Main() { A: u8 = 1; while (A || ask) && ask { D: u64 = monotime();
  \*   A = A + 1; pu64(D) } do { A, B: u8 = ask } while B ? A : ask; return B; }
  program(<<>>, <<
    func(60, <<>>, <<
      decl(<<A>>, U8, num(1, U8)),
      while(and(or(local(A), ask(2)), ask(3)),
            <<decl(<<D>>, U64, monotime), asop(local(A), num(1, U8)), pu64(local(D))>>),
      decl(<<B, 16>>, U8, num(0, U8)),
      dowhile(ternary(local(B), local(16), ask(4), U8),
              <<assign(local(B), ask(5)), decl(<<C>>, U8, local(B)),
                assign(local(16), local(C))>>),
      return(local(B))>>)>>),
  \* Main() { G = F(1, ask) + F(2, F(3, 9)); return 0 }
  \* F(A: u8, B: u64): u64 { C: s12; if A && ask { return B + 7 } return B }
  program(<<decl(<<G>>, U64, Null)>>, <<
    func(60, <<>>, <<
      decl(<<C>>, U64, num(5, U64)),
      assign(glob(G), bin(call(F, comma(num(1, U8), op64(local(C))), 8),
                          call(F, comma(num(2, U8),
                                        call(F, comma(num(3, U8), num(9, U64)), 8)), 8),
                          U64)),
      pu64(glob(G)),
      return(num(0, U8))>>),
    func(64, << <<A, U8>>, <<B, U64>> >>, <<
      decl(<<D>>, S12, Null),
      if(and(param(A), ask(1)), <<return(op64(param(B)))>>, <<>>, <<>>),
      return(param(B))>>)>>),
  \* Main() { while ask { F(1) } }   F(A: u8) { B: u8 = A; if ask { F(B) } pu8(B) }
  program(<<>>, <<
    func(60, <<>>, << while(ask(6), <<call(F, num(1, U8), 0)>>) >>),
    func(64, << <<A, U8>> >>, <<
      decl(<<B>>, U8, param(A)),
      if(ask(2), <<call(F, local(B), 0)>>, <<>>, <<>>),
      pu8(local(B))>>)>>),
  \* Main() { A: u64 = 1 + *~F(ask, 4); q: quaint(u64) = ~F(2, A); wait q;
  \*   A = *q + (ask ? *~A : *q); return 0 }
  \* F(A: u8, B: u64): u64 { noint { C: u8 = A + 1 } return C && ask ? B : B + 7 }
  program(<<>>, <<
    func(60, <<>>, <<
      decl(<<A>>, U64, bin(num(1, U64), run(tilde(call(F, comma(ask(1), num(4, U64)), 8)), 8), U64)),
      decl(<<B>>, U64, tilde(call(F, comma(num(2, U8), local(A)), 8))),
      waitfor(local(B)),
      assign(local(A), bin(run(local(B), 8),
                           ternary(ask(2), run(tilde(local(A)), 8), run(local(B), 8), U64),
                           U64)),
      pu64(local(A)),
      return(num(0, U8))>>),
    func(64, << <<A, U8>>, <<B, U64>> >>, <<
      noint(<<decl(<<C>>, U8, op(param(A)))>>),
      return(ternary(and(local(C), ask(3)), param(B), op64(param(B)), U64))>>)>>),
  \* Main() { A: u64 = 2; pu64((F(A), A) + F((A, A + 7))); *~F2(1); }
  program(<<decl(<<44>>, U8, Null), decl(<<G>>, U64, Null)>>, <<
    func(60, <<>>, <<
      decl(<<A>>, U64, num(2, U64)),
      pu64(bin(comma(call(F, local(A), 8), local(A)),
               call(F, op64(comma(pu8(num(6, U8)), local(A))), 8), U64)),
      run(tilde(call(name("FUNC", 68), num(1, U8), 0)), 0),
      pu64(glob(G))>>),
    func(64, << <<B, U64>> >>, <<
      asop(glob(G), param(B)),
      asop(param(B), glob(G)),
      return(op64(param(B)))>>),
    func(68, << <<C, U8>> >>, <<
      assign(glob(44), op(param(C))),
      block(<<decl(<<D>>, S12, Null),
              decl(<<A>>, U64, call(F, call(F, op64(num(1, U64)), 8), 8)),
              if(glob(44), <<return(Null)>>, <<>>, <<pu64(local(A))>>)>>),
      pu8(glob(44))>>)>>),
  \* Main() { G = ~F(1, 4); do { if ask { wait G; wait G }
  \*   elif ask || (ask ? 0 : ask) { while ask { A: u8 = 3; pu8(A + 1) } }
  \*   A: u64 = F(ask, *~F(2, (A = 6, *G))); pu64(A) } while ask && A; return A; }
  \* F(A: u8, B: u64): u64 { return *~(B + 7); }
  program(<<decl(<<44>>, U8, Null), decl(<<G>>, U64, Null)>>, <<
    func(60, <<>>, <<
      assign(glob(G), tilde(call(F, comma(num(1, U8), num(4, U64)), 8))),
      dowhile(and(ask(1), local(A)), <<
        if(ask(2), <<waitfor(glob(G)), waitfor(glob(G))>>,
           << <<or(ask(3), ternary(ask(4), num(0, U8), ask(5), U8)),
                <<while(ask(6), <<decl(<<B>>, U8, num(3, U8)), pu8(op(local(B)))>>)>> >> >>,
           <<>>),
        decl(<<A>>, U64, num(0, U64)),
        assign(local(A),
               call(F, comma(ask(7),
                 run(tilde(call(F, comma(num(2, U8),
                   bin(assign(local(A), num(6, U64)), run(glob(G), 8), U64)), 8)), 8)), 8)),
        pu64(local(A))>>),
      return(local(A))>>),
    func(64, << <<A, U8>>, <<B, U64>> >>, <<
      return(run(tilde(op64(param(B))), 8))>>)>>)
>>

=============================================================================
