# A verification project for Quaint

Quaint is a small C-like language whose functions can be suspended and resumed.
The repository (`src/`) holds one program: it reads a source file, compiles it to
instructions for a virtual machine and interprets them in one thread. This
directory holds TLA+ modules of its parts, the TLC runs that check them on small
instances, and theorems that TLAPS proves for every instance.

## 1. Inventory

| part | state | operations | what makes it correct |
|---|---|---|---|
| quaint scheduler (`exec.c`) | one `struct qvm` per quaint: instruction pointer, stack, flags `at_start`, `at_end`, `noint`, `waiting*`, timer, last label, parent; the globals `vm` and `now` | `QNT`/`QNTV` create, `WAIT` resumes, `RTE`/`RTEV` resume and reap, `RET`/`BFUN` end, `WLAB`, `NOINT`/`INT`, and the poll after every instruction | a wait ends when it should and not before; `*` runs to the end; noint blocks are not interrupted; freed quaints are not used; the parents form a chain |
| call stack (`exec.c`, `codegen.c`) | `sp`, `bp`, saved pairs, frames of temporaries | `PUSHR`, `PUSH`, `CALL`, `INCSP`, `RET`, `GETSP` | callee and caller agree on every offset; nothing is written outside the stack |
| value instructions (`exec.c`) | temporaries, variables | arithmetic, comparison, conversion, moves, each with `LEGAL_IF` tests of its operands | code generated for an accepted program is never illegal |
| code generator (`codegen.c`) | instruction array, offset of the next temporary, layouts | one function per construct of the syntax | an operand denotes what the expression means; jumps go where the statement says |
| type checker (`type.c`) | the type of every expression, sizes and offsets | one rule per operator | what it accepts can be generated and executed |
| scopes, hash table (`scope.c`, `htab.c`) | tree of scopes, open-addressing tables | insert, find, walk | a name means its innermost visible declaration |
| lexer, parser, tree (`lex.c`, `parse.c`, `ast.c`) | token automata, stack of nodes | step, shift, reduce, build | longest match; the tree is the grammar's |
| driver (`main.c`) | what each phase has allocated | the phases in order | every phase's result is released exactly once |

The phases run one after the other and hand over whole data structures; nothing
is concurrent there. The interpreter is where the hard behaviour is. Its
quaints are coroutines that are *preempted*: after every instruction
`check_and_eventually_split_vms` may take control away from the running VM and
from any number of its ancestors at once, because a timeout somewhere up in the
call stack has passed or a label has been reached. So every pair of adjacent
instructions is a place where another function may run, with whatever flags,
handles and timers the interrupted instructions have left behind. The hazards
are listed, each at its line, in `PROJECT.json`.

## 2. The modules and how they correspond to the code

| module | models | source |
|---|---|---|
| `Qvm` | the interpreter's loop, quaints and the poll | `exec.c`, what `codegen.c` emits around `noint`, `return`, `~`, `*`, `wait` |
| `QvmProofs` | theorems about `Qvm` for every program: the invariants; the effect of each step on each VM | |
| `PrivateProofs` | theorems about programs that do not share quaints | |
| `PromiseProofs` | the theorem that `Qvm` implements `Promise` | |
| `MCQvm` | small instances of `Qvm` | |
| `Types` | the rules that accept or reject an operator | `type.c` |
| `Lower` | the operands and instructions of every expression, and the tests of every instruction | `codegen.c`, `exec.c` |
| `LowerProofs` | theorems about `Lower` | |
| `MCLower` | a program's types, small enough for TLC | |
| `Promise` | the abstract specification: the life of a quaint, which `Qvm` implements | what `exec.c` promises |
| `Htab` | the open-addressing table | `htab.c` |
| `HtabProofs` | theorems about `Htab`: it is a dictionary | |
| `Gen` | statements, control flow, calls, quaints, frame layouts | `codegen.c`, `common.h` |
| `Machine` | the interpreter on a stack of bytes, frames and temporaries | `exec.c` |
| `Source` | what a program text means, without any code or stack: the reference for `flow` | |
| `MCFlow` | the programs that `flow` generates and executes | |
| `Mem`, `Eval` | allocation with at most one failure; sequencing of steps | external (`malloc`, `free`, `assert`) |
| `Lex` | the token automata and the lexer's loop | `lex.c`, `lex.h` |
| `Tokens` | the language of each kind of token, and what the tokens of a text are, without automata | |
| `LexProofs` | theorems about `Lex`: the loop runs the automata as if each were alone | |
| `TokenProofs` | theorems about `Lex` and `Tokens`: automata and languages are the same | |
| `Parse` | the grammar and the shift-reduce loop | `parse.c`, `parse.h` |
| `Derivation` | what the parser is for, by the grammar alone: derivations, what they read, who owns what | |
| `ParseProofs` | theorems about `Parse`: it finds a derivation of the tokens, and leaks nothing | |
| `Ast` | the syntax tree and the types written in it | `ast.c`, parts of `type.c` |
| `Scope` | scopes, labels, and what the type checker looks up | `scope.c`, the walk of `type.c` |
| `Driver` | `main` | `main.c` |
| `Written` | how trees are to be read off a text: the reference for `front` | |
| `Front`, `MCFront` | the whole front end, its properties; the texts it is checked on | |

`PROJECT.json` maps every definition to its lines. `Front` extends `Driver`, which
extends `Scope`, `Ast`, `Parse`, `Lex` and `Mem`, and `Written`, which extends
`Derivation` and `Tokens`: the phases share `mem` and each reads what the one before
left. `MCFlow` composes `Gen` (which uses `Htab`) with
`Machine` and compares both with `Source`.

### Qvm

The state is that of `exec.c`: `qvm[v]` is the `struct qvm` of VM `v` (the flags
and timers with their names; `wait` is the three waiting flags with the union
they select), `mem` the program's variables of a quaint type, `alive` what is
allocated, `clock` the system's clock, `now` and `cycles` the globals of the poll.
`chain` is the list of parent pointers read from the running VM, the last
element, up to the VM that `exec()` allocates. A frozen quaint's parent pointer
is never read before it is overwritten, so it is not kept. Nothing in the code
keeps a VM from being resumed while it is in that sequence itself: `Resume` then
overwrites its parent like any other (`Knot`), `chain` is from there on the cycle,
without the VM of `exec()`, and `status` is `cyclic`. What happens around the cycle
after that step is not modelled.

Every action is one iteration of the loop of `exec()`: the handler of one
instruction *and* the poll, `check_and_eventually_split_vms`, after it (`Poll`,
which reads the clock every `Period`-th time and walks the chain in `Walk`).
The clock is read at most once per step: in a step whose handler and poll both read
it, they read the same. What
the instruction stream is, is left open: a VM that is `Free` executes any
instruction. Three things of the program text matter and are kept: a `WAIT` or
`RTE` that has resumed a quaint does not advance `ip` (`insn`); `~` is two
instructions, a `QNT` or `QNTV` that leaves the handle in a temporary and a `MOV` that
stores it, with a poll between them (`Created`, `Mov`; the value of a `~` that is
not stored is modelled as stored and dropped); and each
activation of a function knows how many `noint` blocks it is textually inside of
(`frames`). `CanUse` says whose code names a variable, so it tells local
variables from global ones. `Features` lists six things a program may do beyond
that: nest `noint` blocks, return out of one, fall off the end of a function with
a value, make a quaint of a built-in function, use a handle loaded through a
pointer, and copy a handle (`Copy`: by assignment, as an initializer, which may be
of several names, as an argument or as the value of a function; and by declaring a
local variable without an initializer, which `gen_decl_auto` leaves with what the
stack held there). `Failures` lists the system calls that may fail.

What the interpreter does not survive becomes a final `status`: `illegal` for a
`LEGAL_IF` that fails, `undefined` for a freed handle, `cyclic` when a VM has
become its own ancestor (from where the walk of the poll may never end).

Abstractions: the timeout operand of a `WAIT` that is executed again has the
value it had; the quaint subtype is fixed per quaint (`Valued`); a call of a
null function pointer is left out; arithmetic, jumps, `QAT` and moves of anything
but a handle are one action, `Compute`.

### Types and Lower

`Types` gives each type a descriptor (`kind`, `size`, number of elements, what it
points to, ...), and one operator per rule of `type.c`. Types are names, one per
structure, because `type_equals` compares structure.

A behaviour of `Lower` is the compilation of an expression from the inside out:
one construct per step, accepted if the rule of `Types` accepts it. The state is a
record with the expression's type, what it means (`val`, and `loc` for an
lvalue), and what `codegen.c` generates for it: `rv`, the operand `gen_expr` leaves
without `need_lvalue`, and `lv`, the one it leaves with it. An operand carries
`struct codegen_opd`'s kind, `indirect`, sign and size, and two ghosts: `at`, what
its variable or temporary holds when the code runs, and `ok`, that all
instructions generated for it pass their `LEGAL_IF` tests. Locations are paths
of members, elements and pointer targets; a value is what a location contains or
its address. `store` records where the last construct writes and where the
program says. Where a construct has several operands, one is the expression built
so far and the others are names, constants or literals.

`Uses` admits six ways to write a program that the code does not handle (section
4). The runs and theorems that say "correct" have `Uses = {}`.

Arithmetic and casts yield a value that is not told from any other (`Fresh`):
the model is about operands, not numbers. Arrays of no elements are
excluded (`TypesAssumption`).

### Promise

What a user of quaints relies on: a quaint is created, resumed and interrupted
any number of times, ends, and is reaped; it is interrupted only outside of
`noint` and only by a wait above it that may end; at its end it returns to whoever
resumed it last, and reaping yields its value once. No flags, no chain of
parents, no timers. `PromiseKept` in the run `private` says that `Qvm` implements
it, under the mapping `Activity` and its neighbours in `Qvm`, which reads the state
of a quaint off its flags.

### Gen, Machine, Source, Htab

`Gen` is code generation for whole functions: the two walks that size and fill the
table of a function's variables, with the offsets of each, and one operator per
`gen_*` function, which appends instructions, reserves temporaries and patches
jumps exactly as the code does. Its result is an initial value for `Machine`, which
executes it as `exec.c` does: `sp`, `bp`, return addresses and arguments are cells at
byte offsets of the running VM's stack, each quaint has a stack of its own, and an
operand is read at the address its kind and offset give. `Source` runs the same
program from its syntax tree with an environment and a call stack of names, and
records what it does; `FollowsSource` compares both records. `Htab` is used by
`Gen` as the code uses it, with addresses of which some collide.

### Lex, Parse, Ast, Scope, Driver

These model every step of compilation up to code generation, on real texts: the
text is a string, a token is a range of it.

`Lex` takes one character per step. `auto` is `statuses` and `states`; states
are not reset between tokens except by a rejection, as in the code. `Parse` takes
one turn of the loop over the grammar per step: the first rule that matches is
reduced, or the lookahead asks for a shift. A node carries `blocks`, what it and the
nodes below it have allocated: two blocks per reduction. `Ast` and `Scope` are recursive walks
without anything else running; `ast_build` and `scope_build` are one step each, in
which every allocation is made in the order of the code and any one may fail.
A world record `w` goes through the functions in place of the memory, the
symbol table, the context stack and the output parameters; `Try` is the early
return. In `Scope`, the type checker's walk collects in `refs` what each name and
label refers to; whether the types fit is a free choice (`typed`), since `Types`
and `Lower` are about that. `Driver` is `main` with its labels; code generation and
execution count by what they allocate and how they end.

`Mem` numbers the allocations; the block `0` is NULL. A double free, a failed
assertion or a read through NULL sets `wrong`. At most one allocation fails.
`MaxCalls` is more than the number of allocations of one phase on any text of the
run.

The model was compared with the program: built with a shim that counts
allocations and makes one of them fail, it makes as many as the model after
`ast_build` and after `scope_build`, on fifteen programs, and leaks where the model
leaks.

`Tokens` and `Written` say the same from the other side. `InLanguage` gives each
kind of token as a set of texts, without automata; `LongestMatch` and
`RefusedForCause` say with these languages alone what lexing must yield. Between
the two stands `FreshTokens`, in `Lex`: a token is what the automata say, each
run by itself (`Alone`) from where the token before has ended. `Derivation` does not
know the loop of the parser either: it opens the last inner node again and again,
down to the tokens (`StackCoversTokens`: which must be those read so far, in their
order), and asks at each whether a rule makes such a node (`MadeByRules`), with
`ReadAs`, which reads a rule from the left where `match_rule` reads it from the
right and is greedy. A tree is written
down with the parentheses that C's precedence demands (`SpellUnit`) and then must be
read back as it was.

## 3. The runs

| run | result | what it shows |
|---|---|---|
| `private` | pass | programs that keep each quaint in an initialised local variable of one function and do not copy it: `*` runs to the end, waits end when they may, `noint` blocks hold, no handle dangles, no illegal return; and the timeout of the outermost `wait` is honoured, whatever the quaints below do |
| `any` | pass | programs that share quaints through globals and copies, with failing system calls: what survives even then. `ParentsUsable` includes the step that makes the parents a cycle |
| `lower` | pass | accepted expressions are generated as legal instructions that designate what the expression means |
| `flow` | pass | generated code, executed, does what the text says, within its frames, with a balanced stack, and ends |
| `front` | pass | tokens, trees, names and labels are what the text says; every tree is a derivation; errors and failing allocations stop the program; each block has one owner and is released by it |
| `stale_wait` | violation of `RteCompletes` | section 4, 1 |
| `start_after_wait` | violation of `StartIsFresh` | section 4, 7 |
| `nested_noint` | violation of `NointHeld` | section 4, 2 |
| `return_in_noint` | violation of `TimeoutHonoured` | section 4, 3 |
| `reap_through_pointer` | violation of `HandlesValid` | section 4, 4 |
| `indirect_member` | violation of `OperandsDenote` | section 4, 5 |
| `ternary` | violation of `TreeAsWritten` | section 4, 6 |

**Bounds.** Two quaints and the root VM are a chain of three: an interrupted VM
with something above and something below it, which is where the walk of the poll
has a choice. In the private programs Root and `q1` have a quaint variable each and
`q2` is always the last of the chain, or is resumed by Root; the theorems about these
programs have no such bound. `Period` is 2 in `any`, so that polls with and without
a clock reading alternate and `now` may be old; in `private` it is 1, where every
poll reads the clock, the densest schedule; the proofs have any `Period`. The types
are checked in `private` only; `TypeCorrect` proves them for all programs. One tick
of the clock separates a timer that is due from one that is not, so `MaxClock` 1
is enough: a timer that is set at 0 and has to be honoured at 1. `MaxFrames` 2 distinguishes a
return to a caller from a return to a resumer.
Timeouts are 0, which returns at once, and 1. In `any` the two globals are
interchangeable and so are the two quaints, both of which have a value there; that is the
symmetry used. `private`, which checks liveness, uses none. In
`lower`, `MaxDepth` 4 covers combinations such as `*(p->a[i])` and `p->a[i]++`, and the sample
types have every kind, both signs, one struct in another, arrays and pointers of
what matters; the theorems remove both bounds.

`flow` executes seven programs that nest the constructs in one another, call with and
without arguments of different sizes and alignments, recurse until the stack is
full, and create, wait for and run quaints; every condition takes both values.
`front` starts from three kinds of text. All 1331 texts of three characters over
eleven letters that begin, continue or end every kind of token; a token of
three characters is the longest after which an automaton may still have to give
one back. All expressions of two operators with one operator of each level of
precedence, which is what one token of lookahead decides between; all statements
nested in each other and next to each other (but for a `while` after a block,
which a `fixme` in `parse.c` says is not handled). And twenty programs, most of them
wrong in several ways, each with none or any one of its allocations failing.
`MiddleLevel` is the level up to which the middle operand of `?:` is written
without parentheses: 1, what the code reads, in `front`, and 15, what C reads, in
`ternary`. `ReleasedAtExit` is about every program and every failing allocation: when
`main` returns, nothing is allocated but what a function or a `wait` had filled in
when it was given up (`Unfinished`), which the code does lose (section 4). Main
stops when it returns, so the runs of the front end do not check for deadlock;
`Terminates` says that it does return.

**Fairness.** `WF(Exec)`: the loop of `exec()` always executes another
instruction. `WF(Tick)`: the clock runs. `SF(Jump)`: a program's text is
finite, so a program that runs for ever executes a jump again and again.
Without it an endless row of `WAIT`s that return at once would be a behaviour.
In `flow` and `front` there is one thread and weak fairness of the whole next-state
relation: nothing but the end of the program stops it.
`TimeoutHonoured` further assumes that the program leaves its `noint` blocks
again and again. That is a premise on the program; the property says what the
interpreter owes such a program.

## 4. Where the code and its documentation disagree

1. `insn_wait` returns early on an ended quaint and leaves the waiting flags of
   an interrupted execution of the same `WAIT` set. The poll applies them to the
   next `*`, which then returns before its quaint has ended.
2. `noint` is one flag per VM; the end of an inner block, in the same function or
   in a callee, makes the rest of the outer one interruptible.
3. `return` inside a `noint` block leaves the flag set, and no timeout
   interrupts the VM any more.
4. `*` on a handle loaded through a pointer frees the quaint and nullifies a
   temporary; the variable dangles.
5. `a[i].x` and `p->s.x` dereference the address of the struct once too often.
6. The colon of `?:` has the level of `.` and `->`, so `a ? -a : a` and
   `a ? a + a : a` are parse errors; with parentheses around the middle operand
   they are not.
7. `q@start` is still 1 for a quaint that has been waited on, if the timeout of an
   outer `wait` passes before its first instruction.

These have a run each. The following were met too and are admitted by a constant
that the passing runs leave out, without a run of their own:

- A quaint that waits on itself, or on a VM that waits on it (through a global
  variable, a pointer or a copy of the handle), overwrites a parent: the parents
  are then a cycle without the VM of `exec()`, and no timeout above it is looked at
  again (`CanUse`, `"deref"` or `"copy"`; `ChainOK` and `NeverBroken` fail).
- A quaint of a built-in function keeps `q@start` after it has ended
  (`"bfun"`; `EndedNotAtStart` fails).
- A timeout whose nanoseconds exceed 64 bits wraps and ends early (a `Timeouts`
  with `units * UnitNs >= Word`; `WaitSound` fails).
- `*a[i] = v` and `(*p).x = v` store elsewhere (`"indirect store"`;
  `StoresWhereNamed` fails).
- `&*p` is the address of a copy (`"copied operand"`; `OperandsDenote` fails).
- A void expression as an operand of `?:`, `[]`, `~` or as a condition, an array
  as a subscript, and `wait` on an array of quaints are accepted and generated as
  illegal instructions (`"void"`, `"array offset"`, `"array wait"`;
  `AcceptedIsLegal` fails).

In the front end, these are in the run `front`, whose properties say exactly how far
it goes:

- After the error "unexpected wexp" in the right operand of `.`, `->`, `@` or `::`,
  as in `q.(1 sec)`, the type checker reads through the NULL operand
  (`type.c:894`, `type.c:958`; `type_from_expr` guards against it at `type.c:1663`).
- `type A: enum(X); type B: enum(Z): A;` fails the assertion of
  `enum_boundary_from_type` (`ast.c:647`): an enum counts as integral and unsigned.
  `OnlyTwoMistakesBreakIt` says that no other program breaks the front end.
- Programs whose tree cannot be built leak: a function its parameters when its
  return type is bad or cannot be allocated (`ast.c:865`), a `wait` its quaint when
  the other operand is bad. `ReleasedAtExit` says that this is all that is lost.

These are outside the models, which do not tell numbers apart:

- `CAST` pads with zeros (`exec.c:342`), so `i8` -1 `as i32` is 255.
- Division by zero ends the interpreter with a signal (`exec.c`, `insn_bin_arith`).
- The types of literals are shared static objects that code generation modifies;
  the second arithmetic on a string literal fails an assertion in debug builds
  (`type.c:484`).

## 5. What is proved

**Qvm**, for every number of quaints, variables and labels, all bounds, all
features and failures, copied and shared handles included: `TypeCorrect`,
`ParentsCorrect` and `TimersCorrect`. For
programs that neither nest `noint` blocks nor return out of one: `NointCorrect`, up
to the step that makes the parents a cycle, and `NointFlagCorrect`. The inductive
invariant is `GenInv`: `Inv` until the parents are a cycle, and always what `Lasting`
keeps of it. That they are no cycle, `ChainOK`, is not true of every program; it is a
theorem about private ones, below. In `Inv`,
`ChainOK` alone is not inductive, because a split cuts the chain at a VM
that must then be suspended at a wait, and because a return pops a VM whose
resumer must be at a `WAIT` or `RTE`. `NointHeld` alone is not either: that a
frozen quaint is outside every block follows from the poll's test of the flag
only if the flag is set exactly inside blocks, in every activation of
every VM (`BlockInv`). The argument is one lemma for the poll, `Safe` before the
poll implies `Inv` after it, and one per instruction that establishes `Safe`.

**Lower**, for every set of types that satisfies `TypesAssumption` and every depth,
with `Uses = {}`: `TypeCorrect`, `FitCorrect`, `LegalCorrect`, `DenoteCorrect`,
`StoreCorrect`. The inductive invariant is `Good`, on the expression: operands fit
the type and all instructions so far are legal; the value operand has the
expression's value; and the lvalue operand designates its location *and has its
value*, which none of the checked properties says and which assignments, whose
result is that operand, need. `Good` is established by two introduction lemmas
(`RValueGood`, `LValueGood`), from lemmas on what `DRF`, `REF`, `ADD`, `SET_DIRECT`
and `SET_INDIRECT` make of an operand, one lemma per construct.

**Qvm and its programs.** What a step does is not the same for the VM that
executes, the one that is resumed, those the poll cuts off and the bystanders.
`QvmProofs` states it as one of eleven *effects* (`Effect`,
`StepEffect`), the cycle among them, so that the theorems after it need not look into the actions again.
It adds `LifeInv`: a VM stays at an instruction only in the body of a function, one
that has ended has no activation, instruction or label, one at its start has
executed nothing, and what is not allocated is zeroed. From it
follows `EndedCorrect`, for programs that apply `~` to functions of their own only.

The other theorems are about *private* programs: no variable is used by the code
of two VMs (`CanUse`), no handle is loaded through a pointer (`"deref"`) and none is
copied (`"copy"`, which includes that local variables are initialised). That is the
premise of the run `private`; without it the run `reap_through_pointer` shows the
dangling handle, a quaint that waits on itself makes the cycle, and two variables that hold the same
handle free it under one another. It is a premise on programs: the type
checker does not enforce it.
The invariant is `OwnedInv`: no two variables hold the same quaint (`Handles`), and
none holds one that is still in a temporary, nor do two temporaries (`Temporaries`); a
VM that stays at an instruction, in the chain or frozen, does so on a variable of its
own that holds a quaint which has not ended (`OnOwn`); its waiting flags are those
of that instruction (`FlagsMatch`); and who was resumed is in the variable its
resumer names (`Follows`). From it:

- `HandlesCorrect`: every variable is null or holds a quaint nobody else holds.
- `ChainCorrect`: the parents go up to the VM of `exec()` and are all different. The
  code does not see to that; the handles do: who is resumed would have to be held
  by its own resumer and by somebody in the chain, and these are two variables.
- `NeverBreaks`, for functions that return the values they owe: no freed handle is
  followed, no VM becomes its own ancestor, no return is illegal.
- `RteCorrect` and `WaitCorrect`: a `*` returns only when its quaint is reaped; a
  `wait` that has resumed a quaint returns only if the quaint has ended, the whole
  timeout has passed or the quaint is at the label. The premise of the latter
  is that the timeouts in nanoseconds fit 64 bits.
- `PromiseCorrect`: with `noint` blocks that are neither nested nor returned out of,
  and `~` applied to functions of the program only, `Spec => PromiseKept`: the
  initial state maps to one of `Promise`, and each effect to one of its actions or
  to a stutter. These premises are exactly the ones whose absence the runs
  `nested_noint` and `return_in_noint` and the quaints of built-in functions (section 4) show
  to matter. The run `start_after_wait` is no counterexample: what `Promise` calls
  started is what has left its first instruction, as in the code.

**Htab**, for every number of slots and every set of keys, however they collide:
a table with room gains exactly the key inserted (`InsertCorrect`), and a table
created for `n` keys takes all `n` and then finds each with its data
(`FillCorrect`); so neither loop of `htab.c` comes to its `abort`. Inductions over
the slots and over the insertions are by the least counterexample.

**Lex**, for every text. `LexSpec` is the lexer on its own, in a memory in which
nothing is allocated yet and any one allocation may fail. The invariant `LexInv`
says that each automaton is where it would be had it run alone from the
beginning of the prefix (`FollowsRun`), although the code does not reset its state:
a state is 0 whenever the status is a rejection, and the loop goes on until all
have rejected. It also holds the array as the only block.

- `TokensCorrect`: `FreshTokens`. `StatesCorrect`: no automaton is in a state without a
  case, so no `assert(0)` is reached. `ArrayCorrect`: whichever `realloc` fails, the
  array is freed once.
- `AcceptsLanguage`: each automaton accepts its language, from an exact account of
  what it makes of every text (`Reads`). The block comment is the interesting one:
  it takes its stars two at a time, so `**/` ends nothing (`OddStars`).
- `LongestCorrect` and `RefusedCorrect`: the tokens are the longest there are, and a
  text is refused only for a cause. Since the lexer never backs up, the
  latter depends on the fixed tokens: every beginning of one is a name or a fixed
  token itself. That and their spelling is `LiteralsAssumption`; it is a fact, not
  a premise: TLC evaluates it in the run `front`, and it is assumed only because the
  provers do not look into strings.

**Parse**, for every text. `ParserSpec` is the lexer followed by the parser, and any
one allocation of either may fail. The invariant says that while the parser runs
its state is `Sound`:

- What derives from the stack is the tokens read so far, by the rules, in no more
  steps than there were allocations (`Derives`). A reduction is a step of a
  derivation read backwards (`ReduceReaches`): the node made is the last inner
  one, so opening it gives back the stack before. That it is made by its rule is
  `MatchSound`: what `match_rule` takes, from the right and greedily, is read by
  the rule from the left as well. The converse does not hold and is not needed:
  `match_rule` never gives back what a repeated term has taken.
- The end marker is only ever on top of the stack (`EndTop`), so once it has been
  shifted, the only rules that match are those that end with it, and the rule of the
  unit is the only one (`MarkerTop`). For that rule nothing is looked ahead. Before
  that, the marker is still ahead and stops every lookahead (`TokenAhead`). That the
  tokens end with a marker, and have no other, is a conjunct of the invariant
  of the lexer (`EndMarked`).
- The nodes share no block, and what is allocated is their blocks, the stack and the
  tokens (`Holding`); the stack has room for its nodes.

From it `CoversCorrect`, `RulesCorrect`, `LookaheadCorrect` and `OwnedCorrect`, each
for the property of the run `front`; and `ReleasesCorrect`, the action property that
however the parser ends, accepting, rejecting or out of memory in `shift` or in
either allocation of `reduce`, only the tokens and the tree it returns remain.
`MatchSound` is an induction over the turns of `match_rule`, for any rule and any
stack; it is by the least counterexample over the set of turns, since the
induction theorems of the library cannot be used.

Only model-checked: liveness (`TimeoutHonoured`, `Terminates`), which is out of the
prover's reach; and the properties of `flow` and the rest of `front`. That the tree is
the one *meant* among those that derive the tokens (`TreeAsWritten`) is compared with
a reference that is recursive over trees, as are the modules of the tree, the
scopes and code generation: these are built from RECURSIVE operators, which the
prover does not take. For programs that share or copy quaints, `WaitSound` is
model-checked in `any`; what the VMs of a cycle go on to do is neither checked nor
proved.

## 6. The plan

Runs are few and each answers one question of the system.

1. *Done:* `Qvm`, `Types`, `Lower`, their runs and proofs; `Promise` and its
   refinement; `Gen`, `Machine`, `Source`, `Htab` (run `flow`); the front end from
   the text to the scopes, and the driver (runs `front`, `ternary`, and those of
   section 4).
2. *Done:* proofs for programs that keep their quaints to themselves, and the
   refinement of `Promise`.
3. *Done:* `Htab` for every capacity; the lexer for every text.
4. *Done:* the parser for every text: lookahead, derivation, ownership.
5. The arithmetic of sized integers (`exec.c`, binary and unary instructions) as
   operators checked against integers modulo 2^w.

## 7. What is not modelled

- Printing: `lex_print_error`, `diagnose_error` of the parser, `ast_print`,
  `type_print`, the listing of instructions; and the input and output of built-in
  functions. No property depends on them.
- Numbers: the value of a literal, sized arithmetic, and how many values an enum
  has (its boundary is never crossed in the model).
- What the type checker and code generation allocate, beyond the instructions
  and the strings; so their own cleanup after a failing allocation. One such
  cleanup follows a null pointer (`codegen.c:523`, listed as a hazard).
- `type_quantify` and type identity (`type_copy`'s counterpart `type_equals`) enter
  `Lower` through `TypesAssumption`; sizes in `Gen` are given with the program.
- The order of `qsort` and the search of `bsearch` are abstracted to lookup by name.
