------------------------------ MODULE Derivation ------------------------------
(***************************************************************************)
(* What the parser is for, said by the grammar alone: a derivation goes    *)
(* from a sequence of nodes to tokens, opening the last inner node each    *)
(* time.  The parser finds it backwards.                                   *)
(***************************************************************************)
EXTENDS Parse

\* The kids read as the right-hand side rhs: after each term, the numbers of kids
\* that the terms up to it can account for
ReadAs(rhs, kids) ==
  LET upto[k \in 0 .. Len(rhs)] ==
        IF k = 0 THEN {0}
        ELSE UNION {{j \in i .. Len(kids) : /\ rhs[k][1] # "m" => j = i + 1
                                            /\ \A x \in i + 1 .. j : TermEq(rhs[k], kids[x])} :
                    i \in upto[k - 1]}
  IN  upto

\* There is a rule that makes such a node
ByRule(node) ==
  \E r \in DOMAIN grammar :
    /\ grammar[r].lhs = node.sym
    /\ Len(node.kids) \in ReadAs(grammar[r].rhs, node.kids)[Len(grammar[r].rhs)]

\* The last inner node, 0 if there is none
LastInner(nodes) ==
  LET inner == {i \in DOMAIN nodes : ~IsLeaf(nodes[i])}
  IN  IF inner = {} THEN 0 ELSE CHOOSE i \in inner : \A j \in inner : j <= i

\* One step of the derivation, and whether all steps so far were by the grammar
Opened(d) ==
  LET i == LastInner(d.nodes)
  IN  IF i = 0 THEN d
      ELSE [nodes |-> SubSeq(d.nodes, 1, i - 1) \o d.nodes[i].kids \o
                      SubSeq(d.nodes, i + 1, Len(d.nodes)),
            sound |-> d.sound /\ ByRule(d.nodes[i])]

\* The derivation from nodes after each number of steps
Derivation(nodes) ==
  LET after[d \in Nat] ==
        IF d = 0 THEN [nodes |-> nodes, sound |-> TRUE] ELSE Opened(after[d - 1])
  IN  after

-----------------------------------------------------------------------------
(***************************************************************************)
(* Properties                                                              *)
(***************************************************************************)
\* The nodes that the parser has, and their derivation.  Every inner node owns
\* two blocks, so there are fewer of them than allocations so far.
Nodes == IF parsed = "OK" THEN tree ELSE stack.nodes
Derived == Derivation(Nodes)[mem.n]

\* Nothing is lost, duplicated or reordered: what derives from the stack, and
\* from the tree in the end, is the tokens read so far except whitespace and
\* comments
StackCoversTokens ==
  parsed \in {"RUN", "OK"} =>
    LET leaves == Derived.nodes
    IN  /\ \A i \in DOMAIN leaves : leaves[i] = Leaf(leaves[i].at)
        /\ {leaves[i].at : i \in DOMAIN leaves} =
             {i \in 1 .. idx - 1 : ~SkipToken(tokens[i].tk)}
        /\ \A i, j \in DOMAIN leaves : i < j => leaves[i].at < leaves[j].at

\* Every node that is made, however deep it is in the tree by now, is made as one
\* of the rules says, terms that repeat where they may; and a program is accepted
\* only as a unit, to its last token
MadeByRules ==
  /\ parsed \in {"RUN", "OK"} => Derived.sound
  /\ parsed = "OK" => Len(tree) = 1 /\ tree[1].sym = "Unit" /\ idx = Len(tokens) + 1

\* The parser looks at no token past the end marker, whatever the program
LookaheadInside ==
  parsed = "RUN" /\ stack.nodes # <<>> =>
    LET r == FirstRule(stack.nodes)
    IN  r # 0 /\ grammar[r].lhs # "Unit" => Ahead(idx) <= Len(tokens)

-----------------------------------------------------------------------------
\* While the parser runs, the stack has room for its nodes, every node owns its
\* blocks alone, and nothing else is allocated but the stack and the tokens
StackOwned ==
  lexed = "OK" /\ parsed = "RUN" =>
    LET N == DOMAIN stack.nodes
        blocks(i) == stack.nodes[i].blocks
    IN  /\ ~mem.wrong
        /\ Len(stack.nodes) <= stack.room
        /\ \A i, j \in N : i # j => blocks(i) \cap blocks(j) = {}
        /\ array.ptr # stack.ptr /\ \A i \in N : {0, array.ptr, stack.ptr} \cap blocks(i) = {}
        /\ mem.live = ({array.ptr, stack.ptr} \ {0}) \cup UNION {blocks(i) : i \in N}

\* Whichever allocation fails and however the parser ends, it leaves the tokens and
\* the tree it returns, if it returns one, and nothing else
ReleasesStack ==
  [][parsed' # parsed =>
       /\ ~mem'.wrong
       /\ mem'.live = {array.ptr} \cup UNION {tree'[i].blocks : i \in DOMAIN tree'}]_parseVars

===============================================================================
