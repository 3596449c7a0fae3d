------------------------------ MODULE RegexCompile ------------------------------
(***************************************************************************)
(* regex/regcomp.c, the second half, and the states of regex_internal.c:   *)
(* from the tree of a pattern to its automaton, and the entry point        *)
(* regcomp.                                                                *)
(*                                                                         *)
(* Nodes are numbered from 1, in the order of the code.  A sorted array of *)
(* node indices (re_node_set) is the set of them, and elems[0] its least.  *)
(* A constraint is the set of its bits.  A DFA state is determined by the  *)
(* nodes it was entered with and its context, so the table of states that  *)
(* the code keeps is a cache of State and of IndependentState.             *)
(***************************************************************************)
EXTENDS RegexParse

(**************************  Subexpressions  *******************************)

\* optimize_subexps: a group that is all of another one takes its place.
OptimizeNode(z) ==
    LET n == z.tree IN
    IF n.t = "OP_BACK_REF"
    THEN [z EXCEPT !.tree.i = z.map[n.i], !.used = @ \cup {z.map[n.i]}]
    ELSE IF n.t = "SUBEXP" /\ n.l.t = "SUBEXP"
    THEN [z EXCEPT !.tree.l = n.l.l, !.map[n.l.i] = z.map[n.i], !.used = @ \ {n.l.i}]
    ELSE z

RECURSIVE OptimizeSubexps(_), LowerSubexps(_, _, _)
OptimizeSubexps(z) ==
    IF IsNull(z.tree) THEN z
    ELSE LET n == OptimizeNode(z)
             l == OptimizeSubexps([n EXCEPT !.tree = n.tree.l])
             r == OptimizeSubexps([l EXCEPT !.tree = n.tree.r])
         IN [r EXCEPT !.tree = [n.tree EXCEPT !.l = l.tree, !.r = r.tree]]

SubexpEnd(type, tree) ==
    [TokenTree(Tok(type, {}, tree.i, 0), Null, Null) EXCEPT !.opt = tree.opt]

\* lower_subexps: a group becomes OPEN, its body and CLOSE; without registers
\* only a group that a back-reference uses does.
LowerSubexps(tree, no_sub, used) ==
    IF IsNull(tree) THEN Null
    ELSE LET l == LowerSubexps(tree.l, no_sub, used)
             r == LowerSubexps(tree.r, no_sub, used)
             close == SubexpEnd("OP_CLOSE_SUBEXP", tree)
         IN IF tree.t # "SUBEXP" THEN [tree EXCEPT !.l = l, !.r = r]
            ELSE IF no_sub /\ ~IsNull(l) /\ tree.i \notin used THEN l
            ELSE Tree("CONCAT", SubexpEnd("OP_OPEN_SUBEXP", tree),
                      IF IsNull(l) THEN close ELSE Tree("CONCAT", l, close))

(*******************************  The NFA  *********************************)

EpsilonTypes == {"OP_OPEN_SUBEXP", "OP_CLOSE_SUBEXP", "OP_ALT", "OP_DUP_ASTERISK", "ANCHOR"}
BranchTypes == {"OP_ALT", "OP_DUP_ASTERISK"}

\* calc_first: all nodes of the tree but CONCAT, in postorder.
RECURSIVE Size(_), First(_, _), LinkNodes(_, _, _)
Size(tree) == IF IsNull(tree) THEN 0
              ELSE Size(tree.l) + Size(tree.r) + (IF tree.t = "CONCAT" THEN 0 ELSE 1)
First(tree, base) == IF tree.t = "CONCAT" THEN First(tree.l, base) ELSE base + Size(tree)

\* re_dfa_add_node and link_nfa_nodes, for a node whose successor is next.
Node(tree, base, next) ==
    LET Start(child, at) == IF IsNull(child) THEN next ELSE First(child, at) IN
    [t |-> tree.t, v |-> tree.v, i |-> tree.i, opt |-> tree.opt, dup |-> tree.dup,
     con |-> IF tree.t = "ANCHOR" THEN tree.v ELSE {}, org |-> 0,
     next |-> IF tree.t \in EpsilonTypes THEN 0 ELSE next,
     dest |-> IF tree.t \in BranchTypes
              THEN {Start(tree.l, base), Start(tree.r, base + Size(tree.l))}
              ELSE IF tree.t \in EpsilonTypes \cup {"OP_BACK_REF"} THEN {next}
              ELSE {},
     ecl |-> {}]

\* calc_next: the nodes of the tree from base + 1 on.
LinkNodes(tree, base, next) ==
    IF IsNull(tree) THEN <<>>
    ELSE LET right == base + Size(tree.l)
             self == base + Size(tree)
             after == IF tree.t = "CONCAT" THEN First(tree.r, right)
                      ELSE IF tree.t = "OP_DUP_ASTERISK" THEN self ELSE next
         IN LinkNodes(tree.l, base, after) \o LinkNodes(tree.r, right, next)
            \o (IF tree.t = "CONCAT" THEN <<>> ELSE <<Node(tree, base, next)>>)

(**************************  Epsilon closures  *****************************)

\* The least index of a set of nodes: elems[0].
First0(set) == CHOOSE k \in set : \A m \in set : k <= m
\* A set of node indices as the array it is.
InOrder(set) == SelectSeq([k \in 1..Max(set \cup {0}) |-> k], LAMBDA k : k \in set)

DuplicateNode(d, org, constraint) ==
    [d EXCEPT !.nodes = Append(@, [@[org] EXCEPT !.con = @ \cup constraint, !.dup = TRUE,
                               !.org = org, !.next = 0, !.dest = {}, !.ecl = {}])]

SearchDuplicatedNode(d, org, constraint) ==
    {k \in (d.ntree + 1)..Len(d.nodes) : d.nodes[k].org = org /\ d.nodes[k].con = constraint}

RECURSIVE DuplicateNodeClosure(_, _, _, _, _)

\* The clone of a destination becomes a destination of the clone, and the
\* duplication goes on from there.
FollowClone(d, clone, dest, root, constraint, dests) ==
    LET e == DuplicateNode(d, dest, constraint) IN
    DuplicateNodeClosure([e EXCEPT !.nodes[clone].dest = dests \cup {Len(e.nodes)}],
                         dest, Len(e.nodes), root, constraint)

\* The first of two destinations: a clone that is there already is used again.
CloneFirst(d, clone, dest, root, constraint) ==
    LET found == SearchDuplicatedNode(d, dest, constraint) IN
    IF found # {} THEN [d EXCEPT !.nodes[clone].dest = {Max(found)}]
    ELSE FollowClone(d, clone, dest, root, constraint, {})

DuplicateNodeClosure(d, org, clone, root, constraint) ==
    LET node == d.nodes[org]
        dest == First0(node.dest)
        first == CloneFirst(d, clone, dest, root, constraint)
    IN
    IF node.t = "OP_BACK_REF"
    THEN FollowClone([d EXCEPT !.nodes[clone].next = node.next], clone, node.next, root, constraint, {})
    ELSE IF node.dest = {} THEN [d EXCEPT !.nodes[clone].next = node.next]
    ELSE IF Cardinality(node.dest) = 1 /\ org = root /\ clone # org
    THEN [d EXCEPT !.nodes[clone].dest = node.dest]
    ELSE IF Cardinality(node.dest) = 1
    THEN FollowClone(d, clone, dest, root, constraint \cup node.con, {})
    ELSE FollowClone(first, clone, Max(node.dest), root, constraint, first.nodes[clone].dest)

RECURSIVE CalcEclosureIter(_, _, _), ExpandDests(_, _)

\* d.set is the closure so far and d.inc whether it is incomplete.
ExpandDests(d, dests) ==
    IF dests = {} THEN d
    ELSE LET dest == First0(dests)
             new == d.nodes[dest].ecl = {}
             e == IF new /\ dest \notin d.busy THEN CalcEclosureIter(d, dest, FALSE) ELSE d
         IN IF dest \in d.busy THEN ExpandDests([d EXCEPT !.inc = TRUE], dests \ {dest})
            ELSE ExpandDests([e EXCEPT !.set = d.set \cup (IF new THEN e.set ELSE d.nodes[dest].ecl),
                                       !.inc = d.inc \/ e.nodes[dest].ecl = {}], dests \ {dest})

CalcEclosureIter(d0, k, root) ==
    LET node == d0.nodes[k]
        b == [d0 EXCEPT !.busy = @ \cup {k}]
        d == IF node.con # {} /\ node.dest # {} /\ ~d0.nodes[First0(node.dest)].dup
             THEN DuplicateNodeClosure(b, k, k, k, node.con) ELSE b
        e == ExpandDests([d EXCEPT !.set = {k}, !.inc = FALSE],
                         IF node.t \in EpsilonTypes THEN d.nodes[k].dest ELSE {})
    IN [e EXCEPT !.busy = @ \ {k}, !.nodes[k].ecl = IF e.inc /\ ~root THEN {} ELSE e.set]

RECURSIVE CalcEclosure(_, _)
CalcEclosure(d, k) ==
    IF k > Len(d.nodes) THEN d
    ELSE CalcEclosure(IF d.nodes[k].ecl # {} THEN d ELSE CalcEclosureIter(d, k, TRUE), k + 1)

InvEclosure(d) == [k \in DOMAIN d.nodes |-> {s \in DOMAIN d.nodes : k \in d.nodes[s].ecl}]

(*******************************  States  **********************************)

NotSatisfyPrev(con, context) ==
    \/ "PREV_WORD" \in con /\ "WORD" \notin context
    \/ "PREV_NOTWORD" \in con /\ "WORD" \in context
    \/ "PREV_NEWLINE" \in con /\ "NEWLINE" \notin context
    \/ "PREV_BEGBUF" \in con /\ "BEGBUF" \notin context
NotSatisfyNext(con, context) ==
    \/ "NEXT_WORD" \in con /\ "WORD" \notin context
    \/ "NEXT_NOTWORD" \in con /\ "WORD" \in context
    \/ "NEXT_NEWLINE" \in con /\ "NEWLINE" \notin context
    \/ "NEXT_ENDBUF" \in con /\ "ENDBUF" \notin context

OfType(d, set, types) == {k \in set : d.nodes[k].t \in types}

StateOf(d, nodes, entrance, context, has_constraint) ==
    [n |-> nodes, e |-> entrance, c |-> context,
     halt |-> OfType(d, entrance, {"END_OF_RE"}) # {},
     backref |-> OfType(d, entrance, {"OP_BACK_REF"}) # {}, con |-> has_constraint]
NoState == [n |-> {}, e |-> {}, c |-> {}, halt |-> FALSE, backref |-> FALSE, con |-> FALSE]
IsState(state) == state.e # {}

\* create_ci_newstate: a constraint of a node that ends the match or refers
\* back does not count.
HasConstraint(d, set) ==
    \E k \in set : d.nodes[k].t \notin {"END_OF_RE", "OP_BACK_REF"} /\ d.nodes[k].con # {}

\* re_acquire_state: a state that does not depend on the context.
IndependentState(d, set) ==
    IF set = {} THEN NoState
    ELSE StateOf(d, set, set, {}, HasConstraint(d, set))

\* re_acquire_state_context: the nodes whose constraint the context fails leave.
State(d, set, context) ==
    IF set = {} THEN NoState
    ELSE StateOf(d, {k \in set : ~NotSatisfyPrev(d.nodes[k].con, context)}, set, context,
                 \E k \in set : d.nodes[k].con # {})

\* create_initial_state: a back-reference to a group that can be empty is
\* passed over.  After a merge the scan starts again behind the first node.
RECURSIVE InitNodes(_, _, _)
InitNodes(d, set, j) ==
    IF j > Cardinality(set) THEN set
    ELSE LET k == InOrder(set)[j]
             dest == First0(d.nodes[k].dest)
         IN IF /\ d.nodes[k].t = "OP_BACK_REF"
               /\ \E m \in OfType(d, set, {"OP_CLOSE_SUBEXP"}) : d.nodes[m].i = d.nodes[k].i
               /\ dest \notin set
            THEN InitNodes(d, set \cup d.nodes[dest].ecl, 2)
            ELSE InitNodes(d, set, j + 1)

InitState(d, context) ==
    State(d, d.init, IF State(d, d.init, {}).con THEN context ELSE {})

(******************************  The fastmap  ******************************)

EveryChar == {"OP_PERIOD", "END_OF_RE"}

FastmapOf(d, state) ==
    IF OfType(d, state.n, EveryChar) # {} THEN Chars
    ELSE LET set == UNION {d.nodes[k].v : k \in OfType(d, state.n, {"CHARACTER", "SIMPLE_BRACKET"})}
         IN IF "RE_ICASE" \in d.syn THEN set \cup {c \in DOMAIN ToUpper : ToUpper[c] \in set} ELSE set

\* The first of the nodes that let every character start decides alone.
FastmapSeesEnd(d, state) ==
    LET every == OfType(d, state.n, EveryChar) IN
    every # {} /\ d.nodes[First0(every)].t = "END_OF_RE"

\* Mutant of FastmapStates: what can begin at no word, line or buffer edge.
FastmapStatesInside(d) == {InitState(d, {})}

FastmapStates(d) == {InitState(d, c) : c \in {{}, {"WORD"}, {"NEWLINE"}, {"NEWLINE", "BEGBUF"}}}

CompileFastmap(d) ==
    [d EXCEPT !.fastmap = UNION {FastmapOf(d, s) : s \in FastmapStates(d)},
              !.can_be_null = \E s \in FastmapStates(d) : FastmapSeesEnd(d, s)]

(******************************  The compiler  *****************************)

\* The automaton before its closures are known; o is what optimize_subexps
\* left of the tree of p, tree the lowered one.
Automaton(p, o, tree, no_sub, newline_anchor) ==
    LET nodes == LinkNodes(tree, 0, 0) IN
    [err |-> "REG_NOERROR", nodes |-> nodes, ntree |-> Len(nodes), set |-> {},
     inc |-> FALSE, busy |-> {}, syn |-> p.syn, nsub |-> p.nsub, map |-> o.map,
     used |-> o.used, nbackref |-> p.nbackref, word |-> p.word, no_sub |-> no_sub,
     newline_anchor |-> newline_anchor, first |-> First(tree, 0), init |-> {},
     inv |-> <<>>, fastmap |-> {},
     plural |-> \E k \in DOMAIN nodes : nodes[k].t \in BranchTypes,
     can_be_null |-> FALSE]

\* analyze and create_initial_state.
Initial(d) == [d EXCEPT !.init = InitNodes(d, d.nodes[d.first].ecl, 1), !.inv = InvEclosure(d)]
Analyze(p, no_sub, newline_anchor) ==
    LET o == OptimizeSubexps([tree |-> p.tree, map |-> [g \in 0..(p.nsub - 1) |-> g], used |-> p.used])
    IN Initial(CalcEclosure(Automaton(p, o, LowerSubexps(o.tree, no_sub, o.used), no_sub, newline_anchor), 1))

Compiled(p, no_sub, newline_anchor) ==
    IF IsNull(p.tree) THEN [err |-> p.err] ELSE Analyze(p, no_sub, newline_anchor)
CompileInternal(pattern, syntax, no_sub, newline_anchor) ==
    Compiled(Parse(pattern, syntax), no_sub, newline_anchor)

PosixSyntax(cflags) ==
    ((IF "REG_EXTENDED" \in cflags THEN PosixExtended ELSE PosixBasic)
     \ (IF "REG_NEWLINE" \in cflags THEN {"RE_DOT_NEWLINE"} ELSE {}))
    \cup (IF "REG_NEWLINE" \in cflags THEN {"RE_HAT_LISTS_NOT_NEWLINE"} ELSE {})
    \cup (IF "REG_ICASE" \in cflags THEN {"RE_ICASE"} ELSE {})

PosixCompiled(d) ==
    IF d.err = "REG_ERPAREN" THEN [err |-> "REG_EPAREN"]
    ELSE IF d.err # "REG_NOERROR" THEN d
    ELSE CompileFastmap(d)
RegComp(pattern, cflags) ==
    PosixCompiled(CompileInternal(pattern, PosixSyntax(cflags), "REG_NOSUB" \in cflags,
                                  "REG_NEWLINE" \in cflags))
================================================================================
