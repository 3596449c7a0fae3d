------------------------------- MODULE RegexMatch -------------------------------
(***************************************************************************)
(* regex/regexec.c, the matcher: the states the input takes the automaton  *)
(* through, and the back-references that put nodes in the log ahead of it. *)
(*                                                                         *)
(* A match context m holds the automaton d, the input str as the matcher   *)
(* sees it and where it stops, the flags, the log of states by position,   *)
(* the entries of the back-reference cache in the order they were added,   *)
(* the open groups seen (tops, each with the ends found for it),           *)
(* max_mb_elem_len as maxlen, and the place the match begins at.           *)
(* Positions count from 0, from the start of the string: the code counts   *)
(* from the place where the match begins.                                  *)
(***************************************************************************)
EXTENDS RegexCompile

(*******************************  Contexts  ********************************)

Newline(d, c) == c = "\n" /\ d.newline_anchor

\* re_string_context_at.
Context(m, p) ==
    IF p < 0 THEN {"BEGBUF"} \cup (IF "REG_NOTBOL" \in m.eflags THEN {} ELSE {"NEWLINE"})
    ELSE IF p = Len(m.str)
    THEN {"ENDBUF"} \cup (IF "REG_NOTEOL" \in m.eflags THEN {} ELSE {"NEWLINE"})
    ELSE IF m.d.word /\ IsWordChar(m.str[p + 1]) THEN {"WORD"}
    ELSE IF Newline(m.d, m.str[p + 1]) THEN {"NEWLINE"} ELSE {}

MatchContext(d, string, stop, eflags) ==
    [d |-> d, str |-> RegexString(string, "RE_ICASE" \in d.syn), stop |-> stop, eflags |-> eflags,
     from |-> 0, log |-> [p \in 0..Len(string) |-> NoState], ents |-> <<>>, tops |-> <<>>,
     maxlen |-> 0]

(*****************************  Transitions  *******************************)

AcceptsChar(d, k, c) ==
    \/ d.nodes[k].t \in {"CHARACTER", "SIMPLE_BRACKET"} /\ c \in d.nodes[k].v
    \/ d.nodes[k].t = "OP_PERIOD" /\ (c = "\n" => "RE_DOT_NEWLINE" \in d.syn)

\* group_nodes_into_DFAstates: the constraint of a node on what follows is
\* decided by the character alone.
TableAccepts(d, k, c) ==
    LET con == d.nodes[k].con
        word == d.word /\ IsWordChar(c)
    IN /\ AcceptsChar(d, k, c)
       /\ "NEXT_NEWLINE" \in con => c = "\n"
       /\ "NEXT_ENDBUF" \notin con
       /\ "NEXT_WORD" \in con => word
       /\ "NEXT_NOTWORD" \in con => ~word

\* check_node_accept.
NodeAccepts(m, k, p) ==
    /\ p < Len(m.str)
    /\ AcceptsChar(m.d, k, m.str[p + 1])
    /\ ~NotSatisfyNext(m.d.nodes[k].con, Context(m, p))

\* build_trtable and transit_state: the state after a character.
Follows(d, state, c) == UNION {d.nodes[d.nodes[k].next].ecl : k \in {j \in state.n : TableAccepts(d, j, c)}}
TableContext(d, c) == IF c = "\n" THEN {"NEWLINE"} ELSE IF d.word /\ IsWordChar(c) THEN {"WORD"} ELSE {}
DestState(d, set, c) == State(d, set, IF State(d, set, {}).con THEN TableContext(d, c) ELSE {})
TransitState(d, state, c) == DestState(d, Follows(d, state, c), c)

(****************************  Back-references  ****************************)

\* check_subexp_matching_top: the groups that open here and are referred to.
AddTops(m, nodes, p) ==
    LET open == SelectSeq(InOrder(nodes), LAMBDA k : /\ m.d.nodes[k].t = "OP_OPEN_SUBEXP"
                                                     /\ m.d.nodes[k].i \in m.d.used)
    IN [m EXCEPT !.tops = @ \o [j \in DOMAIN open |-> [node |-> open[j], at |-> p, lasts |-> <<>>,
                                                       path |-> [log |-> <<>>, next |-> 0]]]]

\* search_cur_bkref_entry: the entries of the cache at a position.
EntriesAt(m, p) == {e \in DOMAIN m.ents : m.ents[e].at = p}
EntryLen(m, e) == m.ents[e].to - m.ents[e].from
\* Where an entry of a node leads: past what it matched, or on the spot.
EntryDest(m, e) ==
    LET node == m.d.nodes[m.ents[e].node] IN
    IF EntryLen(m, e) = 0 THEN First0(node.dest) ELSE node.next

\* match_ctx_add_entry.
AddEntry(m, node, at, from, to) ==
    [m EXCEPT !.ents = Append(@, [node |-> node, at |-> at, from |-> from, to |-> to]),
              !.maxlen = IF @ < to - from THEN to - from ELSE @]

\* find_subexp_node.
SubexpNodes(d, nodes, group, type) == {k \in nodes : d.nodes[k].t = type /\ d.nodes[k].i = group}

\* check_arrival_expand_ecl: the closures of a set, up to the brackets of the
\* group; a closure with such a bracket is walked node by node.
RECURSIVE ExpandEclSub(_, _, _, _, _)
ExpandEclSub(d, set, k, group, type) ==
    IF k \in set THEN set
    ELSE IF SubexpNodes(d, {k}, group, type) # {}
    THEN IF type = "OP_CLOSE_SUBEXP" THEN set \cup {k} ELSE set
    ELSE LET dest == d.nodes[k].dest
             rest == IF Cardinality(dest) = 2 THEN ExpandEclSub(d, set \cup {k}, Max(dest), group, type)
                     ELSE set \cup {k}
         IN IF dest = {} THEN rest ELSE ExpandEclSub(d, rest, Min(dest), group, type)

ExpandEcl(d, nodes, group, type) ==
    FoldLeft(LAMBDA set, k : IF SubexpNodes(d, d.nodes[k].ecl, group, type) = {}
                             THEN set \cup d.nodes[k].ecl
                             ELSE ExpandEclSub(d, set, k, group, type),
             {}, InOrder(nodes))

\* expand_bkref_cache: z.set are the nodes at p, z.log the path.  An empty
\* reference adds nodes here and starts the scan of the entries again.
RECURSIVE ExpandBkrefCache(_, _, _, _, _, _)
ExpandBkrefCache(m, z, p, left, group, type) ==
    IF left = {} THEN z
    ELSE LET e == Min(left)
             dest == EntryDest(m, e)
             to == p + EntryLen(m, e)
         IN IF m.ents[e].node \notin z.set \/ dest \in (IF to = p THEN z.set ELSE z.log[to].n)
            THEN ExpandBkrefCache(m, z, p, left \ {e}, group, type)
            ELSE IF to = p
            THEN ExpandBkrefCache(m, [z EXCEPT !.set = @ \cup ExpandEcl(m.d, {dest}, group, type)],
                                  p, EntriesAt(m, p), group, type)
            ELSE ExpandBkrefCache(m, [z EXCEPT !.log[to] = IndependentState(m.d, @.n \cup {dest})],
                                  p, left \ {e}, group, type)

\* The path with the state that a set of nodes gives at p.
AtPath(m, z, p) == [z.log EXCEPT ![p] = State(m.d, z.set, Context(m, p - 1))]
Arrived(m, set, log, p, group, type) ==
    AtPath(m, ExpandBkrefCache(m, [set |-> set, log |-> log], p, IF set = {} THEN {} ELSE EntriesAt(m, p),
                               group, type), p)

\* check_arrival_add_next_nodes.
NextNodes(m, nodes, p) == {m.d.nodes[k].next : k \in {j \in nodes : NodeAccepts(m, j, p)}}

RECURSIVE Arrive(_, _, _, _, _, _, _), ArriveOn(_, _, _, _, _, _, _)
Arrive(m, log, p, last, nulls, group, type) ==
    IF p >= last \/ nulls > m.maxlen THEN [log |-> log, next |-> p]
    ELSE ArriveOn(m, Arrived(m, ExpandEcl(m.d, log[p + 1].n \cup NextNodes(m, log[p].n, p), group, type),
                             log, p + 1, group, type),
                  p + 1, last, nulls, group, type)
ArriveOn(m, log, p, last, nulls, group, type) ==
    Arrive(m, log, p, last, IF IsState(log[p]) THEN 0 ELSE nulls + 1, group, type)

\* check_arrival: the path from node top at position from towards position
\* last; a path walked before is gone on with.
Arrival(m, log, p, top, from, last, group, type) ==
    Arrive(m, IF p = from THEN Arrived(m, ExpandEcl(m.d, {top}, group, type), log, p, group, type)
              ELSE IF log[p].backref THEN Arrived(m, log[p].n, log, p, group, type)
              ELSE log,
           p, last, 0, group, type)
CheckArrival(m, path, top, from, last, type) ==
    Arrival(m, IF path.log = <<>> THEN [p \in DOMAIN m.log |-> NoState] ELSE path.log,
            IF path.next # 0 THEN path.next ELSE from, top, from, last, m.d.nodes[top].i, type)
Arrives(path, node, p) == node \in path.log[p].n

\* get_subexp_sub: can the end l of the open group t arrive at the reference?
SubArrived(m, path, t, l, node, p) ==
    LET n == [m EXCEPT !.tops[t].lasts[l].path = path] IN
    IF Arrives(path, node, p) THEN AddEntry(n, node, p, m.tops[t].at, m.tops[t].lasts[l].at) ELSE n
GetSubexpSub(m, t, l, node, p) ==
    LET last == m.tops[t].lasts[l] IN
    SubArrived(m, CheckArrival(m, last.path, last.node, last.at, p, "OP_OPEN_SUBEXP"), t, l, node, p)

SameText(m, p, q, len) == \A j \in 1..len : m.str[p + j] = m.str[q + j]

\* The ends already known: z.at is how far the group has been compared.
RECURSIVE KnownEnds(_, _, _, _, _), NewEnds(_, _, _, _, _)
KnownEnds(z, t, l, node, p) ==
    LET top == z.m.tops[t] IN
    IF l > Len(top.lasts) THEN [z EXCEPT !.at = IF l > 1 THEN @ + 1 ELSE @]
    ELSE LET at == top.lasts[l].at
             off == p - top.at
         IN IF at > z.at /\ (off + at > Len(z.m.str) \/ ~SameText(z.m, z.at, off + z.at, at - z.at))
            THEN [z EXCEPT !.stop = TRUE]
            ELSE KnownEnds([z EXCEPT !.at = at, !.m = GetSubexpSub(@, t, l, node, p)], t, l + 1, node, p)

\* Then the ends not evaluated yet, up to the reference.
NewEnd(m, path, t, close, at, node, p) ==
    LET n == [m EXCEPT !.tops[t].path = path]
        end == [node |-> close, at |-> at, path |-> [log |-> <<>>, next |-> 0]]
    IN IF ~Arrives(path, close, at) THEN n
       ELSE GetSubexpSub([n EXCEPT !.tops[t].lasts = Append(@, end)], t, Len(m.tops[t].lasts) + 1, node, p)
NewEnds(m, t, at, node, p) ==
    LET top == m.tops[t]
        close == SubexpNodes(m.d, m.log[at].n, m.d.nodes[node].i, "OP_CLOSE_SUBEXP")
        off == p - top.at + at
    IN IF at > p \/ (at > top.at /\ (off > Len(m.str) \/ m.str[off] # m.str[at])) THEN m
       ELSE NewEnds(IF close = {} THEN m
                    ELSE NewEnd(m, CheckArrival(m, top.path, top.node, top.at, at, "OP_CLOSE_SUBEXP"),
                                t, Min(close), at, node, p),
                    t, at + 1, node, p)

TryEnds(z, t, node, p) == IF z.stop THEN z.m ELSE NewEnds(z.m, t, z.at, node, p)

\* get_subexp: what the reference can match at p, as entries of the cache; one
\* open group after the other.
RECURSIVE TryTops(_, _, _, _)
TryTops(m, t, node, p) ==
    IF t > Len(m.tops) THEN m
    ELSE TryTops(IF m.d.nodes[m.tops[t].node].i # m.d.nodes[node].i THEN m
                 ELSE TryEnds(KnownEnds([m |-> m, at |-> m.tops[t].at, stop |-> FALSE], t, 1, node, p),
                              t, node, p),
                 t + 1, node, p)
GetSubexp(m, node, p) ==
    IF \E e \in EntriesAt(m, p) : m.ents[e].node = node THEN m ELSE TryTops(m, 1, node, p)

\* transit_state_bkref: where the references lead goes into the log.
RECURSIVE TransitBkrefs(_, _, _), FollowEntries(_, _, _, _)
TransitBkref(m, nodes, p) == TransitBkrefs(m, InOrder(OfType(m.d, nodes, {"OP_BACK_REF"})), p)
TransitBkrefs(m, refs, p) ==
    IF refs = <<>> THEN m
    ELSE TransitBkrefs(IF NotSatisfyNext(m.d.nodes[Head(refs)].con, Context(m, p)) THEN m
                       ELSE FollowEntries(GetSubexp(m, Head(refs), p), Len(m.ents) + 1, Head(refs), p),
                       Tail(refs), p)
FollowEntries(m, e, node, p) ==
    IF e > Len(m.ents) THEN m
    ELSE IF m.ents[e].node # node \/ m.ents[e].at # p THEN FollowEntries(m, e + 1, node, p)
    ELSE LET to == p + EntryLen(m, e)
             new == m.d.nodes[EntryDest(m, e)].ecl
             size == Cardinality(m.log[p].n)
             n == [m EXCEPT !.log[to] = State(m.d, @.e \cup new, Context(m, to - 1))]
         IN FollowEntries(IF to = p /\ Cardinality(n.log[p].n) > size
                          THEN TransitBkref(AddTops(n, new, p), new, p) ELSE n, e + 1, node, p)

(*****************************  check_matching  ****************************)

\* acquire_init_state_context.
AcquireInitState(m, p) == InitState(m.d, Context(m, p - 1))

HaltNodes(m, state, p) ==
    {k \in OfType(m.d, state.n, {"END_OF_RE"}) : ~NotSatisfyNext(m.d.nodes[k].con, Context(m, p))}
\* The last node of a match; where there is none the code takes its first node.
HaltNode(m, state, p) == IF HaltNodes(m, state, p) = {} THEN 1 ELSE Min(HaltNodes(m, state, p))
Halts(m, state, p) == state.halt /\ (~state.con \/ HaltNodes(m, state, p) # {})

\* The groups and the references of the state at p.
Referring(m, state, p) ==
    IF m.d.nbackref = 0 \/ ~IsState(state) THEN m
    ELSE LET n == AddTops(m, state.n, p) IN IF state.backref THEN TransitBkref(n, state.n, p) ELSE n

\* merge_state_with_log.
MergeStateWithLog(m, state, p) ==
    LET next == IF IsState(m.log[p]) THEN State(m.d, state.e \cup m.log[p].e, Context(m, p - 1)) ELSE state
    IN Referring([m EXCEPT !.log[p] = next], next, p)

\* find_recover_state: the next place where the log has a state, or none.
RECURSIVE FindRecoverState(_, _)
FindRecoverState(m, p) ==
    LET ahead == {q \in (p + 1)..Len(m.str) : IsState(m.log[q])}
        n == MergeStateWithLog(m, NoState, Min(ahead))
    IN IF ahead = {} THEN [m |-> m, at |-> p]
       ELSE IF IsState(n.log[Min(ahead)]) THEN [m |-> n, at |-> Min(ahead)]
       ELSE FindRecoverState(n, Min(ahead))

\* Mutant of Recovered: the log ahead is not looked at.
RecoveredNever(m, p, tries) == [m |-> m, at |-> p]

\* Where nothing follows, a reference may have put a state further ahead.
Recovered(m, p, tries) ==
    IF ~IsState(m.log[p]) /\ tries THEN FindRecoverState(m, p) ELSE [m |-> m, at |-> p]

\* w: the context, the position and the state there, the end of the longest
\* match so far (-1: none), whether only the initial state was seen, and how
\* far the next attempt may skip (skip is not used once the loop found a match).
RECURSIVE MatchLoop(_, _), MatchOn(_, _, _)
MatchLoop(w, longest) ==
    IF w.at >= w.m.stop THEN w
    ELSE MatchOn(w, Recovered(MergeStateWithLog(w.m, TransitState(w.m.d, w.state, w.m.str[w.at + 1]), w.at + 1),
                              w.at + 1, w.last < 0 \/ longest), longest)

\* r: the context after the step, and the place it led to.
MatchOn(w, r, longest) ==
    LET state == r.m.log[r.at]
        same == w.init /\ state = w.state
        on == [w EXCEPT !.m = r.m, !.at = r.at, !.state = state, !.init = same,
                        !.skip = IF same THEN w.at + 1 - w.m.from ELSE @]
        longer == [on EXCEPT !.last = r.at, !.found = TRUE]
    IN IF ~IsState(state) THEN [w EXCEPT !.m = r.m]
       ELSE IF ~Halts(r.m, state, r.at) THEN MatchLoop(on, longest)
       ELSE IF longest THEN MatchLoop(longer, longest) ELSE longer

\* check_matching, from position p.
CheckMatching(m, p, longest) ==
    LET state == AcquireInitState(m, p)
        n == Referring([m EXCEPT !.from = p, !.log[p] = state], state, p)
        null == Halts(n, state, p)
        w == [m |-> n, at |-> p, state |-> state, last |-> IF null THEN p ELSE -1,
              init |-> m.d.nbackref = 0, skip |-> 0, found |-> FALSE]
    IN IF null /\ ~longest THEN w ELSE MatchLoop(w, longest)
================================================================================
