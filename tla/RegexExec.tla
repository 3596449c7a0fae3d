------------------------------- MODULE RegexExec --------------------------------
(***************************************************************************)
(* regex/regexec.c, what follows a match and what drives it: the sifting   *)
(* of the log from the end of the match backwards, the walk through what   *)
(* is left that sets the registers, the search over the places where a     *)
(* match may begin, and the entry point regexec.                           *)
(***************************************************************************)
EXTENDS RegexMatch

(*************************  Limits of a reference  *************************)

\* Where a position is relative to the group an entry copied: -1 before it,
\* 0 inside, 1 behind.  On a boundary the closure of the node decides; reach
\* caches, by entry, the groups whose brackets a search may still find.
RECURSIVE CalcPos1(_, _, _, _, _, _), CalcPosAt(_, _, _, _, _, _, _)

Boundaries(lim, p) == (IF p = lim.from THEN {"from"} ELSE {}) \cup (IF p = lim.to THEN {"to"} ELSE {})
NotFound(bounds) == IF "to" \in bounds THEN 1 ELSE 0

\* The steps of the search: a node of the closure, and for a reference each
\* entry of the position.
ClosureSteps(m, from, p) ==
    LET ecl == InOrder(m.d.nodes[from].ecl)
        StepsOf(k) == IF m.d.nodes[k].t # "OP_BACK_REF" THEN <<[node |-> k, e |-> 0]>>
                      ELSE LET es == InOrder({e \in EntriesAt(m, p) : m.ents[e].node = k})
                           IN [j \in DOMAIN es |-> [node |-> k, e |-> es[j]]]
    IN FlattenSeq([j \in DOMAIN ecl |-> StepsOf(ecl[j])])

CalcPosAt(m, reach, bounds, group, from, p, steps) ==
    IF steps = <<>> THEN [pos |-> NotFound(bounds), reach |-> reach]
    ELSE LET node == m.d.nodes[Head(steps).node]
             e == Head(steps).e
             Go(r) == CalcPosAt(m, r, bounds, group, from, p, Tail(steps))
             dest == First0(node.dest)
             sub == CalcPos1(m, reach, bounds, group, dest, p)
         IN IF node.t = "OP_OPEN_SUBEXP" /\ "from" \in bounds /\ node.i = group
            THEN [pos |-> -1, reach |-> reach]
            ELSE IF node.t = "OP_CLOSE_SUBEXP" /\ "to" \in bounds /\ node.i = group
            THEN [pos |-> 0, reach |-> reach]
            ELSE IF e = 0 \/ group \notin reach[e] THEN Go(reach)
            ELSE IF dest = from THEN [pos |-> IF "from" \in bounds THEN -1 ELSE 0, reach |-> reach]
            ELSE IF sub.pos = -1 \/ (sub.pos = 0 /\ "to" \in bounds) THEN sub
            ELSE Go([sub.reach EXCEPT ![e] = @ \ {group}])

CalcPos1(m, reach, bounds, group, from, p) ==
    CalcPosAt(m, reach, bounds, group, from, p, ClosureSteps(m, from, p))

\* check_dst_limits_calc_pos.
CalcPos(m, reach, limit, group, from, p) ==
    LET lim == m.ents[limit] IN
    IF p < lim.from THEN [pos |-> -1, reach |-> reach]
    ELSE IF lim.to < p THEN [pos |-> 1, reach |-> reach]
    ELSE IF Boundaries(lim, p) = {} THEN [pos |-> 0, reach |-> reach]
    ELSE CalcPos1(m, reach, Boundaries(lim, p), group, from, p)

\* check_dst_limits: do a step's two ends lie differently to a limit?
CheckDstLimits(m, reach, limits, dst, dst_p, src, src_p) ==
    FoldLeft(LAMBDA z, limit :
                 IF z.hit THEN z
                 ELSE LET group == m.d.nodes[m.ents[limit].node].i
                          a == CalcPos(m, z.reach, limit, group, dst, dst_p)
                          b == CalcPos(m, a.reach, limit, group, src, src_p)
                      IN [reach |-> b.reach, hit |-> a.pos # b.pos],
             [reach |-> reach, hit |-> FALSE], InOrder(limits))

\* sub_epsilon_src_nodes: a node leaves the set, with what only leads to it.
SubEpsilonSrcNodes(d, node, set, candidates) ==
    LET inv == d.inv[node]
        others == {k \in inv \ {node} : /\ d.nodes[k].t \in EpsilonTypes
                                        /\ \E j \in d.nodes[k].dest : j \notin inv /\ j \in set}
    IN set \ (inv \ UNION {candidates \cap d.inv[k] : k \in others})

\* The two scans of check_subexp_limits go by index over an array that
\* shrinks: after a removal the first stays at its index, the second does not.
RECURSIVE KeepAround(_, _, _, _, _), DropBrackets(_, _, _, _, _)
KeepAround(d, set, candidates, close, j) ==
    IF j > Cardinality(set) THEN set
    ELSE LET k == InOrder(set)[j] IN
         IF close \in d.inv[k] \cup d.nodes[k].ecl THEN KeepAround(d, set, candidates, close, j + 1)
         ELSE KeepAround(d, SubEpsilonSrcNodes(d, k, set, candidates), candidates, close, j)
DropBrackets(d, set, candidates, group, j) ==
    IF j > Cardinality(set) THEN set
    ELSE LET k == InOrder(set)[j] IN
         DropBrackets(d, IF /\ d.nodes[k].t \in {"OP_OPEN_SUBEXP", "OP_CLOSE_SUBEXP"}
                            /\ d.nodes[k].i = group
                         THEN SubEpsilonSrcNodes(d, k, set, candidates) ELSE set,
                      candidates, group, j + 1)

\* check_subexp_limits, for one limit.
CheckSubexpLimit(m, set, candidates, limit, p) ==
    LET ent == m.ents[limit]
        group == m.d.nodes[ent.node].i
        open == SubexpNodes(m.d, set, group, "OP_OPEN_SUBEXP")
        close == SubexpNodes(m.d, set, group, "OP_CLOSE_SUBEXP")
        opened == IF open = {} THEN set ELSE SubEpsilonSrcNodes(m.d, Max(open), set, candidates)
    IN IF p <= ent.from \/ ent.at < p THEN set
       ELSE IF ent.to # p THEN DropBrackets(m.d, set, candidates, group, 1)
       ELSE IF close = {} THEN opened
       ELSE KeepAround(m.d, opened, candidates, Max(close), 1)

(*******************************  Sifting  *********************************)

\* s: the sifted and the limited states, the cache reach, and the limits, the
\* node and the position the sifting goes back from.
RECURSIVE SiftStatesBackward(_, _), SiftFrom(_, _, _, _), SiftBkref(_, _, _, _), SiftEntries(_, _, _, _)

MergeState(d, x, y) ==
    IF ~IsState(x) THEN y ELSE IF ~IsState(y) THEN x ELSE IndependentState(d, x.n \cup y.n)
MergeStateArray(d, dst, src, last) ==
    [p \in DOMAIN dst |-> IF p <= last THEN MergeState(d, dst[p], src[p]) ELSE dst[p]]

\* build_sifted_states: the nodes at p that step to a node kept at p + 1.
BuildSiftedStates(m, s, p) ==
    FoldLeft(LAMBDA z, k :
                 LET next == m.d.nodes[k].next
                     c == IF s.limits = {} THEN [reach |-> z.s.reach, hit |-> FALSE]
                          ELSE CheckDstLimits(m, z.s.reach, s.limits, next, p + 1, k, p)
                 IN IF ~NodeAccepts(m, k, p) \/ next \notin s.sifted[p + 1].n THEN z
                    ELSE [s |-> [z.s EXCEPT !.reach = c.reach],
                          dest |-> IF c.hit THEN z.dest ELSE z.dest \cup {k}],
             [s |-> s, dest |-> {}], InOrder(m.log[p].n))

\* update_cur_sifted_state.
UpdateCurSiftedState(m, s, p, dest) ==
    LET candidates == m.log[p].n
        sources == dest \cup (candidates \cap UNION {m.d.inv[k] : k \in dest})
        kept == IF dest = {} \/ ~IsState(m.log[p]) THEN dest
                ELSE FoldLeft(LAMBDA set, limit : CheckSubexpLimit(m, set, candidates, limit, p),
                              sources, InOrder(s.limits))
        r == [s EXCEPT !.sifted[p] = IndependentState(m.d, kept)]
        refs == InOrder({k \in OfType(m.d, candidates, {"OP_BACK_REF"}) : <<k, p>> # <<s.node, s.at>>})
    IN SiftEntries(m, r, p, IF m.log[p].backref
                            THEN FlattenSeq([j \in DOMAIN refs |-> InOrder({e \in EntriesAt(m, p) :
                                                                               m.ents[e].node = refs[j]})])
                            ELSE <<>>)

\* sift_states_bkref, for one entry at p: the sifting that goes through it
\* works on the same array, and only the state at p is put back.
SiftedThrough(m, s, p, r) ==
    [s EXCEPT !.reach = r.reach, !.sifted = [r.sifted EXCEPT ![p] = s.sifted[p]],
              !.limited = MergeStateArray(m.d, r.limited, r.sifted, p)]
SiftBkref(m, s, p, e) ==
    LET to == p + EntryLen(m, e)
        c == CheckDstLimits(m, s.reach, s.limits, m.ents[e].node, p, EntryDest(m, e), to)
    IN IF to > s.at \/ EntryDest(m, e) \notin s.sifted[to].n THEN s
       ELSE IF c.hit THEN [s EXCEPT !.reach = c.reach]
       ELSE SiftedThrough(m, s, p, SiftStatesBackward(m, [s EXCEPT !.reach = c.reach, !.node = m.ents[e].node,
                                                                   !.at = p, !.limits = @ \cup {e}]))
SiftEntries(m, s, p, entries) ==
    IF entries = <<>> THEN s
    ELSE SiftEntries(m, SiftBkref(m, s, p, Head(entries)), p, Tail(entries))

SiftFrom(m, s, p, nulls) ==
    LET n == IF IsState(s.sifted[p]) THEN 0 ELSE nulls + 1
        b == IF IsState(m.log[p - 1]) THEN BuildSiftedStates(m, s, p - 1) ELSE [s |-> s, dest |-> {}]
    IN IF p = m.from THEN s
       ELSE IF n > m.maxlen THEN [s EXCEPT !.sifted = [q \in DOMAIN @ |-> IF q < p THEN NoState ELSE @[q]]]
       ELSE SiftFrom(m, UpdateCurSiftedState(m, b.s, p - 1, b.dest), p - 1, n)

SiftStatesBackward(m, s) ==
    SiftFrom(m, UpdateCurSiftedState(m, s, s.at, {s.node}), s.at, 0)

\* prune_impossible_nodes, for a match that ends at last: a shorter match is
\* tried where the references rule this one out.
NoStates(m) == [p \in DOMAIN m.log |-> NoState]
RECURSIVE PruneFrom(_, _, _), PrunedTo(_, _, _, _)
PruneFrom(m, reach, last) ==
    LET node == HaltNode(m, m.log[last], last)
    IN PrunedTo(m, SiftStatesBackward(m, [sifted |-> NoStates(m), limited |-> NoStates(m), reach |-> reach,
                                          limits |-> {}, node |-> node, at |-> last]), node, last)
PrunedTo(m, s, node, last) ==
    LET shorter == {q \in m.from..(last - 1) : m.log[q].halt} IN
    IF IsState(s.sifted[m.from]) \/ IsState(s.limited[m.from])
    THEN [ok |-> TRUE, last |-> last, node |-> node, log |-> MergeStateArray(m.d, s.sifted, s.limited, last)]
    ELSE IF m.d.nbackref = 0 \/ shorter = {} THEN [ok |-> FALSE]
    ELSE PruneFrom(m, s.reach, Max(shorter))

PruneImpossibleNodes(m, last) ==
    PruneFrom(m, [e \in DOMAIN m.ents |-> IF EntryLen(m, e) = 0 THEN 0..(m.d.nsub - 1) ELSE {}], last)

(******************************  Registers  ********************************)

Unset == [so |-> -1, eo |-> -1]

\* update_regs: r.pmatch and r.prev are pmatch and prev_idx_match.
UpdateRegs(d, r) ==
    LET node == d.nodes[r.node]
        reg == node.i + 1
        closed == [r EXCEPT !.pmatch[reg].eo = r.at]
    IN IF reg \notin DOMAIN r.pmatch THEN r
       ELSE IF node.t = "OP_OPEN_SUBEXP" THEN [r EXCEPT !.pmatch[reg] = [so |-> r.at, eo |-> -1]]
       ELSE IF node.t # "OP_CLOSE_SUBEXP" THEN r
       ELSE IF r.pmatch[reg].so < r.at THEN [closed EXCEPT !.prev = closed.pmatch]
       ELSE IF node.opt /\ r.prev[reg].so # -1 THEN [r EXCEPT !.pmatch = r.prev]
       ELSE closed

\* pop_fail_stack; without an entry there is no node to go on with.
Pop(r) ==
    IF r.fs = <<>> THEN [r EXCEPT !.node = 0]
    ELSE LET top == Last(r.fs) IN [top EXCEPT !.fs = Front(r.fs)]

\* proceed_next_node: from an epsilon node.
ProceedEpsilon(m, r, backtrack) ==
    LET dests == m.d.nodes[r.node].dest \cap m.log[r.at].n
        via == [r EXCEPT !.via = @ \cup {r.node}]
        To(k) == [via EXCEPT !.node = k]
    IN IF dests = {} THEN [via EXCEPT !.node = 0]
       ELSE IF Cardinality(dests) = 1 THEN To(Min(dests))
       ELSE IF Min(dests) \in via.via THEN To(Max(dests))
       ELSE [To(Min(dests)) EXCEPT !.fs = IF backtrack THEN Append(@, To(Max(dests))) ELSE @]

\* proceed_next_node: over text, one character or the copy of a group.
ProceedText(m, r, len, backtrack) ==
    LET next == m.d.nodes[r.node].next
        to == r.at + len
    IN IF backtrack /\ (to > m.last \/ next \notin m.log[to].n) THEN [r EXCEPT !.at = to, !.node = 0]
       ELSE [r EXCEPT !.at = to, !.node = next, !.via = {}]

ProceedBackRef(m, r, backtrack) ==
    LET reg == m.d.nodes[r.node].i + 1
        g == IF reg \in DOMAIN r.pmatch THEN r.pmatch[reg] ELSE Unset
        len == g.eo - g.so
        dest == First0(m.d.nodes[r.node].dest)
        via == [r EXCEPT !.via = @ \cup {r.node}]
    IN IF /\ backtrack
          /\ (g.so = -1 \/ g.eo = -1 \/ (len # 0 /\ (r.at + len > Len(m.str) \/ ~SameText(m, g.so, r.at, len))))
       THEN [r EXCEPT !.node = 0]
       ELSE IF len # 0 THEN ProceedText(m, r, len, backtrack)
       ELSE [via EXCEPT !.node = IF dest \in m.log[r.at].n THEN dest ELSE 0]

ProceedNextNode(m, r, backtrack) ==
    LET type == m.d.nodes[r.node].t IN
    IF type \in EpsilonTypes THEN ProceedEpsilon(m, r, backtrack)
    ELSE IF type = "OP_BACK_REF" THEN ProceedBackRef(m, r, backtrack)
    ELSE IF NodeAccepts(m, r.node, r.at) THEN ProceedText(m, r, 1, backtrack)
    ELSE [r EXCEPT !.node = 0]

\* set_regs: the walk ends at the last node, or, with backtracking, at a node
\* met twice on one spot, unless a group is open and the fail stack goes on.
RECURSIVE RegsLoop(_, _, _)
RegsLoop(m, r, backtrack) ==
    LET u == UpdateRegs(m.d, r)
        ends == \/ u.at = m.last /\ u.node = m.node
                \/ backtrack /\ u.node \in u.via
        open == \E g \in DOMAIN u.pmatch : u.pmatch[g].so > -1 /\ u.pmatch[g].eo = -1
        again == IF backtrack /\ open THEN Pop(u) ELSE [u EXCEPT !.node = 0]
        at == IF ends THEN again ELSE u
        n == ProceedNextNode(m, at, backtrack)
        back == IF n.node # 0 THEN n ELSE Pop(n)
    IN IF r.at > m.last THEN [rc |-> "REG_NOERROR", pmatch |-> r.pmatch]
       ELSE IF ends /\ again.node = 0 THEN [rc |-> "REG_NOERROR", pmatch |-> u.pmatch]
       ELSE IF back.node = 0 THEN [rc |-> "REG_NOMATCH"]
       ELSE RegsLoop(m, back, backtrack)

SetRegs(m, nmatch) ==
    LET pmatch == [g \in 0..(nmatch - 1) |-> IF g = 0 THEN [so |-> m.from, eo |-> m.last] ELSE Unset] IN
    RegsLoop(m, [at |-> m.from, node |-> m.d.first, pmatch |-> pmatch, prev |-> pmatch, via |-> {}, fs |-> <<>>],
             m.d.plural /\ m.d.nbackref > 0)

\* Mutant of MapRegs: the groups that were merged are forgotten.
MapRegsNone(d, pmatch) == pmatch

\* A group that optimize_subexps merged into another one has its registers.
MapRegs(d, pmatch) ==
    FoldLeft(LAMBDA regs, g : IF g + 1 \in DOMAIN regs /\ d.map[g] # g
                              THEN [regs EXCEPT ![g + 1] = regs[d.map[g] + 1]] ELSE regs,
             pmatch, [j \in 1..d.nsub |-> j - 1])

(*****************************  The search  ********************************)

\* The initial states of every context but the begin of the buffer are empty.
Anchored(d) ==
    /\ InitState(d, {}).n = {} /\ InitState(d, {"WORD"}).n = {}
    /\ InitState(d, {"NEWLINE"}).n = {} \/ ~d.newline_anchor

\* The first part of re_search_internal, to the loop: the place of the next
\* attempt, the limits, the direction, and whether the fastmap is of use.  odd
\* counts the rounds, so that each of them is a step.
Search(d, fastmap, start, last_start) ==
    [at |-> IF Anchored(d) THEN 0 ELSE start,
     limits |-> IF ~Anchored(d) THEN Min({start, last_start})..Max({start, last_start})
                ELSE IF start = 0 \/ last_start = 0 THEN {0} ELSE {},
     back |-> last_start < start /\ ~Anchored(d),
     fast |-> fastmap /\ start # last_start /\ ~d.can_be_null, odd |-> FALSE]

\* A place the fastmap does not rule out.  Behind the string it is asked for
\* the character 0, which is in it when every character is.
Plausible(d, string, p) == IF p < Len(string) THEN string[p + 1] \in d.fastmap ELSE d.fastmap = Chars

\* The places that are left to the loop.
Places(d, string, s) ==
    {p \in s.limits : /\ IF s.back THEN p <= s.at ELSE p >= s.at
                      /\ s.fast => Plausible(d, string, p)}

Groups(d, nmatch) == IF nmatch > d.nsub THEN d.nsub + 1 ELSE nmatch

\* What an attempt leads to: the log of a match, pruned if it has to be.
Pruned(w, n) ==
    IF w.last = -1 THEN [ok |-> FALSE]
    ELSE IF (~w.m.d.no_sub /\ n > 1 /\ w.m.d.plural) \/ w.m.d.nbackref > 0
    THEN PruneImpossibleNodes(w.m, w.last)
    ELSE [ok |-> TRUE, log |-> w.m.log, last |-> w.last, node |-> HaltNode(w.m, w.m.log[w.last], w.last)]

NoMatch == [rc |-> "REG_NOMATCH"]

\* The registers of a match that was pruned to p, moved to where it is taken
\* to begin.
Registers(m, p, shift, n, nmatch) ==
    LET c == [d |-> m.d, str |-> m.str, eflags |-> m.eflags, log |-> p.log,
              from |-> m.from, last |-> p.last, node |-> p.node]
        s == IF n > 1 THEN SetRegs(c, n)
             ELSE [rc |-> "REG_NOERROR", pmatch |-> [g \in 0..(n - 1) |-> [so |-> m.from, eo |-> p.last]]]
        Moved(g) == IF g.so = -1 THEN g ELSE [so |-> g.so + shift, eo |-> g.eo + shift]
        regs == MapRegs(m.d, [g \in DOMAIN s.pmatch |-> Moved(s.pmatch[g])])
    IN IF s.rc = "REG_NOMATCH" THEN NoMatch
       ELSE [rc |-> "REG_NOERROR",
             pmatch |-> [g \in 0..(nmatch - 1) |-> IF g < n THEN regs[g] ELSE Unset]]

\* Mutant of Outcome: the next attempt is where the skip of this one ends.
OutcomeStays(w, p, back, n, nmatch) ==
    LET skip == IF back \/ w.found THEN 0 ELSE w.skip IN
    IF p.ok THEN Registers(w.m, p, skip, n, nmatch)
    ELSE [rc |-> "again", at |-> IF back THEN w.m.from - 1 ELSE w.m.from + skip]

\* A round of the loop of re_search_internal, in three parts.  A failed
\* attempt that only saw the initial state lets the next one skip, and so does
\* a match of nothing that the loop did not improve on; a search backwards
\* does not skip.
Outcome(w, p, back, n, nmatch) ==
    LET skip == IF back \/ w.found THEN 0 ELSE w.skip IN
    IF p.ok THEN Registers(w.m, p, skip, n, nmatch)
    ELSE [rc |-> "again", at |-> IF back THEN w.m.from - 1 ELSE w.m.from + skip + 1]

Attempt(w, back, n, nmatch) == Outcome(w, Pruned(w, n), back, n, nmatch)

Round(d, string, stop, s, nmatch, eflags) ==
    LET places == Places(d, string, s) IN
    IF places = {} THEN NoMatch
    ELSE Attempt(CheckMatching(MatchContext(d, string, stop, eflags),
                               IF s.back THEN Max(places) ELSE Min(places),
                               nmatch # 0 \/ d.nbackref > 0),
                 s.back, Groups(d, nmatch), nmatch)
================================================================================
