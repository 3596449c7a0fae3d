----------------------------- MODULE RegexReference -----------------------------
(***************************************************************************)
(* What a regular expression means, by its structure: how it is written in *)
(* the extended and in the basic syntax, and the ways it can match a       *)
(* string.  Nothing here knows of tokens, automata or logs; the modules    *)
(* Regex* of the implementation are held against it.                       *)
(*                                                                         *)
(* An expression is a record whose field k says what it is.  A way to      *)
(* match is the position it leads to and the text of each group, the last  *)
(* one where a group was repeated.                                         *)
(***************************************************************************)
EXTENDS RegexParse

(****************************  Expressions  ********************************)

Lit(text, set) == [k |-> "chars", text |-> text, set |-> set, others |-> FALSE]
Char(c) == Lit(<<c>>, {c})
\* "." and a list with "^": what REG_NEWLINE takes the newline from.
Others(text, set) == [k |-> "chars", text |-> text, set |-> set, others |-> TRUE]
AnyChar == Others(<<".">>, Chars)
Cat(l, r) == [k |-> "cat", l |-> l, r |-> r]
Alt(l, r) == [k |-> "alt", l |-> l, r |-> r]
Unbounded == -1
Rep(e, lo, hi) == [k |-> "rep", e |-> e, lo |-> lo, hi |-> hi]
Star(e) == Rep(e, 0, Unbounded)
Plus(e) == Rep(e, 1, Unbounded)
Opt(e) == Rep(e, 0, 1)
Grp(n, e) == [k |-> "grp", n |-> n, e |-> e]
Ref(n) == [k |-> "ref", n |-> n]
Anchor(text, at) == [k |-> "assert", text |-> text, at |-> at]
Empty == Anchor(<<>>, "anywhere")
Bol == Anchor(<<"^">>, "begin of line")
Eol == Anchor(<<"$">>, "end of line")
WordBegin == Anchor(<<"\\", "<">>, "begin of word")
WordEnd == Anchor(<<"\\", ">">>, "end of word")

RECURSIVE Cats(_), GroupsIn(_), Written(_, _)
Cats(es) == IF Len(es) = 1 THEN es[1] ELSE Cat(es[1], Cats(Tail(es)))

GroupsIn(e) ==
    CASE e.k \in {"cat", "alt"} -> GroupsIn(e.l) \cup GroupsIn(e.r)
      [] e.k = "rep" -> GroupsIn(e.e)
      [] e.k = "grp" -> {e.n} \cup GroupsIn(e.e)
      [] OTHER -> {}

(*****************************  The syntaxes  ******************************)

Operator(c, extended) == IF extended THEN <<c>> ELSE <<"\\", c>>
Number(n) == <<Digits[n + 1]>>
Bounds(lo, hi, extended) ==
    CASE lo = 0 /\ hi = Unbounded -> <<"*">>
      [] lo = 1 /\ hi = Unbounded -> Operator("+", extended)
      [] lo = 0 /\ hi = 1 -> Operator("?", extended)
      [] OTHER -> Operator("{", extended) \o Number(lo)
                  \o (IF hi = lo THEN <<>> ELSE <<",">> \o (IF hi = Unbounded THEN <<>> ELSE Number(hi)))
                  \o Operator("}", extended)

Written(e, extended) ==
    CASE e.k = "cat" -> Written(e.l, extended) \o Written(e.r, extended)
      [] e.k = "alt" -> Written(e.l, extended) \o Operator("|", extended) \o Written(e.r, extended)
      [] e.k = "rep" -> Written(e.e, extended) \o Bounds(e.lo, e.hi, extended)
      [] e.k = "grp" -> Operator("(", extended) \o Written(e.e, extended) \o Operator(")", extended)
      [] e.k = "ref" -> <<"\\", Digits[e.n + 1]>>
      [] OTHER -> e.text

(******************************  Matching  *********************************)

\* o: the string and its options; newline is for the anchors, and dot says
\* whether "." and a list with "^" take a newline.
SameChar(c, d, o) == c = d \/ (o.icase /\ Upper(c) = Upper(d))
InWord(o, p) == p \in DOMAIN o.string /\ IsWordChar(o.string[p])
Holds(e, o, p) ==
    CASE e.at = "anywhere" -> TRUE
      [] e.at = "begin of line" -> \/ p = 0 /\ ~o.notbol
                                   \/ p > 0 /\ o.newline /\ o.string[p] = "\n"
      [] e.at = "end of line" -> \/ p = Len(o.string) /\ ~o.noteol
                                 \/ p < Len(o.string) /\ o.newline /\ o.string[p + 1] = "\n"
      [] e.at = "begin of word" -> ~InWord(o, p) /\ InWord(o, p + 1)
      [] e.at = "end of word" -> InWord(o, p) /\ ~InWord(o, p + 1)
Takes(e, o, p) ==
    /\ p < Len(o.string)
    /\ \E c \in e.set : SameChar(c, o.string[p + 1], o)
    /\ ~(e.others /\ ~o.dot /\ o.string[p + 1] = "\n")
Repeats(g, o, p) ==
    /\ g.so # -1
    /\ p + (g.eo - g.so) <= Len(o.string)
    /\ \A j \in 1..(g.eo - g.so) : SameChar(o.string[g.so + j], o.string[p + j], o)

\* The ways to go on from the ways w over the expression e.
RECURSIVE Ways(_, _, _), Times(_, _, _, _), AnyTimes(_, _, _)
Ways(e, o, ways) ==
    CASE e.k = "chars" -> {[w EXCEPT !.at = @ + 1] : w \in {v \in ways : Takes(e, o, v.at)}}
      [] e.k = "assert" -> {w \in ways : Holds(e, o, w.at)}
      [] e.k = "cat" -> Ways(e.r, o, Ways(e.l, o, ways))
      [] e.k = "alt" -> Ways(e.l, o, ways) \cup Ways(e.r, o, ways)
      [] e.k = "ref" -> {[w EXCEPT !.at = @ + w.groups[e.n].eo - w.groups[e.n].so] :
                             w \in {v \in ways : Repeats(v.groups[e.n], o, v.at)}}
      [] e.k = "grp" -> UNION {{[v EXCEPT !.groups[e.n] = [so |-> w.at, eo |-> v.at]] :
                                    v \in Ways(e.e, o, {w})} : w \in ways}
      [] e.k = "rep" -> LET least == Times(e.e, o, ways, e.lo)
                        IN IF e.hi = Unbounded THEN AnyTimes(e.e, o, least)
                           ELSE UNION {Times(e.e, o, least, n) : n \in 0..(e.hi - e.lo)}
Times(e, o, ways, n) == IF n = 0 THEN ways ELSE Times(e, o, Ways(e, o, ways), n - 1)
AnyTimes(e, o, ways) ==
    LET more == ways \cup Ways(e, o, ways) IN IF more = ways THEN ways ELSE AnyTimes(e, o, more)

NoGroup == [so |-> -1, eo |-> -1]
\* The ways to match from position p on.
Matches(e, o, p) == Ways(e, o, {[at |-> p, groups |-> [g \in GroupsIn(e) |-> NoGroup]]})
Longest(ways) == Max({w.at : w \in ways})
================================================================================
