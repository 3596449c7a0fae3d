-------------------------------- MODULE MCArgv --------------------------------
(* Argv with command lines of up to five elements over operands, "--",     *)
(* clusters that end in each kind of option, and long options that are     *)
(* exact, abbreviated, ambiguous or unknown.  Programs with up to three    *)
(* elements go on to set titles, from two threads, in blocks that are      *)
(* whole, have a hole before environ, or have nothing to write on.         *)
EXTENDS Argv, TLC

CONSTANTS t1, t2
MCThreads == {t1, t2}
Symmetry == Permutations(MCThreads)

W(kind_, chars_, value_) == [kind |-> kind_, chars |-> chars_, value |-> value_]

Few == {
    W("operand", <<"f">>, FALSE),
    W("dashes", <<"-", "-">>, FALSE),
    W("short", <<"a", "r">>, FALSE),
    W("long", <<"f", "o">>, FALSE) }

Words == Few \union {
    W("short", <<"a">>, FALSE),
    W("short", <<"a", "l">>, FALSE),
    W("short", <<"p", "x">>, FALSE),
    W("short", <<"W">>, FALSE),
    W("long", <<"f">>, TRUE),
    W("long", <<"a">>, FALSE) }

Lines(words, n) ==
    {[j \in 1..n |-> [kind |-> w[j].kind, chars |-> w[j].chars, value |-> w[j].value,
                       id |-> j]] : w \in [1..n -> words]}

MCCommandLines ==
    UNION {Lines(Words, n) : n \in 0..3} \union UNION {Lines(Few, n) : n \in 4..5}

MCShort == [c \in {"a", "r", "p", "W"} |->
              CASE c = "a" -> "none" [] c = "r" -> "required"
                [] c = "p" -> "optional" [] c = "W" -> "W"]

L(name_, has_arg_, flag_, val_) ==
    [name |-> name_, has_arg |-> has_arg_, flag |-> flag_, val |-> val_]

MCLong == << L(<<"f", "o">>, "required", FALSE, "l1"), L(<<"f", "e">>, "required", FALSE, "l2"),
             L(<<"a", "l">>, "none", TRUE, "l3"), L(<<"a", "l", "l">>, "none", TRUE, "l3") >>

S(at_, len_, text_) == [at |-> at_, len |-> len_, text |-> text_]

MCBlocks == {
    [args |-> <<S(1, 2, "prog"), S(4, 1, "a")>>, envs |-> <<S(6, 1, "e"), S(8, 2, "f")>>],
    [args |-> <<S(1, 2, "prog"), S(4, 1, "a")>>, envs |-> <<S(8, 1, "e"), S(10, 1, "f")>>],
    [args |-> <<S(1, 1, "prog"), S(3, 1, "a"), S(5, 1, "b")>>, envs |-> <<S(7, 1, "e")>>],
    [args |-> <<S(1, 1, "prog"), S(3, 1, "a"), S(5, 1, "b"), S(7, 0, "c")>>, envs |-> << >>],
    [args |-> <<S(1, 0, "prog")>>, envs |-> << >>] }
================================================================================
