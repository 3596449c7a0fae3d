--------------------------------- MODULE MCRegex ---------------------------------
(***************************************************************************)
(* RegexApi with expressions that bring up what is hard: groups that match *)
(* nothing or again, alternatives of which the first is not the longest,   *)
(* repetitions with bounds, anchors, brackets and references.              *)
(***************************************************************************)
EXTENDS RegexApi

MCAlphabet == <<"\n", "-", "A", "B", "a", "b">>
MCCType == ("alnum" :> {"A", "B", "a", "b"}) @@ ("alpha" :> {"A", "B", "a", "b"})
           @@ ("space" :> {"\n"}) @@ ("upper" :> {"A", "B"}) @@ ("lower" :> {"a", "b"})
MCToUpper == ("a" :> "A") @@ ("b" :> "B")

a == Char("a")
b == Char("b")
NotA == Others(<<"[", "^", "a", "]">>, Chars \ {"a"})
CapsOrA == Lit(<<"[", "A", "-", "a", "]">>, {"A", "B", "a"})
Alpha == Lit(<<"[", "[", ":", "alpha", ":", "]", "]">>, {"A", "B", "a", "b"})
Word == Lit(<<"\\", "w">>, {"A", "B", "a", "b"})

Expressions == {
    Cat(Grp(1, Alt(a, Cat(a, b))), Grp(2, Alt(b, Cat(b, a)))),
    Cat(Star(Grp(1, Star(a))), b),
    Star(Grp(1, Alt(Grp(2, a), Grp(3, b)))),
    Cat(Grp(1, Star(a)), Star(Grp(2, Alt(a, b)))),
    Rep(Grp(1, Alt(Grp(2, a), b)), 2, 3),
    Rep(Grp(1, Opt(a)), 2, 2),
    Plus(Grp(1, Cat(Grp(2, a), Opt(Grp(3, b))))),
    Star(Grp(1, Grp(2, Alt(a, Empty)))),
    Alt(Cat(Grp(1, Empty), b), Rep(a, 2, Unbounded)),
    Cats(<<Bol, Star(Grp(1, a)), Grp(2, Alt(b, Eol))>>),
    Cat(Grp(1, Alt(Bol, a)), b),
    Alt(Cat(Bol, b), Cat(AnyChar, Grp(1, b))),
    Cat(WordBegin, Cat(Plus(a), WordEnd)),
    Cats(<<NotA, Grp(1, Star(CapsOrA)), Alpha>>),
    Cat(Grp(1, Star(a)), Ref(1)),
    Cats(<<Grp(1, Alt(a, Cat(a, b))), Opt(b), Ref(1)>>),
    Cat(Grp(1, Alt(Cat(a, b), b)), Ref(1)),
    Cats(<<Grp(1, Alt(a, b)), Star(AnyChar), Ref(1)>>),
    Cats(<<Star(b), Grp(1, Star(a)), b, Ref(1), Eol>>) }

Program(e, extended, flags) == [expr |-> e, by |-> "regcomp", extended |-> extended, flags |-> flags]
MCPrograms ==
    {Program(e, TRUE, {}) : e \in Expressions}
    \cup {Program(Cat(Grp(1, Alt(a, b)), Ref(1)), FALSE, {"REG_ICASE"}),
          Program(Cats(<<Grp(1, NotA), Star(Word)>>), FALSE, {}),
          Program(Cats(<<Bol, Star(Grp(1, AnyChar)), Eol>>), FALSE, {"REG_NEWLINE"}),
          Program(Cats(<<Star(NotA), Eol>>), TRUE, {"REG_NEWLINE"}),
          Program(Cat(Grp(1, a), Grp(2, Alt(Cat(Ref(1), b), b))), TRUE, {"REG_NOSUB"})}
    \cup {[expr |-> e, by |-> "re_compile_pattern", extended |-> TRUE, flags |-> {}] :
             e \in {Cat(Star(Grp(1, a)), b), Cat(Bol, Opt(Grp(1, a))), Alt(a, Star(b))}}

UpTo(chars, n) == UNION {[1..k -> chars] : k \in 0..n}
MCStrings == UpTo({"a", "b"}, 4)
             \cup {<<"a", "\n", "b">>, <<"b", "\n">>, <<"\n", "\n", "a">>, <<"-", "a", "-">>, <<"a", "a", "-", "a">>,
                   <<"A", "a", "b">>, <<"B", "-", "b", "B">>}
MCTexts == {<<>>, <<"b">>, <<"b", "a", "b">>, <<"\n", "a">>}
MCExecFlags == {{}, {"REG_NOTBOL", "REG_NOTEOL"}}
================================================================================
