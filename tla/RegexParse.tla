------------------------------- MODULE RegexParse -------------------------------
(***************************************************************************)
(* regex/regcomp.c, the first half: the tokens of a pattern, and the       *)
(* recursive descent parser that turns them into a tree.                   *)
(*                                                                         *)
(* A pattern is a sequence of characters.  The name of a character class   *)
(* is one symbol of it, so that "[[:alpha:]]" has seven of them.  Every    *)
(* parsing function maps the state of the parser to the next one; what the *)
(* function returns is the field tree, and the error it sets is the field  *)
(* err.  The symbols "backquote" and "quote" stand for those characters.   *)
(* The locale has one byte per character (mb_cur_max is 1), and there is   *)
(* always memory.                                                          *)
(***************************************************************************)
EXTENDS Integers, Sequences, FiniteSets, SequencesExt, FiniteSetsExt

CONSTANTS
    Alphabet,               \* the characters, in the order of their codes
    CType,                  \* the sets of isalpha, isdigit, ... by name
    ToUpper,                \* toupper, over the characters it changes
    RE_DUP_MAX,
    BRACKET_NAME_BUF_SIZE

Chars == ToSet(Alphabet)
Code(c) == CHOOSE i \in DOMAIN Alphabet : Alphabet[i] = c
Upper(c) == IF c \in DOMAIN ToUpper THEN ToUpper[c] ELSE c
IsWordChar(c) == c \in CType["alnum"] \/ c = "_"

(*****************************  The syntax bits  ***************************)

PosixCommon == {"RE_CHAR_CLASSES", "RE_DOT_NEWLINE", "RE_DOT_NOT_NULL",
                "RE_INTERVALS", "RE_NO_EMPTY_RANGES"}
PosixBasic == PosixCommon \cup {"RE_BK_PLUS_QM", "RE_CONTEXT_INVALID_DUP"}
PosixExtended == PosixCommon \cup
    {"RE_CONTEXT_INDEP_ANCHORS", "RE_CONTEXT_INDEP_OPS", "RE_NO_BK_BRACES",
     "RE_NO_BK_PARENS", "RE_NO_BK_VBAR", "RE_CONTEXT_INVALID_OPS",
     "RE_UNMATCHED_RIGHT_PAREN_ORD"}

Here(p) == p.syn \cup {"RE_CARET_ANCHORS_HERE"}

(*****************************  Tokens and trees  **************************)

\* A token: its type, the set its operand stands for, an index, its length.
Tok(type, set, idx, len) == [t |-> type, v |-> set, i |-> idx, n |-> len]

Null == [t |-> "NULL"]
IsNull(tree) == tree.t = "NULL"

TokenTree(tok, left, right) ==
    [t |-> tok.t, v |-> tok.v, i |-> tok.i, opt |-> FALSE, dup |-> FALSE,
     l |-> left, r |-> right]
Tree(type, left, right) == TokenTree(Tok(type, {}, 0, 0), left, right)

RECURSIVE DuplicateTree(_)
DuplicateTree(tree) ==
    IF IsNull(tree) THEN Null
    ELSE [tree EXCEPT !.dup = TRUE, !.opt = FALSE,
                      !.l = DuplicateTree(@), !.r = DuplicateTree(@)]

MarkOptSubexp(tree) == IF tree.t = "SUBEXP" THEN [tree EXCEPT !.opt = TRUE] ELSE tree

(************************  The state of the parser  ************************)

RegexString(pattern, icase) == IF icase THEN [i \in DOMAIN pattern |-> Upper(pattern[i])]
                               ELSE pattern

Parser(pattern, syntax) ==
    [raw |-> pattern, mbs |-> RegexString(pattern, "RE_ICASE" \in syntax),
     syn |-> syntax, pos |-> 0, tok |-> Tok("END_OF_RE", {}, 0, 0), tree |-> Null,
     err |-> "REG_NOERROR", nsub |-> 0, done |-> {}, used |-> {}, nbackref |-> 0,
     word |-> FALSE, num |-> 0, set |-> {}, elem |-> [k |-> "SB_CHAR", name |-> <<>>]]

More(p, k) == p.pos + k < Len(p.mbs)
At(p, k) == p.mbs[p.pos + k + 1]
RawAt(p, k) == p.raw[p.pos + k + 1]
Skip(p, k) == [p EXCEPT !.pos = @ + k]
Error(p, code) == [p EXCEPT !.err = code, !.tree = Null]
Failed(p) == p.err # "REG_NOERROR" /\ IsNull(p.tree)

(*****************************  peek_token  ********************************)

WORD_FIRST == {"PREV_NOTWORD", "NEXT_WORD"}
WORD_LAST == {"PREV_WORD", "NEXT_NOTWORD"}
INSIDE_WORD == {"PREV_WORD", "NEXT_WORD"}
INSIDE_NOTWORD == {"PREV_NOTWORD", "NEXT_NOTWORD"}

EscapedAnchor ==
    ("<" :> WORD_FIRST) @@ (">" :> WORD_LAST) @@ ("b" :> {"WORD_DELIM"})
    @@ ("B" :> {"NOT_WORD_DELIM"}) @@ ("backquote" :> {"PREV_BEGBUF"}) @@ ("quote" :> {"NEXT_ENDBUF"})
LineAnchor == ("^" :> {"PREV_NEWLINE"}) @@ ("$" :> {"NEXT_NEWLINE"})
EscapedClass == ("w" :> "OP_WORD") @@ ("W" :> "OP_NOTWORD")
                @@ ("s" :> "OP_SPACE") @@ ("S" :> "OP_NOTSPACE")
BackRefs == <<"1", "2", "3", "4", "5", "6", "7", "8", "9">>
Digits == <<"0">> \o BackRefs
Digit(c) == (CHOOSE i \in DOMAIN Digits : Digits[i] = c) - 1

EscapedType(c, syn) ==
    LET Without(bits) == bits \cap syn = {} IN
    CASE c = "|" /\ Without({"RE_LIMITED_OPS", "RE_NO_BK_VBAR"}) -> "OP_ALT"
      [] c \in ToSet(BackRefs) /\ Without({"RE_NO_BK_REFS"}) -> "OP_BACK_REF"
      [] c \in DOMAIN EscapedAnchor /\ Without({"RE_NO_GNU_OPS"}) -> "ANCHOR"
      [] c \in DOMAIN EscapedClass /\ Without({"RE_NO_GNU_OPS"}) -> EscapedClass[c]
      [] c = "(" /\ Without({"RE_NO_BK_PARENS"}) -> "OP_OPEN_SUBEXP"
      [] c = ")" /\ Without({"RE_NO_BK_PARENS"}) -> "OP_CLOSE_SUBEXP"
      [] c = "+" /\ Without({"RE_LIMITED_OPS"}) /\ "RE_BK_PLUS_QM" \in syn -> "OP_DUP_PLUS"
      [] c = "?" /\ Without({"RE_LIMITED_OPS"}) /\ "RE_BK_PLUS_QM" \in syn -> "OP_DUP_QUESTION"
      [] c = "{" /\ Without({"RE_NO_BK_BRACES"}) /\ "RE_INTERVALS" \in syn -> "OP_OPEN_DUP_NUM"
      [] c = "}" /\ Without({"RE_NO_BK_BRACES"}) /\ "RE_INTERVALS" \in syn -> "OP_CLOSE_DUP_NUM"
      [] OTHER -> "CHARACTER"

EscapedToken(c, syn) ==
    LET type == EscapedType(c, syn) IN
    Tok(type, IF type = "ANCHOR" THEN EscapedAnchor[c] ELSE {c},
        IF type = "OP_BACK_REF" THEN Digit(c) - 1 ELSE 0, 2)

RECURSIVE PeekToken(_, _)

\* '^' and '$' are anchors where the context or the syntax makes them so.
CaretIsAnchor(p, syn) ==
    \/ {"RE_CONTEXT_INDEP_ANCHORS", "RE_CARET_ANCHORS_HERE"} \cap syn # {}
    \/ p.pos = 0
    \/ "RE_NEWLINE_ALT" \in syn /\ At(p, -1) = "\n"

DollarIsAnchor(p, syn) ==
    \/ "RE_CONTEXT_INDEP_ANCHORS" \in syn
    \/ ~More(p, 1)
    \/ PeekToken(Skip(p, 1), syn).t \in {"OP_ALT", "OP_CLOSE_SUBEXP"}

PlainType(p, c, syn) ==
    LET Without(bits) == bits \cap syn = {} IN
    CASE c = "\n" /\ "RE_NEWLINE_ALT" \in syn -> "OP_ALT"
      [] c = "|" /\ Without({"RE_LIMITED_OPS"}) /\ "RE_NO_BK_VBAR" \in syn -> "OP_ALT"
      [] c = "*" -> "OP_DUP_ASTERISK"
      [] c = "+" /\ Without({"RE_LIMITED_OPS", "RE_BK_PLUS_QM"}) -> "OP_DUP_PLUS"
      [] c = "?" /\ Without({"RE_LIMITED_OPS", "RE_BK_PLUS_QM"}) -> "OP_DUP_QUESTION"
      [] c = "{" /\ {"RE_INTERVALS", "RE_NO_BK_BRACES"} \subseteq syn -> "OP_OPEN_DUP_NUM"
      [] c = "}" /\ {"RE_INTERVALS", "RE_NO_BK_BRACES"} \subseteq syn -> "OP_CLOSE_DUP_NUM"
      [] c = "(" /\ "RE_NO_BK_PARENS" \in syn -> "OP_OPEN_SUBEXP"
      [] c = ")" /\ "RE_NO_BK_PARENS" \in syn -> "OP_CLOSE_SUBEXP"
      [] c = "[" -> "OP_OPEN_BRACKET"
      [] c = "." -> "OP_PERIOD"
      [] c = "^" /\ CaretIsAnchor(p, syn) -> "ANCHOR"
      [] c = "$" /\ DollarIsAnchor(p, syn) -> "ANCHOR"
      [] OTHER -> "CHARACTER"

PlainToken(p, c, syn) ==
    LET type == PlainType(p, c, syn) IN
    Tok(type, IF type = "ANCHOR" THEN LineAnchor[c] ELSE {c}, 0, 1)

\* The character behind a backslash is read as it was before case folding.
PeekToken(p, syn) ==
    IF ~More(p, 0) THEN Tok("END_OF_RE", {}, 0, 0)
    ELSE IF At(p, 0) # "\\" THEN PlainToken(p, At(p, 0), syn)
    ELSE IF ~More(p, 1) THEN Tok("BACK_SLASH", {"\\"}, 0, 1)
    ELSE EscapedToken(RawAt(p, 1), syn)

Fetched(p, tok) == [p EXCEPT !.tok = tok, !.pos = @ + tok.n]
FetchToken(p, syn) == Fetched(p, PeekToken(p, syn))

(**************************  Bracket expressions  **************************)

BracketOpen == ("." :> "OP_OPEN_COLL_ELEM") @@ ("=" :> "OP_OPEN_EQUIV_CLASS")
               @@ (":" :> "OP_OPEN_CHAR_CLASS")
BracketOp == ("-" :> "OP_CHARSET_RANGE") @@ ("]" :> "OP_CLOSE_BRACKET")
             @@ ("^" :> "OP_NON_MATCH_LIST")

PeekTokenBracket(p) ==
    IF ~More(p, 0) THEN Tok("END_OF_RE", {}, 0, 0)
    ELSE IF At(p, 0) = "\\" /\ "RE_BACKSLASH_ESCAPE_IN_LISTS" \in p.syn /\ More(p, 1)
        THEN Tok("CHARACTER", {At(p, 1)}, 0, 2)
    ELSE IF /\ At(p, 0) = "[" /\ More(p, 1) /\ At(p, 1) \in DOMAIN BracketOpen
            /\ At(p, 1) = ":" => "RE_CHAR_CLASSES" \in p.syn
        THEN Tok(BracketOpen[At(p, 1)], {At(p, 1)}, 0, 2)
    ELSE IF At(p, 0) \in DOMAIN BracketOp THEN Tok(BracketOp[At(p, 0)], {At(p, 0)}, 0, 1)
    ELSE Tok("CHARACTER", {At(p, 0)}, 0, 1)

ElemKind == [OP_OPEN_COLL_ELEM |-> "COLL_SYM", OP_OPEN_EQUIV_CLASS |-> "EQUIV_CLASS",
             OP_OPEN_CHAR_CLASS |-> "CHAR_CLASS"]

\* [. .], [= =] and [: :]: the name up to the delimiter and the bracket.
RECURSIVE ParseBracketSymbol(_, _, _)
ParseBracketSymbol(p, tok, name) ==
    IF ~More(p, 0) \/ Len(name) >= BRACKET_NAME_BUF_SIZE \/ ~More(p, 1)
    THEN Error(p, "REG_EBRACK")
    ELSE LET ch == IF tok.t = "OP_OPEN_CHAR_CLASS" THEN RawAt(p, 0) ELSE At(p, 0) IN
         IF {ch} = tok.v /\ At(p, 1) = "]"
         THEN [Skip(p, 2) EXCEPT !.elem = [k |-> ElemKind[tok.t], name |-> name]]
         ELSE ParseBracketSymbol(Skip(p, 1), tok, Append(name, ch))

ParseBracketElement(p0, tok, accept_hyphen) ==
    LET p == Skip(p0, tok.n) IN
    IF tok.t \in DOMAIN ElemKind THEN ParseBracketSymbol(p, tok, <<>>)
    ELSE IF tok.t = "OP_CHARSET_RANGE" /\ ~accept_hyphen
            /\ PeekTokenBracket(p).t # "OP_CLOSE_BRACKET"
        THEN Error(p, "REG_ERANGE")
    ELSE [p EXCEPT !.elem = [k |-> "SB_CHAR", name |-> SetToSeq(tok.v)]]

\* The members of a bracket: p with them added to the set, or the error.
Adding(p, chars) == [p EXCEPT !.set = @ \cup chars]
IsOneChar(name) == Len(name) = 1 /\ name[1] \notin DOMAIN CType

BuildCharclass(p, name) ==
    LET class == IF "RE_ICASE" \in p.syn /\ name \in {<<"upper">>, <<"lower">>}
                 THEN <<"alpha">> ELSE name
    IN IF Len(class) # 1 \/ class[1] \notin DOMAIN CType THEN Error(p, "REG_ECTYPE")
       ELSE Adding(p, CType[class[1]] \cap Chars)

BuildElement(p, elem) ==
    IF elem.k = "SB_CHAR" THEN Adding(p, ToSet(elem.name))
    ELSE IF elem.k = "CHAR_CLASS" THEN BuildCharclass(p, elem.name)
    ELSE IF IsOneChar(elem.name) THEN Adding(p, {elem.name[1]})
    ELSE Error(p, "REG_ECOLLATE")

RangeCode(elem) == IF elem.name = <<>> THEN 0 ELSE Code(elem.name[1])

BuildRangeExp(p, start, end) ==
    IF {start.k, end.k} \cap {"EQUIV_CLASS", "CHAR_CLASS"} # {} THEN Error(p, "REG_ERANGE")
    ELSE IF \E e \in {start, end} : e.k = "COLL_SYM" /\ e.name # <<>> /\ ~IsOneChar(e.name)
        THEN Error(p, "REG_ECOLLATE")
    ELSE IF "RE_NO_EMPTY_RANGES" \in p.syn /\ RangeCode(start) > RangeCode(end)
        THEN Error(p, "REG_ERANGE")
    ELSE Adding(p, {c \in Chars : Code(c) \in RangeCode(start)..RangeCode(end)})

RECURSIVE BracketLoop(_, _, _)

\* The end of a round: tok is the token that follows the element.
BracketNext(p, tok) ==
    IF p.err # "REG_NOERROR" THEN p
    ELSE IF tok.t = "END_OF_RE" THEN Error(p, "REG_EBRACK")
    ELSE IF tok.t = "OP_CLOSE_BRACKET" THEN Skip(p, tok.n)
    ELSE BracketLoop(p, tok, FALSE)

\* p has the end of the range.
BracketRange(p, start) ==
    IF p.err # "REG_NOERROR" THEN p
    ELSE BracketNext(BuildRangeExp(p, start, p.elem), PeekTokenBracket(p))

\* p has an element, next is the token behind it and after the one behind that.
BracketElement(p, next, after) ==
    IF p.err # "REG_NOERROR" THEN p
    ELSE IF p.elem.k \in {"CHAR_CLASS", "EQUIV_CLASS"} \/ next.t \notin {"END_OF_RE", "OP_CHARSET_RANGE"}
        THEN BracketNext(BuildElement(p, p.elem), next)
    ELSE IF "END_OF_RE" \in {next.t, after.t} THEN Error(p, "REG_EBRACK")
    ELSE IF after.t = "OP_CLOSE_BRACKET"    \* the last '-' is an ordinary character
        THEN BracketNext(BuildElement(p, p.elem), [next EXCEPT !.t = "CHARACTER"])
    ELSE BracketRange(ParseBracketElement(Skip(p, next.n), after, TRUE), p.elem)
BracketPeek(p, next) == BracketElement(p, next, PeekTokenBracket(Skip(p, next.n)))
BracketFrom(p) == BracketPeek(p, PeekTokenBracket(p))
BracketLoop(p, tok, first_round) == BracketFrom(ParseBracketElement(p, tok, first_round))

SimpleBracket(p, set, non_match) ==
    [p EXCEPT !.tree = TokenTree(Tok("SIMPLE_BRACKET", IF non_match THEN Chars \ set ELSE set,
                                     0, 0), Null, Null)]

BracketEnd(p, non_match) ==
    IF p.err # "REG_NOERROR" THEN p ELSE SimpleBracket(p, p.set, non_match)
\* A bracket that comes first is an ordinary character.
BracketList(p, tok, non_match) ==
    IF tok.t = "END_OF_RE" THEN Error(p, "REG_BADPAT")
    ELSE BracketEnd(BracketLoop(p, IF tok.t = "OP_CLOSE_BRACKET" THEN [tok EXCEPT !.t = "CHARACTER"] ELSE tok,
                                TRUE), non_match)
BracketAfterHat(p) == BracketList(p, PeekTokenBracket(p), TRUE)

ParseBracketExp(p) ==
    LET first == PeekTokenBracket(p) IN
    IF first.t # "OP_NON_MATCH_LIST" THEN BracketList([p EXCEPT !.set = {}], first, FALSE)
    ELSE BracketAfterHat([Skip(p, 1) EXCEPT
             !.set = IF "RE_HAT_LISTS_NOT_NEWLINE" \in p.syn THEN {"\n"} ELSE {}])

\* \w, \W, \s and \S.
BuildCharclassOp(p) ==
    LET word == p.tok.t \in {"OP_WORD", "OP_NOTWORD"} IN
    SimpleBracket(p, IF word THEN (CType["alnum"] \cap Chars) \cup {"_"}
                     ELSE CType["space"] \cap Chars,
                  p.tok.t \in {"OP_NOTWORD", "OP_NOTSPACE"})

(*****************************  Repetition  ********************************)

RECURSIVE Copies(_, _), OptionalCopies(_, _, _)
Copies(elem, n) ==
    IF n = 1 THEN elem ELSE Tree("CONCAT", Copies(elem, n - 1), DuplicateTree(elem))
OptionalCopies(tree, elem, n) ==
    IF n <= 0 THEN tree
    ELSE OptionalCopies(Tree("OP_ALT", Tree("CONCAT", tree, DuplicateTree(elem)), Null), elem, n - 1)

Optional(elem, start, end) ==
    OptionalCopies(Tree(IF end = -1 THEN "OP_DUP_ASTERISK" ELSE "OP_ALT", MarkOptSubexp(elem), Null),
                   elem, end - start - 1)

\* <re>{n,m} is n copies, and m - n optional ones nested in each other.
Repetition(elem, start, end) ==
    CASE IsNull(elem) \/ (start = 0 /\ end = 0) -> Null
      [] start > 0 /\ start = end -> Copies(elem, start)
      [] start > 0 /\ start # end ->
            Tree("CONCAT", Copies(elem, start), Optional(DuplicateTree(elem), start, end))
      [] OTHER -> Optional(elem, start, end)

Repeat(p, start, end) ==
    [FetchToken(p, p.syn) EXCEPT !.tree = Repetition(p.tree, start, end)]

IsComma(tok) == tok.t = "CHARACTER" /\ tok.v = {","}

NextNumber(tok, num) ==
    IF tok.t # "CHARACTER" \/ num = -2 \/ tok.v \cap ToSet(Digits) = {} THEN -2
    ELSE LET d == Digit(CHOOSE c \in tok.v : TRUE) IN
         IF num = -1 THEN d ELSE Min({RE_DUP_MAX + 1, num * 10 + d})

RECURSIVE FetchNumber(_, _)
NumberFrom(p, num) ==
    IF p.tok.t = "END_OF_RE" THEN [p EXCEPT !.num = -2]
    ELSE IF p.tok.t = "OP_CLOSE_DUP_NUM" \/ p.tok.v = {","} THEN [p EXCEPT !.num = num]
    ELSE FetchNumber(p, NextNumber(p.tok, num))
FetchNumber(p, num) == NumberFrom(FetchToken(p, p.syn), num)

IntervalEnd(q, start) ==
    IF start = -2 THEN q
    ELSE IF q.tok.t = "OP_CLOSE_DUP_NUM" THEN [q EXCEPT !.num = start]
    ELSE IF IsComma(q.tok) THEN FetchNumber(q, -1)
    ELSE [q EXCEPT !.num = -2]

Interval(p, start, q) ==
    LET end == q.num IN
    IF -2 \in {start, end} THEN
        IF "RE_INVALID_INTERVAL_ORD" \in p.syn THEN [p EXCEPT !.tok.t = "CHARACTER"]
        ELSE Error(q, IF q.tok.t = "END_OF_RE" THEN "REG_EBRACE" ELSE "REG_BADBR")
    ELSE IF (end # -1 /\ start > end) \/ q.tok.t # "OP_CLOSE_DUP_NUM" THEN Error(q, "REG_BADBR")
    ELSE IF RE_DUP_MAX < (IF end = -1 THEN start ELSE end) THEN Error(q, "REG_ESIZE")
    ELSE Repeat(q, start, end)

\* q is behind the first number.
IntervalFrom(p, q) ==
    LET start == IF q.num = -1 /\ IsComma(q.tok) THEN 0 ELSE q.num IN
    IF start = -1 THEN Error(q, "REG_BADBR") ELSE Interval(p, start, IntervalEnd(q, start))

ParseDupOp(p) ==
    IF p.tok.t = "OP_OPEN_DUP_NUM" THEN IntervalFrom(p, FetchNumber(p, -1))
    ELSE Repeat(p, IF p.tok.t = "OP_DUP_PLUS" THEN 1 ELSE 0,
                   IF p.tok.t = "OP_DUP_QUESTION" THEN 1 ELSE -1)

DupOps == {"OP_DUP_ASTERISK", "OP_DUP_PLUS", "OP_DUP_QUESTION", "OP_OPEN_DUP_NUM"}

\* In a basic expression no repetition follows another one.
RECURSIVE DupLoop(_)
DupNext(p) ==
    IF Failed(p) THEN p
    ELSE IF "RE_CONTEXT_INVALID_DUP" \in p.syn /\ p.tok.t \in {"OP_DUP_ASTERISK", "OP_OPEN_DUP_NUM"}
        THEN Error(p, "REG_BADRPT")
    ELSE DupLoop(p)
DupLoop(p) == IF p.tok.t \notin DupOps THEN p ELSE DupNext(ParseDupOp(p))

AfterAtom(p) == IF Failed(p) THEN p ELSE DupLoop(FetchToken(p, p.syn))

(**************************  Recursive descent  ****************************)

Leaf(p) == [p EXCEPT !.tree = TokenTree(p.tok, Null, Null)]

AnchorLeaf(p, set) == TokenTree([p.tok EXCEPT !.v = set], Null, Null)
WordAnchors == WORD_FIRST \cup WORD_LAST \cup {"WORD_DELIM", "NOT_WORD_DELIM"}

\* No repetition follows an anchor: the next token is fetched and that is all.
ParseAnchor(p) ==
    LET tree == IF p.tok.v = {"WORD_DELIM"}
                THEN Tree("OP_ALT", AnchorLeaf(p, WORD_FIRST), AnchorLeaf(p, WORD_LAST))
                ELSE IF p.tok.v = {"NOT_WORD_DELIM"}
                THEN Tree("OP_ALT", AnchorLeaf(p, INSIDE_WORD), AnchorLeaf(p, INSIDE_NOTWORD))
                ELSE AnchorLeaf(p, p.tok.v)
    IN FetchToken([p EXCEPT !.tree = tree, !.word = @ \/ p.tok.v \cap WordAnchors # {}], p.syn)

ParseBackRef(p) ==
    IF p.tok.i \notin p.done THEN Error(p, "REG_ESUBREG")
    ELSE Leaf([p EXCEPT !.used = @ \cup {p.tok.i}, !.nbackref = @ + 1])

Ends(tok, nest) ==
    tok.t \in {"OP_ALT", "END_OF_RE"} \/ (nest # 0 /\ tok.t = "OP_CLOSE_SUBEXP")

RECURSIVE ParseRegExp(_, _), AltLoop(_, _, _), BranchLoop(_, _), ParseExpression(_, _)

ParseBranch(p, nest) == BranchLoop(ParseExpression(p, nest), nest)

Concat(left, right) ==
    IF IsNull(left) THEN right ELSE IF IsNull(right) THEN left ELSE Tree("CONCAT", left, right)
BranchNext(p, left, nest) ==
    IF Failed(p) THEN p ELSE BranchLoop([p EXCEPT !.tree = Concat(left, @)], nest)
BranchLoop(p, nest) ==
    IF Failed(p) \/ Ends(p.tok, nest) THEN p
    ELSE BranchNext(ParseExpression([p EXCEPT !.tree = Null], nest), p.tree, nest)

\* A back-reference sees the groups completed before the alternatives and in its own.
AltBranch(p, nest, initial_bkref_map) ==
    IF Ends(p.tok, nest) THEN p ELSE ParseBranch([p EXCEPT !.done = initial_bkref_map], nest)
AltNext(p, left, nest, initial_bkref_map) ==
    IF Failed(p) THEN p
    ELSE AltLoop([p EXCEPT !.tree = Tree("OP_ALT", left.tree, @), !.done = @ \cup left.done],
                 nest, initial_bkref_map)
AltLoop(p, nest, initial_bkref_map) ==
    IF Failed(p) \/ p.tok.t # "OP_ALT" THEN p
    ELSE AltNext(AltBranch(FetchToken([p EXCEPT !.tree = Null], Here(p)), nest, initial_bkref_map),
                 p, nest, initial_bkref_map)

ParseRegExp(p, nest) == AltLoop(ParseBranch(p, nest), nest, p.done)

Group(p, n) ==
    [p EXCEPT !.done = IF n < Len(BackRefs) THEN @ \cup {n} ELSE @,
              !.tree = TokenTree(Tok("SUBEXP", {}, n, 0), p.tree, Null)]

SubExpBody(p, nest) == IF p.tok.t = "OP_CLOSE_SUBEXP" THEN p ELSE ParseRegExp(p, nest)
SubExpEnd(p, n) ==
    IF p.err # "REG_NOERROR" THEN Error(p, p.err)
    ELSE IF p.tok.t # "OP_CLOSE_SUBEXP" THEN Error(p, "REG_EPAREN")
    ELSE Group(p, n)

\* Mutant of ParseSubExp: a caret behind the parenthesis is no anchor.
ParseSubExpPlain(p, nest) ==
    SubExpEnd(SubExpBody(FetchToken([p EXCEPT !.nsub = @ + 1, !.tree = Null], p.syn), nest), p.nsub)

ParseSubExp(p, nest) ==
    SubExpEnd(SubExpBody(FetchToken([p EXCEPT !.nsub = @ + 1, !.tree = Null], Here(p)), nest), p.nsub)

\* What is an atom, with the token it begins with.
ParseAtom(p, nest) ==
    LET type == p.tok.t IN
    CASE type = "OP_OPEN_SUBEXP" -> ParseSubExp(p, nest + 1)
      [] type = "OP_OPEN_BRACKET" -> ParseBracketExp(p)
      [] type = "OP_BACK_REF" -> ParseBackRef(p)
      [] type \in {"OP_WORD", "OP_NOTWORD", "OP_SPACE", "OP_NOTSPACE"} -> BuildCharclassOp(p)
      [] type = "OP_PERIOD" -> Leaf(p)
      [] OTHER -> Leaf([p EXCEPT !.tok.t = "CHARACTER"])

ParseExpression(p, nest) ==
    LET type == p.tok.t
        invalid == "RE_CONTEXT_INVALID_OPS" \in p.syn
                   \/ (type = "OP_OPEN_DUP_NUM" /\ "RE_CONTEXT_INVALID_DUP" \in p.syn)
    IN CASE type \in DupOps /\ invalid -> Error(p, "REG_BADRPT")
         [] type \in DupOps /\ ~invalid /\ "RE_CONTEXT_INDEP_OPS" \in p.syn ->
                ParseExpression(FetchToken(p, p.syn), nest)
         [] type = "OP_CLOSE_SUBEXP" /\ "RE_UNMATCHED_RIGHT_PAREN_ORD" \notin p.syn -> Error(p, "REG_ERPAREN")
         [] type = "ANCHOR" -> ParseAnchor(p)
         [] type \in {"OP_ALT", "END_OF_RE"} -> [p EXCEPT !.tree = Null]
         [] type = "BACK_SLASH" -> Error(p, "REG_EESCAPE")
         [] OTHER -> AfterAtom(ParseAtom(p, nest))

\* The tree of the whole expression ends in END_OF_RE.
EndOfRe(p) ==
    LET eor == Tree("END_OF_RE", Null, Null) IN
    IF Failed(p) THEN p ELSE [p EXCEPT !.tree = IF IsNull(@) THEN eor ELSE Tree("CONCAT", @, eor)]
ParseFrom(p) == EndOfRe(ParseRegExp(FetchToken(p, Here(p)), 0))
Parse(pattern, syntax) == ParseFrom(Parser(pattern, syntax))
================================================================================
