--------------------------------- MODULE Getopt ---------------------------------
(***************************************************************************)
(* unistd/getopt.c: the scan of argv for options, which permutes argv      *)
(* while it goes.                                                          *)
(*                                                                         *)
(* An element of argv is what the scanner can tell of it: an operand, the  *)
(* element "--", a cluster of short options, or a long option, with its    *)
(* characters, whether "=value" follows them, and its place on the command *)
(* line.  argv[0], the name of the program, is left out, so that Len(argv) *)
(* is argc - 1.                                                            *)
(***************************************************************************)
EXTENDS Naturals, Sequences, SequencesExt, FiniteSetsExt

CONSTANTS
    CommandLines,   \* the sequences of elements to scan
    Short,          \* the argument each short option takes; 'W' is "W;"
    Long,           \* longopts
    Colon,          \* optstring starts with ':'
    MaxScans        \* how often the caller scans argv from the start

Chars == STRING
Kinds == {"operand", "dashes", "short", "long"}
Element == [kind : Kinds, chars : Seq(Chars), value : BOOLEAN, id : Nat]
Takes == {"none", "required", "optional"}
LongOption == [name : Seq(Chars), has_arg : Takes, flag : BOOLEAN, val : STRING]
Orderings == {"PERMUTE", "REQUIRE_ORDER", "RETURN_IN_ORDER"}

ASSUME OptionAssumption ==
    /\ CommandLines \subseteq Seq(Element)
    /\ \A line \in CommandLines : \A j \in DOMAIN line :
          line[j].id = j /\ (line[j].kind = "short" => line[j].chars # << >>)
    /\ DOMAIN Short \subseteq Chars
    /\ \A c \in DOMAIN Short : Short[c] \in Takes \union {"W"}
    \* No option returns what tells the caller that the scan is over.
    /\ Long \in Seq(LongOption) /\ \A k \in DOMAIN Long : Long[k].val # "no"
    /\ Colon \in BOOLEAN /\ MaxScans \in Nat

VARIABLES
    argv, optind, first_nonopt, last_nonopt, nextchar, ordering,
    long_only,              \* the caller uses getopt_long_only
    pc,
    bottom, middle, top,    \* of the exchange under way
    orig,                   \* argv when the scan began (history)
    returns,                \* what the scan has returned (history)
    scans, earlier          \* the scans so far, and the returns of the first

segment == <<bottom, middle, top>>
history == <<orig, scans, earlier>>
mode == <<ordering, long_only>>
vars == <<argv, optind, first_nonopt, last_nonopt, nextchar, mode, pc, segment,
          history, returns>>

Argc == Len(argv) + 1       \* the index behind the last element

None == <<"none">>
Result(code, arg) == [code |-> code, arg |-> arg]

\* Which option lacked its argument.
Missing == IF Colon THEN ":" ELSE "?"

TypeOK ==
    /\ argv \in Seq(Element)
    /\ optind \in 1..Argc /\ first_nonopt \in 1..Argc /\ last_nonopt \in 1..Argc
    /\ nextchar \in Seq(Chars)
    /\ ordering \in Orderings /\ long_only \in BOOLEAN
    /\ pc \in {"call", "advance", "exchange", "skip", "dashes", "exchange2", "end",
               "word", "short", "done"}
    /\ bottom \in 1..Argc /\ middle \in 1..Argc /\ top \in 1..Argc
    /\ scans \in 0..MaxScans

Init ==
    /\ argv \in CommandLines /\ orig = argv
    /\ ordering \in Orderings /\ long_only \in BOOLEAN
    /\ optind = 1 /\ first_nonopt = 1 /\ last_nonopt = 1 /\ nextchar = << >>
    /\ pc = "call"
    /\ bottom = 1 /\ middle = 1 /\ top = 1
    /\ returns = << >> /\ scans = 0 /\ earlier = << >>

--------------------------------------------------------------------------------
(* Long options.                                                           *)

\* The whole element read as the name of a long option, for -W.
Name(element) ==
    CASE element.kind = "short" -> <<"-">> \o element.chars
      [] element.kind = "long" -> <<"-", "-">> \o element.chars
      [] OTHER -> element.chars

Differ(k, l) == [Long[k] EXCEPT !.name = << >>] # [Long[l] EXCEPT !.name = << >>]

\* process_long_option on a name found at index ind (with "=value" or not): what
\* is returned and the optind after it.  "no" stands for -1, not a long option.
LongOptionResult(av, name, value, ind, only) ==
    LET exact == {k \in DOMAIN Long : Long[k].name = name}
        abbreviated == {k \in DOMAIN Long : IsPrefix(name, Long[k].name)}
        found == IF exact # {} THEN Min(exact) ELSE Min(abbreviated)
        ambiguous == /\ exact = {}
                     /\ \E k \in abbreviated :
                           k # found /\ (only \/ Differ(k, found))
        argument == ind + 1 <= Len(av)
        code == IF Long[found].flag THEN "0" ELSE Long[found].val
        At(c, arg, i) == [code |-> c, arg |-> arg, optind |-> i]
    IN  IF exact \union abbreviated = {}
        THEN IF only /\ av[ind].kind = "short" /\ name[1] \in DOMAIN Short
             THEN At("no", None, ind) ELSE At("?", None, ind + 1)
        ELSE IF ambiguous THEN At("?", None, ind + 1)
        ELSE IF value
        THEN IF Long[found].has_arg = "none" THEN At("?", None, ind + 1)
             ELSE At(code, <<"value">>, ind + 1)
        ELSE IF Long[found].has_arg # "required" THEN At(code, None, ind + 1)
        ELSE IF argument THEN At(code, <<"element", av[ind + 1].id>>, ind + 2)
        ELSE At(Missing, None, ind + 1)

--------------------------------------------------------------------------------
(* One call.                                                               *)

Operand(k) == argv[k].kind = "operand"

Return(code, arg) ==
    /\ returns' = Append(returns, Result(code, arg))
    /\ pc' = "call"

\* The call goes on with the element it was in, or with the next one.
Call ==
    /\ pc = "call"
    /\ IF nextchar # << >>
       THEN pc' = "short" /\ UNCHANGED <<first_nonopt, last_nonopt>>
       ELSE /\ pc' = "advance"
            /\ last_nonopt' = Min({last_nonopt, optind})
            /\ first_nonopt' = Min({first_nonopt, optind})
    /\ UNCHANGED <<argv, optind, nextchar, mode, segment, history, returns>>

BeginExchange ==
    bottom' = first_nonopt /\ middle' = last_nonopt /\ top' = optind'

\* Mutant of Advance: the start of the operands is not moved along.
AdvanceKeepsFirst ==
    /\ pc = "advance"
    /\ optind' = optind
    /\ IF ordering = "PERMUTE" /\ first_nonopt # last_nonopt /\ last_nonopt # optind
       THEN pc' = "exchange" /\ BeginExchange
       ELSE pc' = (IF ordering = "PERMUTE" THEN "skip" ELSE "dashes") /\ UNCHANGED segment
    /\ UNCHANGED <<argv, first_nonopt, last_nonopt, nextchar, mode, history, returns>>

\* Lines 492-501: options processed since the operands go before them.
Advance ==
    /\ pc = "advance"
    /\ optind' = optind
    /\ IF ordering # "PERMUTE"
       THEN pc' = "dashes" /\ UNCHANGED <<first_nonopt, segment>>
       ELSE IF first_nonopt # last_nonopt /\ last_nonopt # optind
       THEN pc' = "exchange" /\ BeginExchange /\ UNCHANGED first_nonopt
       ELSE /\ pc' = "skip"
            /\ first_nonopt' = IF last_nonopt # optind THEN optind ELSE first_nonopt
            /\ UNCHANGED segment
    /\ UNCHANGED <<argv, last_nonopt, nextchar, mode, history, returns>>

\* argv with the len elements from k on in the place of those from l on.
Swapped(k, l, len) ==
    [j \in DOMAIN argv |->
        IF j \in k..(k + len - 1) THEN argv[l + (j - k)]
        ELSE IF j \in l..(l + len - 1) THEN argv[k + (j - l)]
        ELSE argv[j]]

\* Mutant of Exchange: one round, no loop.
ExchangeOnce ==
    /\ pc \in {"exchange", "exchange2"}
    /\ LET len == Min({top - middle, middle - bottom}) IN
       argv' = Swapped(bottom, top - len, len)
    /\ first_nonopt' = first_nonopt + (optind - last_nonopt)
    /\ last_nonopt' = optind
    /\ pc' = IF pc = "exchange" THEN "skip" ELSE "end"
    /\ UNCHANGED <<optind, nextchar, mode, segment, history, returns>>

\* One round of the loop of exchange, and its end.
Exchange ==
    /\ pc \in {"exchange", "exchange2"}
    /\ IF top > middle /\ middle > bottom
       THEN /\ IF top - middle > middle - bottom
               THEN LET len == middle - bottom IN
                    /\ argv' = Swapped(bottom, top - len, len)
                    /\ top' = top - len /\ UNCHANGED bottom
               ELSE LET len == top - middle IN
                    /\ argv' = Swapped(bottom, middle, len)
                    /\ bottom' = bottom + len /\ UNCHANGED top
            /\ UNCHANGED <<middle, first_nonopt, last_nonopt, pc>>
       ELSE /\ first_nonopt' = first_nonopt + (optind - last_nonopt)
            /\ last_nonopt' = optind
            /\ pc' = IF pc = "exchange" THEN "skip" ELSE "end"
            /\ UNCHANGED <<argv, segment>>
    /\ UNCHANGED <<optind, nextchar, mode, history, returns>>

Skip ==
    /\ pc = "skip"
    /\ optind' = Min({k \in optind..Argc : k = Argc \/ ~Operand(k)})
    /\ last_nonopt' = optind'
    /\ pc' = "dashes"
    /\ UNCHANGED <<argv, first_nonopt, nextchar, mode, segment, history, returns>>

\* Lines 516-527: what follows "--" are operands.
Dashes ==
    /\ pc = "dashes"
    /\ IF optind # Argc /\ argv[optind].kind = "dashes"
       THEN /\ optind' = optind + 1
            /\ IF first_nonopt # last_nonopt /\ last_nonopt # optind'
               THEN pc' = "exchange2" /\ BeginExchange /\ UNCHANGED first_nonopt
               ELSE /\ pc' = "end"
                    /\ first_nonopt' = IF first_nonopt = last_nonopt THEN optind'
                                       ELSE first_nonopt
                    /\ UNCHANGED segment
       ELSE pc' = "word" /\ UNCHANGED <<optind, first_nonopt, segment>>
    /\ UNCHANGED <<argv, last_nonopt, nextchar, mode, history, returns>>

Finish(ind) ==
    /\ optind' = IF first_nonopt # last_nonopt' THEN first_nonopt ELSE ind
    /\ pc' = "done"

End ==
    /\ pc = "end"
    /\ last_nonopt' = Argc
    /\ Finish(Argc)
    /\ UNCHANGED <<argv, first_nonopt, nextchar, mode, segment, history, returns>>

Found(r) == optind' = r.optind /\ Return(r.code, r.arg)

\* The next element: the end of argv, an operand, a long option or a cluster.
Word ==
    /\ pc = "word"
    /\ last_nonopt' = last_nonopt
    /\ IF optind = Argc
       THEN Finish(optind) /\ UNCHANGED <<nextchar, returns>>
       ELSE LET element == argv[optind]
                Try(long) ==
                    LongOptionResult(argv, element.chars, element.value, optind, long)
                short == /\ optind' = optind /\ nextchar' = element.chars
                         /\ pc' = "short" /\ UNCHANGED returns
            IN
            \/ /\ element.kind = "operand" /\ UNCHANGED nextchar
               /\ IF ordering = "REQUIRE_ORDER"
                  THEN UNCHANGED <<optind, returns>> /\ pc' = "done"
                  ELSE optind' = optind + 1 /\ Return("1", <<"element", element.id>>)
            \/ /\ element.kind = "long"
               /\ Found(Try(long_only)) /\ UNCHANGED nextchar
            \/ /\ element.kind = "short"
               /\ IF /\ long_only
                     /\ Len(element.chars) > 1 \/ element.chars[1] \notin DOMAIN Short
                     /\ Try(TRUE).code # "no"
                  THEN Found(Try(TRUE)) /\ UNCHANGED nextchar
                  ELSE short
    /\ UNCHANGED <<argv, first_nonopt, mode, segment, history>>

--------------------------------------------------------------------------------
(* Short options.                                                          *)

\* Mutant of ShortOption: the rest of the element is the argument, and the next
\* option as well.
ShortOptionKeepsRest ==
    /\ pc = "short"
    /\ LET c == Head(nextchar) rest == Tail(nextchar)
           takes == IF c \in DOMAIN Short THEN Short[c] ELSE "unknown"
           next == IF rest = << >> THEN optind + 1 ELSE optind
       IN  IF takes \in {"unknown", "none", "W"} \/ (takes = "optional" /\ rest = << >>)
           THEN /\ Return(IF takes = "unknown" THEN "?" ELSE c, None)
                /\ optind' = next /\ nextchar' = rest
           ELSE IF rest # << >>
           THEN Return(c, <<"rest", Len(rest)>>) /\ optind' = optind /\ nextchar' = rest
           ELSE /\ IF next = Argc THEN Return(Missing, None) /\ optind' = next
                   ELSE Return(c, <<"element", argv[next].id>>) /\ optind' = next + 1
                /\ nextchar' = << >>
    /\ UNCHANGED <<argv, first_nonopt, last_nonopt, mode, segment, history>>

\* One character of the cluster (lines 601-691).
ShortOption ==
    /\ pc = "short"
    /\ LET c == Head(nextchar) rest == Tail(nextchar)
           takes == IF c \in DOMAIN Short THEN Short[c] ELSE "unknown"
           next == IF rest = << >> THEN optind + 1 ELSE optind
       IN  \/ /\ takes \in {"unknown", "none"}
              /\ Return(IF takes = "unknown" THEN "?" ELSE c, None)
              /\ optind' = next /\ nextchar' = rest
           \/ /\ takes = "optional"
              /\ Return(c, IF rest = << >> THEN None ELSE <<"rest", Len(rest)>>)
              /\ optind' = optind + 1 /\ nextchar' = << >>
           \/ /\ takes = "required"
              /\ IF rest # << >>
                 THEN Return(c, <<"rest", Len(rest)>>) /\ optind' = optind + 1
                 ELSE IF next = Argc
                 THEN Return(Missing, None) /\ optind' = next
                 ELSE Return(c, <<"element", argv[next].id>>) /\ optind' = next + 1
              /\ nextchar' = << >>
           \/ /\ takes = "W"
              /\ IF rest # << >>
                 THEN Found(LongOptionResult(argv, rest, FALSE, next, FALSE))
                 ELSE IF next = Argc
                 THEN Return(Missing, None) /\ optind' = next
                 ELSE Found(LongOptionResult(argv, Name(argv[next]), argv[next].value, next,
                                             FALSE))
              /\ nextchar' = << >>
    /\ UNCHANGED <<argv, first_nonopt, last_nonopt, mode, segment, history>>

\* The caller sets optind to 0 and scans again what the scan has left.
ScanAgain ==
    /\ pc = "done" /\ scans < MaxScans
    /\ scans' = scans + 1
    /\ earlier' = IF scans = 0 THEN returns ELSE earlier
    /\ orig' = argv /\ returns' = << >>
    /\ optind' = 1 /\ first_nonopt' = 1 /\ last_nonopt' = 1 /\ nextchar' = << >>
    /\ pc' = "call"
    /\ UNCHANGED <<argv, mode, segment>>

Next ==
    \/ Call \/ Advance \/ Exchange \/ Skip \/ Dashes \/ End \/ Word \/ ShortOption
    \/ ScanAgain

Spec == Init /\ [][Next]_vars
--------------------------------------------------------------------------------
(* What the calls are documented to do, from argv as it was.               *)

\* What an option at index j returns, and how many further elements it takes.
Taken(returned, uses) == [returns |-> returned, uses |-> uses]
TakenBy(plain, result, j) ==
    Taken(Append(plain, Result(result.code, result.arg)), result.optind - (j + 1))

Plain(c) == c \notin DOMAIN Short \/ Short[c] = "none"
PlainReturns(chars, m) ==
    [k \in 1..m |-> Result(IF chars[k] \in DOMAIN Short THEN chars[k] ELSE "?", None)]

\* The k-th character of the cluster at j, which is not plain and so its last.
Ending(av, j, k) ==
    LET c == av[j].chars[k]
        rest == SubSeq(av[j].chars, k + 1, Len(av[j].chars))
        Ends(code, arg, uses) == [code |-> code, arg |-> arg, optind |-> j + 1 + uses]
    IN  IF Short[c] = "optional"
        THEN Ends(c, IF rest = << >> THEN None ELSE <<"rest", Len(rest)>>, 0)
        ELSE IF rest = << >> /\ j = Len(av) THEN Ends(Missing, None, 0)
        ELSE IF Short[c] = "required"
        THEN IF rest # << >> THEN Ends(c, <<"rest", Len(rest)>>, 0)
             ELSE Ends(c, <<"element", av[j + 1].id>>, 1)
        ELSE IF rest # << >>
        THEN LongOptionResult(av, rest, FALSE, j, FALSE)
        ELSE LongOptionResult(av, Name(av[j + 1]), av[j + 1].value, j + 1, FALSE)

Cluster(av, j) ==
    LET chars == av[j].chars
        cut == Min({k \in 1..(Len(chars) + 1) : k > Len(chars) \/ ~Plain(chars[k])})
        plain == PlainReturns(chars, cut - 1)
    IN  IF cut > Len(chars) THEN Taken(plain, 0)
        ELSE TakenBy(plain, Ending(av, j, cut), j)

AsLong(av, j) == LongOptionResult(av, av[j].chars, av[j].value, j, long_only)
ReadAsLong(av, j) ==
    /\ \/ av[j].kind = "long"
       \/ av[j].kind = "short" /\ long_only
           /\ (Len(av[j].chars) > 1 \/ av[j].chars[1] \notin DOMAIN Short)
    /\ AsLong(av, j).code # "no"

Option(av, j) ==
    IF av[j].kind = "operand" THEN Taken(<<Result("1", <<"element", av[j].id>>)>>, 0)
    ELSE IF ReadAsLong(av, j) THEN TakenBy(<< >>, AsLong(av, j), j)
    ELSE Cluster(av, j)

Before(av, j, option, scan) ==
    LET then == scan[j + 1 + option.uses]
    IN  [returns |-> option.returns \o then.returns,
         front |-> SubSeq(av, j, j + option.uses) \o then.front,
         back |-> then.back]

\* What a scan comes to that begins at index j, from what it comes to behind it:
\* options in the order given, each with its arguments; then, when argv may be
\* permuted, the operands in theirs.
Outcome(av, j, scan) ==
    LET n == Len(av) IN
    IF j > n THEN [returns |-> << >>, front |-> << >>, back |-> << >>]
    ELSE IF av[j].kind = "dashes"
    THEN [returns |-> << >>, front |-> <<av[j]>>, back |-> SubSeq(av, j + 1, n)]
    ELSE IF av[j].kind = "operand" /\ ordering = "REQUIRE_ORDER"
    THEN [returns |-> << >>, front |-> << >>, back |-> SubSeq(av, j, n)]
    ELSE IF av[j].kind = "operand" /\ ordering = "PERMUTE"
    THEN [returns |-> scan[j + 1].returns, front |-> scan[j + 1].front,
          back |-> <<av[j]>> \o scan[j + 1].back]
    ELSE Before(av, j, Option(av, j), scan)

Outcomes(av) ==
    LET scan[j \in 1..(Len(av) + 2)] == Outcome(av, j, scan)
    IN  scan

Reference(av) == Outcomes(av)[1]

--------------------------------------------------------------------------------
(* What must hold.                                                         *)

Agrees(reference) ==
    /\ returns = reference.returns
    /\ argv = reference.front \o reference.back
    /\ optind = Len(reference.front) + 1

\* A scan returns every option with its own argument, once and in the order of
\* the command line, and leaves argv with the options before the operands,
\* each in their order, and optind at the first operand (lines 403-454).
ScanIsRight == pc = "done" => Agrees(Reference(orig))

Place(element) == CHOOSE k \in DOMAIN orig : orig[k].id = element.id
InOrder(s) == \A j, k \in DOMAIN s : j < k => Place(s[j]) < Place(s[k])

\* Between two calls, where callers look at argv themselves: the operands that
\* were passed over lie together and in order, the options around them in
\* theirs, and what is still to scan was not touched (lines 117-170, 485-509).
OrdersKept ==
    pc = "call" =>
        /\ first_nonopt <= last_nonopt /\ last_nonopt <= optind
        /\ InOrder(SubSeq(argv, first_nonopt, last_nonopt - 1))
        /\ \A k \in first_nonopt..(last_nonopt - 1) : argv[k].kind = "operand"
        /\ InOrder(SubSeq(argv, 1, first_nonopt - 1)
                   \o SubSeq(argv, last_nonopt, optind - 1))
        /\ SubSeq(argv, optind, Len(argv)) = SubSeq(orig, optind, Len(argv))

\* A second scan of the permuted argv finds what the first one found and moves
\* nothing, unless an option at the end lacked its argument: by then an operand
\* may follow it (lines 376-380, 492-540).  Without the colon what that option
\* returned cannot be told from other errors.
RescanAgrees ==
    pc = "done" /\ scans > 0 /\ (\A k \in DOMAIN earlier : earlier[k].code # Missing) =>
        returns = earlier /\ argv = orig
================================================================================
