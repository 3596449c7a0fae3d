-------------------------------- MODULE RegexApi --------------------------------
(***************************************************************************)
(* The regular expression functions as their callers see them: regcomp,    *)
(* re_compile_pattern, regexec, re_search, re_match, re_set_registers and  *)
(* regfree (regex/regcomp.c and regex/regexec.c), on one pattern buffer    *)
(* and one set of registers.  A search is one step for each round of its   *)
(* loop; the buffer is locked from its first round to its last, so that    *)
(* the callers of one buffer come one after the other.                     *)
(***************************************************************************)
EXTENDS RegexExec, RegexReference

CONSTANTS
    Programs,       \* [expr, by, extended, flags]: what is compiled, and by which function
    Strings,        \* what regexec is called with
    Starts,         \* where regexec with REG_STARTEND is told to start
    Texts,          \* what re_search and re_match are called with
    NMatches,       \* the sizes of pmatch
    ExecFlags,      \* the sets of REG_NOTBOL and REG_NOTEOL
    RegisterCounts  \* the sizes of the arrays given to re_set_registers

VARIABLES
    buf,        \* the pattern buffer, with the program it was compiled from
    regs,       \* the struct re_registers of the caller
    call,       \* the call that is running
    search,     \* the loop of re_search_internal
    answer      \* what the last call returned

vars == <<buf, regs, call, search, answer>>

None == [api |-> "none"]
NoBuffer == [by |-> "none"]

\* The caller looks at the answer of a call before the next one.
Idle == call = None /\ answer = None
LookAtAnswer ==
    /\ answer # None
    /\ answer' = None
    /\ UNCHANGED <<buf, regs, call, search>>

(*****************************  Compiling  *********************************)

Syntax(extended) == IF extended THEN PosixExtended ELSE PosixBasic
\* re_compile_pattern takes the syntax of re_set_syntax and always matches
\* anchors at newlines.
CompiledWith(p, extended) ==
    LET text == Written(p.expr, extended) IN
    IF p.by = "regcomp"
    THEN RegComp(text, p.flags \cup (IF extended THEN {"REG_EXTENDED"} ELSE {}))
    ELSE CompileInternal(text, Syntax(extended), FALSE, TRUE)

\* A buffer is compiled into once, and again after regfree.
Compile(p) ==
    /\ buf = NoBuffer /\ Idle
    /\ \E d \in {CompiledWith(p, p.extended)} :
           /\ buf' = IF d.err # "REG_NOERROR" THEN NoBuffer
                     ELSE [by |-> p.by, program |-> p, d |-> d, accurate |-> p.by = "regcomp",
                           allocated |-> "REGS_UNALLOCATED"]
           /\ answer' = [api |-> p.by, rc |-> d.err]
    /\ UNCHANGED <<regs, call, search>>

Regfree ==
    /\ buf # NoBuffer /\ Idle
    /\ buf' = NoBuffer
    /\ UNCHANGED <<regs, call, search, answer>>

(******************************  regexec  **********************************)

\* With REG_STARTEND the string is looked at from start on; it ends where it is told
\* to end, so that what the memory holds behind that is no part of it.
Regexec(string, start, nmatch, eflags) ==
    LET n == IF buf.d.no_sub THEN 0 ELSE nmatch IN
    /\ buf.by = "regcomp" /\ Idle
    /\ call' = [api |-> "regexec", string |-> string, start |-> start, last |-> Len(string),
                stop |-> Len(string), nmatch |-> nmatch, n |-> n, eflags |-> eflags]
    /\ search' = Search(buf.d, buf.accurate, start, Len(string))
    /\ UNCHANGED <<buf, regs, answer>>

(***********************  re_search and re_match  **************************)

\* The struct re_registers of the caller: num_regs, and whether start and end
\* are allocated.
NoRegisters == [num |-> 0, start |-> FALSE, end |-> FALSE]

\* re_search_stub: the last place to start from.
LastStart(start, range, length) ==
    LET last == start + range IN
    IF length < last \/ (0 <= range /\ last < start) THEN length
    ELSE IF last < 0 \/ (range < 0 /\ start <= last) THEN 0 ELSE last

\* re_search_stub: how many registers the search is asked for.
NRegs(with_regs) ==
    IF ~with_regs THEN 1
    ELSE IF buf.allocated = "REGS_FIXED" /\ regs.num <= buf.d.nsub
    THEN Max({regs.num, 1}) ELSE buf.d.nsub + 1

\* re_search_stub up to the search; re_match is the case range = 0.  There may be no
\* memory for pmatch.
ReSearch(api, string, start, range, stop, with_regs) ==
    LET last == LastStart(start, range, Len(string))
        compiles == start < last /\ ~buf.accurate
        d == IF compiles THEN CompileFastmap(buf.d) ELSE buf.d
        copies == /\ with_regs
                  /\ ~(buf.allocated = "REGS_FIXED" /\ regs.num = 0)
    IN /\ buf.by = "re_compile_pattern" /\ Idle
       /\ buf' = [buf EXCEPT !.d = d, !.accurate = @ \/ compiles]
       /\ \/ /\ call' = [api |-> api, string |-> string, start |-> start, last |-> last, stop |-> stop,
                         nmatch |-> NRegs(with_regs), n |-> NRegs(with_regs), eflags |-> {},
                         copies |-> copies]
             /\ search' = Search(d, buf'.accurate, start, last)
             /\ UNCHANGED answer
          \/ /\ UNCHANGED <<call, search>>
             /\ answer' = [api |-> api, rc |-> "REG_ESPACE", value |-> -2]
       /\ UNCHANGED regs

\* A start outside the string is refused before the buffer is looked at.
ReSearchOutside(api) ==
    /\ buf.by = "re_compile_pattern" /\ Idle
    /\ answer' = [api |-> api, rc |-> "outside", value |-> -1]
    /\ UNCHANGED <<buf, regs, call, search>>

\* Mutant of CopyRegs: a failed second array leaves the mode as it was.
CopyRegsKeepsMode(n) ==
    LET done == [regs |-> [num |-> n + 1, start |-> TRUE, end |-> TRUE], allocated |-> "REGS_REALLOCATE"] IN
    IF buf.allocated = "REGS_FIXED" THEN {[regs |-> regs, allocated |-> "REGS_FIXED"]}
    ELSE {done, [regs |-> [regs EXCEPT !.start = FALSE], allocated |-> buf.allocated]}

\* re_copy_regs: the ways it can end, as there is memory or not.  When the
\* second array is not there or does not grow, the first one is freed.
CopyRegs(n) ==
    LET need == n + 1
        Done(num, mode) == [regs |-> [num |-> num, start |-> TRUE, end |-> TRUE], allocated |-> mode]
        NoMemory(r) == [regs |-> r, allocated |-> "REGS_UNALLOCATED"]
    IN CASE buf.allocated = "REGS_UNALLOCATED" ->
                {Done(need, "REGS_REALLOCATE"), NoMemory([regs EXCEPT !.start = FALSE]),
                 NoMemory([regs EXCEPT !.start = FALSE, !.end = FALSE])}
         [] buf.allocated = "REGS_REALLOCATE" /\ need > regs.num ->
                {Done(need, "REGS_REALLOCATE"), NoMemory(regs), NoMemory([regs EXCEPT !.start = FALSE])}
         [] OTHER -> {Done(regs.num, buf.allocated)}

\* What it writes: n registers in front, and -1 behind them.
Copied(num, pmatch, n) == [i \in 1..num |-> IF i <= n THEN pmatch[i - 1] ELSE Unset]

SetRegisters(num) ==
    /\ buf.by = "re_compile_pattern" /\ Idle
    /\ buf' = [buf EXCEPT !.allocated = IF num = 0 THEN "REGS_UNALLOCATED" ELSE "REGS_REALLOCATE"]
    /\ regs' = [num |-> num, start |-> num # 0, end |-> num # 0]
    /\ UNCHANGED <<call, search, answer>>

\* A caller that does not want its arrays reallocated sets the field itself.
FixRegisters ==
    /\ buf.by = "re_compile_pattern" /\ Idle
    /\ buf.allocated = "REGS_REALLOCATE"
    /\ buf' = [buf EXCEPT !.allocated = "REGS_FIXED"]
    /\ UNCHANGED <<regs, call, search, answer>>

(*****************************  The search  ********************************)

ThisRound == Round(buf.d, call.string, call.stop, search, call.n, call.eflags)

Again(r) ==
    /\ r.rc = "again"
    /\ search' = [search EXCEPT !.at = r.at, !.odd = ~@]
    /\ UNCHANGED <<buf, regs, call, answer>>

\* The call is over; value is what re_search and re_match return.
Returns(rc, value, pmatch, copied) ==
    /\ answer' = call @@ [rc |-> rc, value |-> value, pmatch |-> pmatch, copied |-> copied]
    /\ call' = None /\ search' = None

RegexecReturns(r) ==
    /\ r.rc # "again" /\ call.api = "regexec"
    /\ Returns(r.rc, 0, IF r.rc = "REG_NOERROR" THEN r.pmatch ELSE <<>>, <<>>)
    /\ UNCHANGED <<buf, regs>>

\* The value: the place or the length, -1 for no match, -2 for no memory.
Value(pmatch) == IF call.api = "re_match" THEN pmatch[0].eo - call.start ELSE pmatch[0].so

ReSearchReturns(r) ==
    /\ r.rc # "again" /\ call.api # "regexec"
    /\ \/ /\ r.rc = "REG_NOMATCH"
          /\ Returns(r.rc, -1, <<>>, <<>>)
          /\ UNCHANGED <<buf, regs>>
       \/ /\ r.rc = "REG_NOERROR" /\ ~call.copies
          /\ Returns(r.rc, Value(r.pmatch), r.pmatch, <<>>)
          /\ UNCHANGED <<buf, regs>>
       \/ /\ r.rc = "REG_NOERROR" /\ call.copies
          /\ \E c \in CopyRegs(call.n) :
                 /\ regs' = c.regs
                 /\ buf' = [buf EXCEPT !.allocated = c.allocated]
                 /\ IF c.allocated = "REGS_UNALLOCATED" THEN Returns("REG_ESPACE", -2, <<>>, <<>>)
                    ELSE Returns(r.rc, Value(r.pmatch), r.pmatch, Copied(c.regs.num, r.pmatch, call.n))

Step ==
    /\ call # None
    /\ \E r \in {ThisRound} : Again(r) \/ RegexecReturns(r) \/ ReSearchReturns(r)

Init ==
    /\ buf = NoBuffer /\ regs = NoRegisters
    /\ call = None /\ search = None /\ answer = None

Next ==
    \/ \E p \in Programs : Compile(p)
    \/ Regfree
    \/ \E s \in Strings, n \in NMatches, f \in ExecFlags :
           Regexec(s, 0, n, f) \/ \E start \in Starts : n > 0 /\ start <= Len(s) /\ Regexec(s, start, n, f)
    \/ \E api \in {"re_search", "re_match"} : ReSearchOutside(api)
    \/ \E s \in Texts : \E start \in 0..Len(s), range \in -Len(s)..Len(s), with \in BOOLEAN :
           ReSearch("re_search", s, start, range, Len(s), with)
    \/ \E s \in Texts : \E start \in 0..Len(s), with \in BOOLEAN : \E stop \in start..Len(s) :
           ReSearch("re_match", s, start, 0, stop, with)
    \/ \E n \in RegisterCounts : SetRegisters(n)
    \/ FixRegisters
    \/ LookAtAnswer
    \/ Step

\* A call goes on until it returns.  This is WF_vars(Step), for Step can be
\* taken whenever a call runs, changes the state, and is the only step that can
\* be taken then.
Fairness == []<>(call = None) \/ []<><<call # None>>_vars
Spec == Init /\ [][Next]_vars /\ Fairness

(****************************  Properties  *********************************)

\* What the program means on the string of a call.
Meaning(c) ==
    LET flags == buf.program.flags IN
    [string |-> c.string, icase |-> "REG_ICASE" \in flags, dot |-> "REG_NEWLINE" \notin flags,
     newline |-> buf.by = "re_compile_pattern" \/ "REG_NEWLINE" \in flags,
     notbol |-> "REG_NOTBOL" \in c.eflags, noteol |-> "REG_NOTEOL" \in c.eflags]
Found(c, p) == {w \in Matches(buf.program.expr, Meaning(c), p) : w.at <= c.stop}
Asked(c) == Min({c.start, c.last})..Max({c.start, c.last})
MatchPlaces(c) == {p \in Asked(c) : Found(c, p) # {}}
FirstPlace(c) == IF c.last < c.start THEN Max(MatchPlaces(c)) ELSE Min(MatchPlaces(c))

Searched == answer.api \in {"regexec", "re_search", "re_match"}
Succeeded == Searched /\ answer.rc = "REG_NOERROR"

\* The answer is that of the reference: no match where there is none, and
\* else the first place, in the direction of the search, and the longest of
\* the matches there; only re_search and re_match, which allocate for the
\* caller, may run out of memory (regexec.c lines 630-792, 1009-1110).
FindsLeftmostLongest ==
    /\ Searched => answer.rc \in {"REG_NOERROR", "REG_NOMATCH", "REG_ESPACE", "outside"}
    /\ Searched /\ answer.rc \in {"REG_ESPACE", "outside"} => answer.api # "regexec" /\ answer.value < 0
    /\ Searched /\ answer.rc = "REG_NOMATCH" => MatchPlaces(answer) = {} /\ answer.value \in {0, -1}
    /\ Succeeded => MatchPlaces(answer) # {}
    /\ Succeeded => LET p == FirstPlace(answer)
                        end == Longest(Found(answer, p))
                    IN /\ answer.value = CASE answer.api = "regexec" -> 0
                                           [] answer.api = "re_search" -> p
                                           [] answer.api = "re_match" -> end - p
                       /\ answer.n > 0 => answer.pmatch[0] = [so |-> p, eo |-> end]

\* The registers are those of one way to match: what a group is said to hold
\* goes together with what all others are said to hold (regexec.c lines 872-960,
\* 1346-1525: what set_regs walks and what the sifting has left for it).
RegistersAreAParse ==
    Succeeded /\ answer.n > 1 =>
        \E w \in Found(answer, answer.pmatch[0].so) :
            /\ w.at = answer.pmatch[0].eo
            /\ \A g \in 1..(answer.n - 1) :
                   answer.pmatch[g] = IF g \in DOMAIN w.groups THEN w.groups[g] ELSE NoGroup

\* No match begins at a place the search has given up: not at one the fastmap
\* or an anchor rules out, nor at one an attempt has skipped (regexec.c lines
\* 589-596, 646-740, 753-789).
NothingIsSkipped ==
    call # None => \A p \in Asked(call) \ Places(buf.d, call.string, search) : Found(call, p) = {}

\* The basic and the extended way to write an expression give one automaton,
\* whatever peek_token, parse_expression and parse_dup_op do differently for
\* them (regcomp.c lines 1780-2010, 2150-2620).
SyntaxesAgree ==
    buf # NoBuffer /\ answer.api = buf.by =>
        LET d == CompiledWith(buf.program, ~buf.program.extended)
        IN [d EXCEPT !.syn = {}] = [buf.d EXCEPT !.syn = {}]

\* The registers of the caller after a search: arrays that are there and hold
\* what was found, with one register at least that says where they end.  An
\* array that was freed is never given to realloc again (re_copy_regs and
\* re_set_registers, regexec.c lines 430-528).
RegistersAreUsable ==
    /\ (Succeeded /\ answer.api # "regexec" /\ answer.copies) =>
               /\ regs.start /\ regs.end
               /\ regs.num = Len(answer.copied)
               /\ buf.allocated = "REGS_REALLOCATE" => answer.copied[regs.num] = Unset
               /\ \A g \in 0..(Min({regs.num, answer.n}) - 1) : answer.copied[g + 1] = answer.pmatch[g]
    /\ (buf # NoBuffer /\ buf.allocated # "REGS_UNALLOCATED") => regs.start /\ regs.end

\* A search ends, with or without a match: the loop of re_search_internal moves
\* on at every turn, and each attempt gives up or finds an end (regexec.c lines
\* 653-789, 1009-1110).
EveryCallReturns == call # None ~> call = None
================================================================================
