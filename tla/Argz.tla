----------------------------------- MODULE Argz -----------------------------------
(***************************************************************************)
(* argz/: a vector of strings as one block, each string ended by a NUL,    *)
(* with its length.  The calls move bytes about; what they promise is the  *)
(* sequence of the strings.                                                *)
(***************************************************************************)
EXTENDS Naturals, Sequences, SequencesExt

CONSTANTS
    Strings,        \* what is added and what is looked for: sequences of characters
    Delim,          \* the character at which argz_create_sep and argz_add_sep cut
    Ahead,          \* what may lie ahead of a block in memory, back to the nearest NUL
    MaxArgc,        \* of an argument vector for argz_create
    MaxLen          \* of a vector

\* Assumed by the module of the containers.
StringAssumption ==
    /\ Strings \subseteq Seq(STRING) /\ << >> \in Strings
    /\ \A string \in Strings : \A p \in DOMAIN string : string[p] # "NUL"
    /\ Delim \in STRING \ {"NUL"}
    /\ Ahead \subseteq Seq(STRING) /\ MaxArgc \in Nat

VARIABLES
    argz,           \* the bytes of the block; << >> when the pointer is NULL
    argz_len,
    entries,        \* the strings it stands for (history)
    astray          \* a call took the block with it, or wrote over it

argzvars == <<argz, argz_len, entries, astray>>

NUL == "NUL"
Bytes(string) == Append(string, NUL)
Flat(strings) == FlattenSeq([k \in DOMAIN strings |-> Bytes(strings[k])])

--------------------------------------------------------------------------------
(* The bytes of a vector.                                                  *)

\* strlen from the byte at p of a block on, counted from 1.
StrLen(block, p) == Min({q \in p..Len(block) : block[q] = NUL}) - p

\* Where entries begin, as argz_next walks from one to the next.
Walk(block, block_len) ==
    LET from[p \in 1..(block_len + 1)] ==
            IF p > block_len THEN << >> ELSE <<p>> \o from[p + StrLen(block, p) + 1]
    IN  from[1]
Starts == Walk(argz, argz_len)
StringAt(p) == SubSeq(argz, p, p + StrLen(argz, p) - 1)

\* Mutant of Cut: each delimiter ends a string.
CutEach(block, string) ==
    [bytes |-> block \o [p \in 1..(Len(string) + 1) |->
                            IF p > Len(string) \/ string[p] = Delim THEN NUL ELSE string[p]],
     nlen |-> Len(string) + 1]

\* block with string behind it, cut at the delimiters, and how much longer it is;
\* a delimiter that would make an empty string is passed over, and not counted.
Cut(block, string) ==
    LET written[p \in 0..Len(string)] ==
            IF p = 0 THEN [bytes |-> block, nlen |-> Len(string) + 1]
            ELSE LET bytes == written[p - 1].bytes
                     nlen == written[p - 1].nlen
                 IN  IF string[p] # Delim
                     THEN [bytes |-> Append(bytes, string[p]), nlen |-> nlen]
                     ELSE IF bytes # << >> /\ Last(bytes) # NUL
                     THEN [bytes |-> Append(bytes, NUL), nlen |-> nlen]
                     ELSE [bytes |-> bytes, nlen |-> nlen - 1]
    IN  [bytes |-> Bytes(written[Len(string)].bytes), nlen |-> written[Len(string)].nlen]

\* What argz_create allocates.
Total(strings) ==
    LET tlen[k \in 0..Len(strings)] ==
            IF k = 0 THEN 0 ELSE tlen[k - 1] + Len(strings[k]) + 1
    IN  tlen[Len(strings)]

\* Where str is found in from, from the byte at p on (strstr).
Matches(from, str, p) ==
    {q \in p..(Len(from) - Len(str) + 1) : SubSeq(from, q, q + Len(str) - 1) = str}

\* A copy of arg as str_append builds it: up to the first match, then with and
\* what follows up to the next one, or to the end.
Substituted(arg, str, with) ==
    LET match(p) == Min(Matches(arg, str, p))
        appended[from \in 1..(Len(arg) + 1)] ==
            IF Matches(arg, str, from) = {} THEN with \o SubSeq(arg, from, Len(arg))
            ELSE with \o SubSeq(arg, from, match(from) - 1) \o appended[match(from) + Len(str)]
    IN  SubSeq(arg, 1, match(1) - 1) \o appended[match(1) + Len(str)]

NothingCopied == [dst |-> << >>, dst_len |-> 0, delayed_copy |-> TRUE]
AddTo(copy, string) ==
    [dst |-> copy.dst \o Bytes(string), dst_len |-> copy.dst_len + Len(string) + 1,
     delayed_copy |-> copy.delayed_copy]

\* Mutant of CopyEntry: what was not copied before the first match stays behind.
CopyFromMatch(copy, arg, str, with) ==
    LET string == StringAt(arg)
    IN  IF Matches(string, str, 1) # {}
        THEN AddTo([copy EXCEPT !.delayed_copy = FALSE], Substituted(string, str, with))
        ELSE IF copy.delayed_copy THEN copy ELSE AddTo(copy, string)

\* The entry at arg behind the others in the new block; the first one with a match
\* takes all that lies before it along.
CopyEntry(copy, arg, str, with) ==
    LET string == StringAt(arg)
        before == [dst |-> SubSeq(argz, 1, arg - 1), dst_len |-> arg - 1, delayed_copy |-> FALSE]
    IN  IF Matches(string, str, 1) # {}
        THEN AddTo(IF copy.delayed_copy THEN before ELSE copy, Substituted(string, str, with))
        ELSE IF copy.delayed_copy THEN copy ELSE AddTo(copy, string)

\* The new block, entry by entry.
Copied(str, with) ==
    LET copied[k \in 0..Len(Starts)] ==
            IF k = 0 THEN NothingCopied ELSE CopyEntry(copied[k - 1], Starts[k], str, with)
    IN  copied[Len(Starts)]

--------------------------------------------------------------------------------
(* What the calls promise, on sequences of strings.                        *)

\* The strings between delimiters, the empty ones left out, but for a last one.
Fields(string) ==
    LET rest[p \in 1..(Len(string) + 1)] ==
            LET cuts == {q \in p..Len(string) : string[q] = Delim}
            IN  IF cuts = {} THEN <<SubSeq(string, p, Len(string))>>
                ELSE IF Min(cuts) = p THEN rest[p + 1]
                ELSE <<SubSeq(string, p, Min(cuts) - 1)>> \o rest[Min(cuts) + 1]
    IN  rest[1]

\* The string with with for str at each place where str begins, from left to
\* right, and not where one that was replaced has not ended.
Replaced(string, str, with) ==
    LET rest[p \in 1..(Len(string) + 1)] ==
            IF p > Len(string) THEN << >>
            ELSE IF p + Len(str) <= Len(string) + 1 /\ SubSeq(string, p, p + Len(str) - 1) = str
            THEN with \o rest[p + Len(str)]
            ELSE <<string[p]>> \o rest[p + 1]
    IN  rest[1]

\* The strings with the delimiter between them.
Joined(strings) ==
    LET joined[k \in 1..Len(strings)] ==
            IF k = 1 THEN strings[1] ELSE Append(joined[k - 1], Delim) \o strings[k]
    IN  joined[Len(strings)]

--------------------------------------------------------------------------------
(* Operations; each one that allocates may fail.                           *)

ArgzInit == argz = << >> /\ argz_len = 0 /\ entries = << >> /\ astray = FALSE

\* The program has this block, and thinks it this long.
Becomes(block, block_len, strings) ==
    /\ block_len <= MaxLen
    /\ argz' = block /\ argz_len' = block_len /\ entries' = strings

Fails == UNCHANGED argzvars

\* argz_create, into variables that hold nothing or the remains of a vector; a
\* failure makes the pointer NULL, which it is.
ArgzCreate ==
    /\ argz_len = 0 \/ astray
    /\ \E n \in 0..MaxArgc : \E strings \in [1..n -> Strings] :
          \/ Becomes(Flat(strings), Total(strings), strings) /\ astray' = FALSE
          \/ Fails

\* argz_create_sep
ArgzCreateSep ==
    /\ argz_len = 0
    /\ \E string \in Strings :
          LET cut == Cut(<< >>, string)
          IN  IF string = << >> THEN Becomes(<< >>, 0, << >>)
              ELSE Becomes(cut.bytes, cut.nlen, Fields(string)) \/ Fails
    /\ UNCHANGED astray

\* argz_append and argz_add
ArgzAppend ==
    /\ ~astray
    /\ \E string \in Strings :
          \/ Becomes(argz \o Bytes(string), argz_len + Len(string) + 1, Append(entries, string))
          \/ Fails
    /\ UNCHANGED astray

\* argz_add_sep; the NULL of a failed realloc goes to the caller.
ArgzAddSep ==
    /\ ~astray
    /\ \E string \in Strings \ {<< >>} :
          LET cut == Cut(argz, string)
          IN  \/ /\ Becomes(cut.bytes, argz_len + cut.nlen, entries \o Fields(string))
                 /\ UNCHANGED astray
              \/ /\ argz' = << >> /\ astray' = (argz_len > 0)
                 /\ UNCHANGED <<argz_len, entries>>

\* argz_delete of an entry
ArgzDelete ==
    /\ ~astray
    /\ \E k \in DOMAIN Starts :
          LET entry == Starts[k]
              entry_len == StrLen(argz, entry) + 1
          IN  Becomes(SubSeq(argz, 1, entry - 1) \o SubSeq(argz, entry + entry_len, argz_len),
                      argz_len - entry_len, RemoveAt(entries, k))
    /\ UNCHANGED astray

\* Back to where the entry begins that before points into.
Before(before) == CHOOSE p \in 1..before :
                     /\ p = 1 \/ argz[p - 1] = NUL
                     /\ \A q \in p..(before - 1) : argz[q] # NUL

\* argz_insert before an entry, or before a place inside an entry that is not
\* the first; it is argz_add when before is NULL.
InsertBefore(p, string) ==
    /\ p > 1 => p > StrLen(argz, 1) + 1
    /\ Becomes(SubSeq(argz, 1, Before(p) - 1) \o Bytes(string) \o SubSeq(argz, Before(p), argz_len),
               argz_len + Len(string) + 1,
               InsertAt(entries, Cardinality({k \in DOMAIN Starts : Starts[k] <= p}), string))
    /\ UNCHANGED astray

\* argz_insert before a place inside the first entry: it looks for the NUL ahead
\* of the block, and moves the entry, what lies there and the block from there.
InsertAhead(p, string) ==
    /\ p > 1 /\ p <= StrLen(argz, 1) + 1
    /\ \E ahead \in Ahead :
          LET moved == Bytes(string) \o ahead \o argz
          IN  /\ Becomes(SubSeq(moved, Len(ahead) + 1, Len(moved)),
                         argz_len + Len(string) + 1, <<string>> \o entries)
              /\ astray' = (ahead # << >>)

ArgzInsert ==
    /\ ~astray
    /\ \E p \in 1..argz_len, string \in Strings :
          InsertBefore(p, string) \/ InsertAhead(p, string) \/ Fails

\* argz_replace; the old block is kept until the new one is whole, and for good
\* when nothing was copied.
ArgzReplace ==
    /\ ~astray
    /\ \E str \in Strings \ {<< >>}, with \in Strings :
          LET copy == Copied(str, with)
              replaced == [k \in DOMAIN entries |-> Replaced(entries[k], str, with)]
          IN  IF copy.delayed_copy THEN Becomes(argz, argz_len, replaced)
              ELSE Becomes(copy.dst, copy.dst_len, replaced) \/ Fails
    /\ UNCHANGED astray

\* argz_stringify, after which the program has one string.
ArgzStringify ==
    /\ ~astray /\ argz_len > 0
    /\ argz' = [p \in 1..argz_len |->
                   IF p < argz_len /\ argz[p] = NUL THEN Delim ELSE argz[p]]
    /\ entries' = <<Joined(entries)>>
    /\ UNCHANGED <<argz_len, astray>>

ArgzNext == ArgzCreate \/ ArgzCreateSep \/ ArgzAppend \/ ArgzAddSep \/ ArgzDelete
            \/ ArgzInsert \/ ArgzReplace \/ ArgzStringify
ArgzSpec == ArgzInit /\ [][ArgzNext]_argzvars

--------------------------------------------------------------------------------
(* What must hold.                                                         *)

\* Through every sequence of calls, those that fail included, the block and its
\* length are those of the strings in order, and a walk with argz_next meets them
\* one by one.  Twice the code keeps nothing.  After a failed argz_add_sep the
\* only pointer to the block is gone, but argz_len still has its length
\* (argz-addsep.c lines 14-16).  After argz_insert before a place inside the first
\* entry, which argz.h lines 92-93 do not promise to work and line 13 lets through,
\* the bytes ahead of the block are part of it, unless the last one is a NUL.
VectorIsItsStrings ==
    ~astray => /\ argz = Flat(entries) /\ argz_len = Len(argz)
               /\ [k \in DOMAIN Starts |-> StringAt(Starts[k])] = entries
================================================================================
