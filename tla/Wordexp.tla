-------------------------------- MODULE Wordexp --------------------------------
(***************************************************************************)
(* wordexp/wordexp.c: what wordexp and wordfree do to the wordexp_t of the *)
(* caller, over a sequence of calls with WRDE_APPEND, WRDE_REUSE and       *)
(* WRDE_DOOFFS.  The expansion itself is a sequence of new words, or an    *)
(* error (WordexpShell models how it is obtained).                         *)
(*                                                                         *)
(* A vector is a we_int_t: wi_strings is the address of an area, wi_nbytes *)
(* its length as the code believes it, wi_wordv pointers into it.  A word  *)
(* takes one cell of an area.                                              *)
(***************************************************************************)
EXTENDS Naturals, Sequences, SequencesExt, FiniteSets

CONSTANTS
    Vectors, Areas,     \* the addresses malloc may return
    Null,
    Wild,               \* what a pointer holds that nobody has stored
    Offs,               \* we_offs
    DoOffs,             \* WRDE_DOOFFS is among the flags of each call
    MaxNew,             \* how many words one call may expand to
    MaxWords            \* how many words there are in a behaviour

ASSUME OffsAssumption ==
    /\ Offs \in Nat /\ DoOffs \in BOOLEAN /\ MaxNew \in Nat /\ MaxWords \in Nat
    /\ Null \notin Vectors \union Areas /\ Vectors \intersect Areas = {}
    /\ Wild \notin Areas \union {Null}

VARIABLES
    pc, flags,          \* the call
    nwords,             \* how many words the shell announced
    vofs, sofs,
    we0, we,            \* the caller's wordexp_t and the temporary one
    vector, area,       \* the heap; Free where nothing is allocated
    next,               \* the number of the next word
    expected,           \* the words the caller should find in we0 (history)
    spoilt,             \* a call has returned WRDE_NOSPACE since we0 was good
    left                \* what an APPEND without REUSE did not free (history)

vars == <<pc, flags, nwords, vofs, sofs, we0, we, vector, area, next, expected, spoilt, left>>

Free == [wi_strings |-> Null, wi_nbytes |-> 0, wi_wordv |-> << >>, live |-> FALSE]
FreeArea == [cells |-> << >>, live |-> FALSE]
Unset == 0                          \* a cell nothing was read into
NullPointer == [at |-> Null, off |-> 0]
Garbage == [at |-> Wild, off |-> 0]     \* a slot realloc added
Empty == [we_wordc |-> 0, we_wordv |-> Null]

Pointer == [at : Areas \union {Null, Wild}, off : Nat]
Wordexp_t == [we_wordc : Nat, we_wordv : Vectors \union {Null}]
We_int_t == [wi_strings : Areas \union {Null}, wi_nbytes : Nat, wi_wordv : Seq(Pointer),
             live : BOOLEAN]
Offset == IF DoOffs THEN Offs ELSE 0

TypeOK ==
    /\ pc \in {"idle", "copy", "ask", "vector", "strings", "read", "split"}
    /\ flags \subseteq {"APPEND", "REUSE"}
    /\ nwords \in 0..MaxNew /\ vofs \in Nat /\ sofs \in Nat
    /\ we0 \in Wordexp_t /\ we \in Wordexp_t
    /\ vector \in [Vectors -> We_int_t]
    /\ area \in [Areas -> [cells : Seq(0..MaxWords), live : BOOLEAN]]
    /\ next \in 1..(MaxWords + 1)
    /\ expected \in Seq(1..MaxWords) /\ spoilt \in BOOLEAN
    /\ left \subseteq Vectors \union Areas

Init ==
    /\ pc = "idle" /\ flags = {} /\ nwords = 0 /\ vofs = 0 /\ sofs = 0
    /\ we0 = Empty /\ we = Empty
    /\ vector = [v \in Vectors |-> Free] /\ area = [a \in Areas |-> FreeArea]
    /\ next = 1 /\ expected = << >> /\ spoilt = FALSE /\ left = {}

--------------------------------------------------------------------------------
Freed(we_) == [v \in Vectors |-> IF v = we_.we_wordv THEN Free ELSE vector[v]]
FreedArea(we_) ==
    [a \in Areas |-> IF we_.we_wordv # Null /\ a = vector[we_.we_wordv].wi_strings
                     THEN FreeArea ELSE area[a]]

Owned(we_) == IF we_.we_wordv = Null THEN {}
              ELSE {we_.we_wordv, vector[we_.we_wordv].wi_strings} \ {Null}

\* realloc(p, n): where the block may be afterwards.
Places(blocks, p) == {b \in DOMAIN blocks : b = p \/ ~blocks[b].live}
Moved(block, from, to, value, free) ==
    [b \in DOMAIN block |-> IF b = to THEN value ELSE IF b = from THEN free ELSE block[b]]

\* The new slots hold whatever was in the memory.
Resized(s, n, fill) == [i \in 1..n |-> IF i <= Len(s) THEN s[i] ELSE fill]
Rebased(s, n, at) ==
    [i \in DOMAIN s |-> IF i <= n /\ s[i].at \in Areas THEN [s[i] EXCEPT !.at = at] ELSE s[i]]

--------------------------------------------------------------------------------
\* wordfree by the caller.
Wordfree ==
    /\ pc = "idle"
    /\ vector' = Freed(we0) /\ area' = FreedArea(we0)
    /\ we0' = Empty
    /\ expected' = << >> /\ spoilt' = FALSE
    /\ UNCHANGED <<pc, flags, nwords, vofs, sofs, we, next, left>>

\* Lines 99-123: a string we_check refuses changes nothing; without APPEND the
\* call starts from an empty wordexp_t.  A caller passes one with words in it
\* only to append to it or to have it reused, and not after WRDE_NOSPACE.
Call ==
    /\ pc = "idle" /\ ~spoilt /\ next + MaxNew <= MaxWords + 1
    /\ flags' \in SUBSET {"APPEND", "REUSE"}
    /\ IF we0.we_wordv = Null THEN "APPEND" \notin flags' ELSE flags' # {}
    /\ we' = Empty
    /\ pc' = IF "APPEND" \in flags' THEN "copy" ELSE "ask"
    /\ UNCHANGED <<nwords, vofs, sofs, we0, vector, area, next, expected, spoilt, left>>

\* Mutant of CopyOld: the strings are shared with the caller's.
CopyOldShallow ==
    /\ pc = "copy"
    /\ \E v \in Places(vector, Null) :
          /\ vector' = [vector EXCEPT ![v] = vector[we0.we_wordv]]
          /\ we' = [we_wordc |-> we0.we_wordc, we_wordv |-> v]
    /\ pc' = "ask"
    /\ UNCHANGED <<flags, nwords, vofs, sofs, we0, area, next, expected, spoilt, left>>

\* The vector and the area are copied, and the pointers with them; a failure
\* returns with the caller's still in place (lines 102-119).
CopyOld ==
    /\ pc = "copy"
    /\ \/ pc' = "idle" /\ UNCHANGED <<we, vector, area>>
       \/ \E v \in Places(vector, Null), a \in Places(area, Null) :
             LET old == vector[we0.we_wordv]
                 n == we0.we_wordc + Offset
             IN  /\ vector' = [vector EXCEPT ![v] =
                       [old EXCEPT !.wi_strings = a,
                                   !.wi_wordv = Rebased(SubSeq(old.wi_wordv, 1, n + 1), n, a)]]
                 /\ area' = [area EXCEPT ![a] =
                       [cells |-> Resized(area[old.wi_strings].cells, old.wi_nbytes, Unset),
                        live |-> TRUE]]
                 /\ we' = [we_wordc |-> we0.we_wordc, we_wordv |-> v]
                 /\ pc' = "ask"
    /\ UNCHANGED <<flags, nwords, vofs, sofs, we0, next, expected, spoilt, left>>

\* Line 138 on: how the call ends.  WRDE_NOSPACE hands the temporary wordexp_t
\* to the caller as it is; any other error throws it away.
EndNoSpace ==
    /\ vector' = IF "REUSE" \in flags THEN Freed(we0) ELSE vector
    /\ area' = IF "REUSE" \in flags THEN FreedArea(we0) ELSE area
    /\ left' = IF "REUSE" \in flags THEN left ELSE left \union Owned(we0)
    /\ we0' = we /\ we' = Empty
    /\ spoilt' = TRUE
    /\ pc' = "idle"

EndError ==
    /\ vector' = Freed(we) /\ area' = FreedArea(we)
    /\ we' = Empty
    /\ pc' = "idle"

\* No pipe, no shell (NOSPACE); nothing readable from it (SYNTAX, BADVAL); or
\* the count of words.
AskShell ==
    /\ pc = "ask"
    /\ \/ EndNoSpace /\ UNCHANGED <<nwords, vofs>>
       \/ EndError /\ UNCHANGED <<nwords, vofs, we0, spoilt, left>>
       \/ /\ nwords' \in 0..MaxNew
          /\ vofs' = we.we_wordc + (IF "APPEND" \in flags THEN Offset ELSE 0)
          /\ pc' = "vector"
          /\ UNCHANGED <<we0, we, vector, area, spoilt, left>>
    /\ UNCHANGED <<flags, sofs, next, expected>>

\* Lines 349-373: the count grows before the vector does.
GrowVector ==
    /\ pc = "vector"
    /\ LET wordc == we.we_wordc + nwords
           old == IF we.we_wordv = Null THEN Free ELSE vector[we.we_wordv]
       IN  \E v \in Places(vector, we.we_wordv) :
             /\ vector' = Moved(vector, we.we_wordv, v,
                   [wi_strings |-> old.wi_strings, wi_nbytes |-> old.wi_nbytes + nwords,
                    wi_wordv |-> Resized(old.wi_wordv, wordc + 1 + Offset, Garbage),
                    live |-> TRUE], Free)
             /\ sofs' = old.wi_nbytes
             /\ we' = [we_wordc |-> wordc, we_wordv |-> v]
    /\ pc' = "strings"
    /\ UNCHANGED <<flags, nwords, vofs, we0, area, next, expected, spoilt, left>>

\* Its failure: the caller's vector is short of the words it counts.
GrowVectorFails ==
    /\ pc = "vector"
    /\ LET we_ == [we EXCEPT !.we_wordc = @ + nwords] IN
       /\ vector' = IF "REUSE" \in flags THEN Freed(we0) ELSE vector
       /\ area' = IF "REUSE" \in flags THEN FreedArea(we0) ELSE area
       /\ left' = IF "REUSE" \in flags THEN left ELSE left \union Owned(we0)
       /\ we0' = we_ /\ we' = Empty
    /\ spoilt' = TRUE
    /\ pc' = "idle"
    /\ UNCHANGED <<flags, nwords, vofs, sofs, next, expected>>

\* Mutant of GrowStrings: the old pointers are not moved with the area.
GrowStringsOnly ==
    /\ pc = "strings"
    /\ LET wi == vector[we.we_wordv] IN
       \E a \in Places(area, wi.wi_strings) :
          /\ area' = Moved(area, wi.wi_strings, a,
                [cells |-> Resized(IF wi.wi_strings = Null THEN << >>
                                   ELSE area[wi.wi_strings].cells, wi.wi_nbytes, Unset),
                 live |-> TRUE], FreeArea)
          /\ vector' = [vector EXCEPT ![we.we_wordv].wi_strings = a]
          /\ pc' = "read"
          /\ UNCHANGED <<we0, we, spoilt, left>>
    /\ UNCHANGED <<flags, nwords, vofs, sofs, next, expected>>

\* Lines 378-397: the area grows, and the pointers into it follow.
GrowStrings ==
    /\ pc = "strings"
    /\ \/ EndNoSpace
       \/ LET wi == vector[we.we_wordv] IN
          \E a \in Places(area, wi.wi_strings) :
             /\ area' = Moved(area, wi.wi_strings, a,
                   [cells |-> Resized(IF wi.wi_strings = Null THEN << >>
                                      ELSE area[wi.wi_strings].cells, wi.wi_nbytes, Unset),
                    live |-> TRUE], FreeArea)
             /\ vector' = [vector EXCEPT ![we.we_wordv].wi_strings = a,
                                         ![we.we_wordv].wi_wordv = Rebased(@, vofs, a)]
             /\ pc' = "read"
             /\ UNCHANGED <<we0, we, spoilt, left>>
    /\ UNCHANGED <<flags, nwords, vofs, sofs, next, expected>>

\* Lines 400-444: the words are read behind the old ones; too few of them, an
\* error on stderr or a bad exit status end the call.
ReadWords ==
    /\ pc = "read"
    /\ \/ EndNoSpace /\ UNCHANGED next
       \/ EndError /\ UNCHANGED <<next, we0, spoilt, left>>
       \/ /\ LET a == vector[we.we_wordv].wi_strings IN
             area' = [area EXCEPT ![a].cells =
                [i \in DOMAIN @ |-> IF i > sofs THEN next + (i - sofs) - 1 ELSE @[i]]]
          /\ next' = next + nwords
          /\ pc' = "split"
          /\ UNCHANGED <<we0, we, vector, spoilt, left>>
    /\ UNCHANGED <<flags, nwords, vofs, sofs, expected>>

\* Lines 451-453 leave vofs behind the reserved slots of a first call.
FinalVofs == IF vofs = 0 THEN Offset ELSE vofs

\* Mutant of Stored: the reserved slots of a first call are passed over.
StoredBehind(wi, k) ==
    [i \in DOMAIN wi.wi_wordv |->
        IF FinalVofs < i /\ i <= FinalVofs + k
        THEN [at |-> wi.wi_strings, off |-> sofs + (i - FinalVofs)]
        ELSE wi.wi_wordv[i]]

\* Lines 451-465: NULL in the reserved slots of a first call, and pointers to the
\* first k new words; the other slots are as they were.
Stored(wi, k) ==
    [i \in DOMAIN wi.wi_wordv |->
        IF vofs = 0 /\ i <= Offset THEN NullPointer
        ELSE IF FinalVofs < i /\ i <= FinalVofs + k
        THEN [at |-> wi.wi_strings, off |-> sofs + (i - FinalVofs)]
        ELSE wi.wi_wordv[i]]

\* Lines 451-469 and 153-157: pointers to the new words behind the old ones, a
\* NULL behind them, and the result is the caller's.
Split ==
    /\ pc = "split"
    /\ LET wi == vector[we.we_wordv]
           put == [Stored(wi, nwords) EXCEPT ![FinalVofs + nwords + 1] = NullPointer]
           kept == IF "REUSE" \in flags THEN Freed(we0) ELSE vector
       IN  /\ vector' = [kept EXCEPT ![we.we_wordv] = [wi EXCEPT !.wi_wordv = put]]
           /\ area' = IF "REUSE" \in flags THEN FreedArea(we0) ELSE area
           /\ left' = IF "REUSE" \in flags THEN left ELSE left \union Owned(we0)
    /\ expected' = (IF "APPEND" \in flags THEN expected ELSE << >>)
                     \o [i \in 1..nwords |-> next - nwords + i - 1]
    /\ we0' = we /\ we' = Empty
    /\ pc' = "idle"
    /\ UNCHANGED <<flags, nwords, vofs, sofs, next, spoilt>>

\* Lines 461-462: fewer words end in a NUL than were announced.  The caller gets
\* the vector with the pointers stored so far, and garbage behind them.
SplitFails ==
    /\ pc = "split"
    /\ \E k \in 1..nwords :
          LET wi == vector[we.we_wordv]
              kept == IF "REUSE" \in flags THEN Freed(we0) ELSE vector
          IN  vector' = [kept EXCEPT ![we.we_wordv] = [wi EXCEPT !.wi_wordv = Stored(wi, k)]]
    /\ area' = IF "REUSE" \in flags THEN FreedArea(we0) ELSE area
    /\ left' = IF "REUSE" \in flags THEN left ELSE left \union Owned(we0)
    /\ we0' = we /\ we' = Empty
    /\ spoilt' = TRUE
    /\ pc' = "idle"
    /\ UNCHANGED <<flags, nwords, vofs, sofs, next, expected>>

--------------------------------------------------------------------------------
Next ==
    \/ Wordfree \/ Call \/ CopyOld \/ AskShell \/ GrowVector \/ GrowVectorFails
    \/ GrowStrings \/ ReadWords \/ Split \/ SplitFails

Spec == Init /\ [][Next]_vars

--------------------------------------------------------------------------------
(* What must hold.                                                         *)

\* What the caller reads through pointer p.
Word(p) == IF p.at \in Areas /\ area[p.at].live THEN area[p.at].cells[p.off] ELSE Unset

\* Whatever calls were made, and failed for any reason but memory, the caller
\* finds the words of the calls that succeeded, in order, behind we_offs empty
\* slots and before a NULL, through pointers into memory that is still
\* allocated, also while a call is in progress (lines 99-157, 386-466).
CallerSeesItsWords ==
    ~spoilt =>
        /\ we0.we_wordc = Len(expected)
        /\ we0.we_wordv # Null =>
              LET wordv == vector[we0.we_wordv].wi_wordv IN
              /\ Len(wordv) = Offset + we0.we_wordc + 1
              /\ \A i \in 1..Offset : wordv[i] = NullPointer
              /\ \A i \in 1..we0.we_wordc : Word(wordv[Offset + i]) = expected[i]
              /\ wordv[Len(wordv)] = NullPointer

LiveBlocks == {v \in Vectors : vector[v].live} \union {a \in Areas : area[a].live}

\* Nothing is lost in a failure or a reallocation: each block belongs to the
\* caller's wordexp_t, to the call in progress, or is what the call replaced
\* without WRDE_REUSE.  And the two wordexp_t share no block, so that either can
\* be freed without the other (lines 105-119, 141-155).
BlocksHaveOneOwner ==
    /\ LiveBlocks = Owned(we0) \union Owned(we) \union left
    /\ Owned(we0) \intersect (Owned(we) \union left) = {}

================================================================================
