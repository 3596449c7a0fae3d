----------------------------- MODULE WordexpProofs -----------------------------
(***************************************************************************)
(* The two parts of wordexp/wordexp.c.  For any blocks, offsets, counts of *)
(* words and sequences of calls: the caller keeps its words, and no block  *)
(* is lost or shared.  For any outputs of the shell and any sizes of the   *)
(* pipes and of err_buf: nothing is left behind, and a success has every   *)
(* word.                                                                   *)
(***************************************************************************)
EXTENDS Wordexp, WordexpShell, FiniteSetTheorems, TLAPS

\* A vector with slots for wordc words, of which the first k lead to the first k
\* cells of its area.  The other slots may hold anything.
Slots(wi, wordc, k) ==
    /\ wi.wi_nbytes = wordc
    /\ Len(wi.wi_wordv) = Offset + wordc + 1
    /\ \A i \in 1..(Offset + wordc + 1) :
          (Offset < i /\ i <= Offset + k) =>
             wi.wi_wordv[i] = [at |-> wi.wi_strings, off |-> i - Offset]

\* The reserved slots are empty; and the slot behind the words, too.
Reserved(wi) == \A i \in 1..Offset : wi.wi_wordv[i] = NullPointer
Closed(wi, wordc) == Reserved(wi) /\ wi.wi_wordv[Offset + wordc + 1] = NullPointer

\* An area of len cells that begins with words.
Begins(cells, len, words) ==
    Len(cells) = len /\ \A i \in 1..Len(words) : cells[i] = words[i]

Vec(we_) == vector[we_.we_wordv]
Strs(we_) == IF we_.we_wordv = Null THEN Null ELSE Vec(we_).wi_strings
Pointers(we_, k) == we_.we_wordv \in Vectors /\ Slots(Vec(we_), we_.we_wordc, k)
Cells(we_, len, words) == Strs(we_) \in Areas /\ Begins(area[Strs(we_)].cells, len, words)

Has(we_, words) ==
    /\ we_.we_wordc = Len(words)
    /\ Pointers(we_, Len(words)) /\ Cells(we_, Len(words), words)
    /\ Closed(Vec(we_), Len(words))

Appends == "APPEND" \in flags
Old == IF Appends THEN expected ELSE << >>      \* the words of the calls before

\* What the caller has, until it runs out of memory.
Kept ==
    ~spoilt => IF we0.we_wordv = Null THEN we0.we_wordc = 0 /\ expected = << >>
               ELSE Has(we0, expected)

\* What the call in progress has, by where it is.
Progress ==
    /\ pc \in {"idle", "copy"} => we = Empty
    /\ pc # "idle" => /\ ~spoilt
                      /\ Appends => we0.we_wordv # Null
    /\ pc \notin {"idle", "split"} => next + MaxNew <= MaxWords + 1
    /\ pc = "copy" => Appends
    /\ pc \in {"ask", "vector"} => IF Appends THEN Has(we, expected) ELSE we = Empty
    /\ pc \in {"vector", "strings", "read", "split"} =>
          vofs = IF Appends THEN Len(Old) + Offset ELSE 0
    /\ pc \in {"strings", "read", "split"} =>
          /\ sofs = Len(Old) /\ we.we_wordc = sofs + nwords /\ Pointers(we, sofs)
          /\ Appends => Reserved(Vec(we))
    /\ pc = "strings" => IF Appends THEN Cells(we, sofs, Old) ELSE Strs(we) = Null
    /\ pc \in {"read", "split"} => Cells(we, sofs + nwords, Old)
    /\ pc = "split" =>
          /\ nwords < next
          /\ \A j \in 1..nwords : area[Strs(we)].cells[sofs + j] = (next - nwords) + j - 1

\* BlocksHaveOneOwner block by block; and the temporary wordexp_t has nothing
\* that was left behind.
Owners ==
    /\ \A v \in Vectors :
          vector[v].live <=> (v = we0.we_wordv \/ v = we.we_wordv \/ v \in left)
    /\ \A a \in Areas : area[a].live <=> (a = Strs(we0) \/ a = Strs(we) \/ a \in left)
    /\ we0.we_wordv # Null => we0.we_wordv # we.we_wordv /\ we0.we_wordv \notin left
    /\ we.we_wordv # Null => we.we_wordv \notin left
    /\ Strs(we0) # Null => Strs(we0) # Strs(we) /\ Strs(we0) \notin left
    /\ Strs(we) # Null => Strs(we) \notin left

WordexpInv == TypeOK /\ Owners /\ Kept /\ Progress

--------------------------------------------------------------------------------
(* Vectors and areas as values.                                            *)

\* Any area, Null among them, is at the place a pointer may have.
LEMMA Basics ==
    /\ Offset \in Nat /\ MaxNew \in Nat /\ MaxWords \in Nat
    /\ Null \notin Vectors /\ Null \notin Areas /\ Vectors \intersect Areas = {}
    /\ Free \in We_int_t /\ FreeArea \in [cells : Seq(0..MaxWords), live : BOOLEAN]
    /\ Empty \in Wordexp_t /\ NullPointer \in Pointer /\ NullPointer.at = Null
    /\ Garbage \in Pointer /\ Wild \notin Areas
    /\ Empty.we_wordv = Null /\ Empty.we_wordc = 0
    /\ Free.wi_strings = Null /\ ~Free.live /\ ~FreeArea.live
    /\ Free.wi_nbytes = 0 /\ Free.wi_wordv = << >>
    /\ \A a \in Areas \union {Null}, k \in Nat : [at |-> a, off |-> k] \in Pointer
<1>1. << >> \in Seq(Pointer) /\ << >> \in Seq(0..MaxWords)
  OBVIOUS
<1>2. Offset \in Nat /\ MaxNew \in Nat /\ MaxWords \in Nat
      /\ Null \notin Vectors /\ Null \notin Areas /\ Vectors \intersect Areas = {}
  BY OffsAssumption DEF Offset
<1>3. Free \in We_int_t /\ FreeArea \in [cells : Seq(0..MaxWords), live : BOOLEAN]
  BY <1>1 DEF Free, FreeArea, We_int_t
<1>4. Empty \in Wordexp_t /\ NullPointer \in Pointer /\ NullPointer.at = Null
      /\ Garbage \in Pointer /\ Empty.we_wordv = Null /\ Empty.we_wordc = 0
  BY DEF Empty, Wordexp_t, NullPointer, Garbage, Pointer
<1>5. Wild \notin Areas
  BY OffsAssumption
<1> QED
  BY <1>2, <1>3, <1>4, <1>5 DEF Free, FreeArea, Pointer

\* realloc keeps what was there, in a block of the new length.
LEMMA ResizedPointers ==
    ASSUME NEW s \in Seq(Pointer), NEW m \in Nat
    PROVE  /\ Resized(s, m, Garbage) \in Seq(Pointer) /\ Len(Resized(s, m, Garbage)) = m
           /\ \A i \in 1..m : Resized(s, m, Garbage)[i] =
                 IF i <= Len(s) THEN s[i] ELSE Garbage
<1>1. \A i \in 1..m : (IF i <= Len(s) THEN s[i] ELSE Garbage) \in Pointer
  BY Basics
<1> QED
  BY <1>1 DEF Resized

LEMMA ResizedCells ==
    ASSUME NEW s \in Seq(0..MaxWords), NEW m \in Nat
    PROVE  /\ Resized(s, m, Unset) \in Seq(0..MaxWords) /\ Len(Resized(s, m, Unset)) = m
           /\ \A i \in 1..m : Resized(s, m, Unset)[i] = IF i <= Len(s) THEN s[i] ELSE Unset
<1>0. Unset \in 0..MaxWords
  BY Basics DEF Unset
<1> DEFINE Words == 0..MaxWords
<1>1. Unset \in Words /\ s \in Seq(Words)
  BY <1>0
<1> HIDE DEF Words
<1>2. \A i \in 1..m : (IF i <= Len(s) THEN s[i] ELSE Unset) \in Words
  BY <1>1
<1>3. /\ Resized(s, m, Unset) \in Seq(Words) /\ Len(Resized(s, m, Unset)) = m
      /\ \A i \in 1..m : Resized(s, m, Unset)[i] = IF i <= Len(s) THEN s[i] ELSE Unset
  BY <1>2 DEF Resized
<1> QED
  BY <1>3 DEF Words

LEMMA RebasedIs ==
    ASSUME NEW s \in Seq(Pointer), NEW m \in Nat, NEW a \in Areas
    PROVE  /\ Rebased(s, m, a) \in Seq(Pointer) /\ Len(Rebased(s, m, a)) = Len(s)
           /\ \A i \in 1..Len(s) : Rebased(s, m, a)[i] =
                 IF i <= m /\ s[i].at \in Areas THEN [s[i] EXCEPT !.at = a] ELSE s[i]
<1>0. \A p \in Pointer : [p EXCEPT !.at = a] \in Pointer
  BY DEF Pointer
<1>1. \A i \in 1..Len(s) :
          (IF i <= m /\ s[i].at \in Areas THEN [s[i] EXCEPT !.at = a] ELSE s[i]) \in Pointer
  BY <1>0
<1>2. Len(s) \in Nat /\ DOMAIN s = 1..Len(s)
  OBVIOUS
<1> QED
  BY <1>1, <1>2 DEF Rebased

\* The pointers into an area follow it to where it moves; an empty slot stays one.
LEMMA SlotsMoved ==
    ASSUME NEW wi \in We_int_t, NEW c \in Nat, NEW k \in Nat, Slots(wi, c, k),
           NEW a \in Areas, NEW m \in Nat, k = 0 \/ m >= Offset + k,
           wi.wi_strings \in Areas \/ k = 0,
           NEW wj \in We_int_t, wj.wi_strings = a, wj.wi_nbytes = wi.wi_nbytes,
           wj.wi_wordv = Rebased(wi.wi_wordv, m, a)
    PROVE  /\ Slots(wj, c, k)
           /\ Reserved(wi) => Reserved(wj)
           /\ Closed(wi, c) => Closed(wj, c)
<1>1. wi.wi_wordv \in Seq(Pointer) /\ Offset \in Nat
  BY Basics DEF We_int_t
<1>2. /\ Len(wj.wi_wordv) = Len(wi.wi_wordv)
      /\ \A i \in 1..Len(wi.wi_wordv) : wj.wi_wordv[i] =
            IF i <= m /\ wi.wi_wordv[i].at \in Areas THEN [wi.wi_wordv[i] EXCEPT !.at = a]
            ELSE wi.wi_wordv[i]
  <2>1. PICK s \in Seq(Pointer) : s = wi.wi_wordv
    BY <1>1
  <2>2. /\ Len(Rebased(s, m, a)) = Len(s)
        /\ \A i \in 1..Len(s) : Rebased(s, m, a)[i] =
              IF i <= m /\ s[i].at \in Areas THEN [s[i] EXCEPT !.at = a] ELSE s[i]
    BY RebasedIs
  <2> QED
    BY <2>1, <2>2
<1>3. Len(wi.wi_wordv) = Offset + c + 1
  BY DEF Slots
<1>4. ASSUME NEW i \in 1..(Offset + c + 1), Offset < i, i <= Offset + k
      PROVE  wj.wi_wordv[i] = [at |-> wj.wi_strings, off |-> i - Offset]
  <2>1. k # 0 /\ i <= m
    BY <1>1, <1>4
  <2>2. wi.wi_wordv[i] = [at |-> wi.wi_strings, off |-> i - Offset]
    BY <1>4 DEF Slots
  <2>3. wi.wi_wordv[i].at \in Areas
        /\ [wi.wi_wordv[i] EXCEPT !.at = a] = [at |-> a, off |-> i - Offset]
    BY <2>1, <2>2
  <2> QED
    BY <1>2, <1>3, <2>1, <2>3
<1>5. ASSUME NEW i \in 1..(Offset + c + 1), wi.wi_wordv[i] = NullPointer
      PROVE  wj.wi_wordv[i] = NullPointer
  BY <1>2, <1>3, <1>5, Basics
<1>6. Slots(wj, c, k)
  BY <1>2, <1>3, <1>4 DEF Slots
<1>7. Reserved(wi) => Reserved(wj)
  BY <1>1, <1>5 DEF Reserved
<1>8. Offset + c + 1 \in 1..(Offset + c + 1)
  BY <1>1
<1> QED
  BY <1>5, <1>6, <1>7, <1>8 DEF Closed

\* More slots behind those of a vector.
LEMMA SlotsGrown ==
    ASSUME NEW wi \in We_int_t, NEW c \in Nat, NEW m \in Nat,
           Slots(wi, c, c) \/ (c = 0 /\ wi = Free),
           NEW wj \in We_int_t, wj.wi_strings = wi.wi_strings, wj.wi_nbytes = wi.wi_nbytes + m,
           wj.wi_wordv = Resized(wi.wi_wordv, c + m + 1 + Offset, Garbage)
    PROVE  /\ Slots(wj, c + m, c)
           /\ (Slots(wi, c, c) /\ Reserved(wi)) => Reserved(wj)
<1>0. wi.wi_wordv \in Seq(Pointer) /\ Offset \in Nat /\ c + m + 1 + Offset \in Nat
  BY Basics DEF We_int_t
<1>1. /\ Len(wj.wi_wordv) = Offset + (c + m) + 1
      /\ \A i \in 1..(Offset + (c + m) + 1) : wj.wi_wordv[i] =
            IF i <= Len(wi.wi_wordv) THEN wi.wi_wordv[i] ELSE Garbage
  <2>1. LET s == wi.wi_wordv
            n == c + m + 1 + Offset
        IN  /\ Len(Resized(s, n, Garbage)) = n
            /\ \A i \in 1..n : Resized(s, n, Garbage)[i] = IF i <= Len(s) THEN s[i] ELSE Garbage
    BY <1>0, ResizedPointers
  <2>2. c + m + 1 + Offset = Offset + (c + m) + 1
    BY <1>0
  <2> QED
    BY <2>1, <2>2
<1>2. CASE Slots(wi, c, c)
  <2>1. Slots(wj, c + m, c)
    BY <1>0, <1>1, <1>2 DEF Slots
  <2>2. Reserved(wi) => Reserved(wj)
    BY <1>0, <1>1, <1>2 DEF Slots, Reserved
  <2> QED
    BY <2>1, <2>2
<1>3. CASE c = 0 /\ wi = Free
  <2>1. Slots(wj, c + m, c)
    BY <1>0, <1>1, <1>3, Basics DEF Slots
  <2>2. ~Slots(wi, c, c)
    <3>1. Len(wi.wi_wordv) = 0
      BY <1>3, Basics
    <3> QED
      BY <1>0, <1>3, <3>1 DEF Slots
  <2> QED
    BY <2>1, <2>2
<1> QED
  BY <1>2, <1>3

LEMMA BeginsResized ==
    ASSUME NEW cells \in Seq(0..MaxWords), NEW words \in Seq(1..MaxWords),
           NEW m \in Nat, Begins(cells, Len(words), words), m >= Len(words)
    PROVE  Begins(Resized(cells, m, Unset), m, words)
<1>1. Unset \in 0..MaxWords /\ Len(words) \in Nat
  BY Basics DEF Unset
<1>2. /\ Len(Resized(cells, m, Unset)) = m
      /\ \A i \in 1..m : Resized(cells, m, Unset)[i] = IF i <= Len(cells) THEN cells[i] ELSE Unset
  BY <1>1, ResizedCells
<1> QED
  BY <1>1, <1>2 DEF Begins

--------------------------------------------------------------------------------
(* Who owns what.                                                          *)

LEMMA Places0 ==
    TypeOK =>
    /\ we0.we_wordv \in Vectors \union {Null} /\ we.we_wordv \in Vectors \union {Null}
    /\ Strs(we0) \in Areas \union {Null} /\ Strs(we) \in Areas \union {Null}
    /\ \A v \in Vectors : vector[v] \in We_int_t
    /\ left \subseteq Vectors \union Areas
<1> SUFFICES ASSUME TypeOK
             PROVE  /\ we0.we_wordv \in Vectors \union {Null} /\ we.we_wordv \in Vectors \union {Null}
                    /\ Strs(we0) \in Areas \union {Null} /\ Strs(we) \in Areas \union {Null}
                    /\ \A v \in Vectors : vector[v] \in We_int_t
                    /\ left \subseteq Vectors \union Areas
  OBVIOUS
<1>1. we0.we_wordv \in Vectors \union {Null} /\ we.we_wordv \in Vectors \union {Null}
  BY DEF TypeOK, Wordexp_t
<1>2. \A v \in Vectors : vector[v] \in We_int_t /\ vector[v].wi_strings \in Areas \union {Null}
  BY DEF TypeOK, We_int_t
<1> QED
  BY <1>1, <1>2 DEF Strs, Vec, TypeOK

LEMMA OwnedIs ==
    TypeOK => /\ Owned(we0) = {we0.we_wordv, Strs(we0)} \ {Null}
              /\ Owned(we) = {we.we_wordv, Strs(we)} \ {Null}
  BY Basics DEF Owned, Strs, Vec

\* Block by block is the same as set by set.
LEMMA Blocks == TypeOK /\ Owners => BlocksHaveOneOwner
<1> SUFFICES ASSUME TypeOK, Owners PROVE BlocksHaveOneOwner
  OBVIOUS
<1>1. LiveBlocks = Owned(we0) \union Owned(we) \union left
  BY OwnedIs, Places0, Basics DEF Owners, LiveBlocks
<1>2. Owned(we0) \intersect (Owned(we) \union left) = {}
  <2>1. we0.we_wordv # Strs(we) \/ we0.we_wordv = Null
    BY Places0, Basics
  <2>2. Strs(we0) # we.we_wordv \/ Strs(we0) = Null
    BY Places0, Basics
  <2> QED
    BY <2>1, <2>2, OwnedIs DEF Owners
<1> QED
  BY <1>1, <1>2 DEF BlocksHaveOneOwner

\* The call is over: the caller has what the call had, and what the caller had
\* is freed or left behind.
LEMMA HandedOver ==
    ASSUME TypeOK, Owners,
           \A v \in Vectors : vector'[v].live <=>
              (vector[v].live /\ ("REUSE" \in flags => v # we0.we_wordv)),
           \A a \in Areas : area'[a].live <=>
              (area[a].live /\ ("REUSE" \in flags => a # Strs(we0))),
           we.we_wordv # Null => vector'[we.we_wordv].wi_strings = Vec(we).wi_strings,
           left' = IF "REUSE" \in flags THEN left ELSE left \union Owned(we0),
           we0'.we_wordv = we.we_wordv, we' = Empty
    PROVE  Owners'
<1>1. we'.we_wordv = Null /\ Strs(we)' = Null
  BY Basics DEF Strs
<1>2. Strs(we0)' = Strs(we)
  BY DEF Strs, Vec
<1>3. left' = IF "REUSE" \in flags THEN left
              ELSE left \union ({we0.we_wordv, Strs(we0)} \ {Null})
  BY OwnedIs
<1>a. /\ we0.we_wordv # Strs(we) \/ we0.we_wordv = Null
      /\ Strs(we0) # we.we_wordv \/ Strs(we0) = Null
      /\ \A v \in Vectors : v # Null /\ v # Strs(we0)
      /\ \A a \in Areas : a # Null /\ a # we0.we_wordv
  BY Places0, Basics
<1>4. \A v \in Vectors :
          vector'[v].live <=> (v = we0'.we_wordv \/ v = we'.we_wordv \/ v \in left')
  BY <1>1, <1>3, <1>a DEF Owners
<1>5. \A a \in Areas : area'[a].live <=> (a = Strs(we0)' \/ a = Strs(we)' \/ a \in left')
  BY <1>1, <1>2, <1>3, <1>a DEF Owners
<1>6. /\ we0'.we_wordv # Null => we0'.we_wordv # we'.we_wordv /\ we0'.we_wordv \notin left'
      /\ Strs(we0)' # Null => Strs(we0)' # Strs(we)' /\ Strs(we0)' \notin left'
  BY <1>1, <1>2, <1>3, <1>a DEF Owners
<1> QED
  BY <1>1, <1>4, <1>5, <1>6 DEF Owners

\* Freed and FreedArea free what is owned, and nothing else.
LEMMA FreedIs ==
    ASSUME TypeOK, NEW x, x.we_wordv \in Vectors \union {Null}
    PROVE  /\ Freed(x) \in [Vectors -> We_int_t]
           /\ FreedArea(x) \in [Areas -> [cells : Seq(0..MaxWords), live : BOOLEAN]]
           /\ \A v \in Vectors : Freed(x)[v] = IF v = x.we_wordv THEN Free ELSE vector[v]
           /\ \A a \in Areas : FreedArea(x)[a] = IF a = Strs(x) THEN FreeArea ELSE area[a]
<1>1. /\ Freed(x) \in [Vectors -> We_int_t]
      /\ \A v \in Vectors : Freed(x)[v] = IF v = x.we_wordv THEN Free ELSE vector[v]
  BY Basics DEF Freed, TypeOK
<1>2. \A a \in Areas : (x.we_wordv # Null /\ a = vector[x.we_wordv].wi_strings) <=> a = Strs(x)
  BY Basics DEF Strs, Vec
<1>3. \A a \in Areas : FreedArea(x)[a] = IF a = Strs(x) THEN FreeArea ELSE area[a]
  BY <1>2 DEF FreedArea
<1>4. \A a \in Areas : (IF a = Strs(x) THEN FreeArea ELSE area[a]) \in
                          [cells : Seq(0..MaxWords), live : BOOLEAN]
  <2> DEFINE T == [cells : Seq(0..MaxWords), live : BOOLEAN]
  <2>1. FreeArea \in T /\ area \in [Areas -> T]
    BY Basics DEF TypeOK
  <2> HIDE DEF T
  <2>2. \A a \in Areas : (IF a = Strs(x) THEN FreeArea ELSE area[a]) \in T
    BY <2>1
  <2> QED
    BY <2>2 DEF T
<1>5. FreedArea(x) \in [Areas -> [cells : Seq(0..MaxWords), live : BOOLEAN]]
  BY <1>3, <1>4 DEF FreedArea
<1> QED
  BY <1>1, <1>3, <1>5

\* What the caller had is freed when it is reused, kept otherwise.
Keeping == IF "REUSE" \in flags THEN Freed(we0) ELSE vector
KeepingArea == IF "REUSE" \in flags THEN FreedArea(we0) ELSE area

LEMMA KeepingIs ==
    TypeOK => /\ Keeping \in [Vectors -> We_int_t]
              /\ KeepingArea \in [Areas -> [cells : Seq(0..MaxWords), live : BOOLEAN]]
              /\ \A v \in Vectors : ("REUSE" \notin flags \/ v # we0.we_wordv) => Keeping[v] = vector[v]
              /\ \A v \in Vectors : ("REUSE" \in flags /\ v = we0.we_wordv) => Keeping[v] = Free
              /\ \A a \in Areas : ("REUSE" \notin flags \/ a # Strs(we0)) => KeepingArea[a] = area[a]
              /\ \A a \in Areas : ("REUSE" \in flags /\ a = Strs(we0)) => KeepingArea[a] = FreeArea
<1> SUFFICES ASSUME TypeOK
             PROVE
              /\ Keeping \in [Vectors -> We_int_t]
              /\ KeepingArea \in [Areas -> [cells : Seq(0..MaxWords), live : BOOLEAN]]
              /\ \A v \in Vectors : ("REUSE" \notin flags \/ v # we0.we_wordv) => Keeping[v] = vector[v]
              /\ \A v \in Vectors : ("REUSE" \in flags /\ v = we0.we_wordv) => Keeping[v] = Free
              /\ \A a \in Areas : ("REUSE" \notin flags \/ a # Strs(we0)) => KeepingArea[a] = area[a]
              /\ \A a \in Areas : ("REUSE" \in flags /\ a = Strs(we0)) => KeepingArea[a] = FreeArea
  OBVIOUS
<1>1. we0.we_wordv \in Vectors \union {Null}
  BY Places0
<1>2. /\ vector \in [Vectors -> We_int_t]
      /\ area \in [Areas -> [cells : Seq(0..MaxWords), live : BOOLEAN]]
  BY DEF TypeOK
<1>3. CASE "REUSE" \in flags
  <2>1. Keeping = Freed(we0) /\ KeepingArea = FreedArea(we0)
    BY <1>3 DEF Keeping, KeepingArea
  <2> QED
    BY <1>1, <1>3, <2>1, FreedIs
<1>4. CASE "REUSE" \notin flags
  BY <1>2, <1>4 DEF Keeping, KeepingArea
<1> QED
  BY <1>3, <1>4

\* The two ways a call fails.
LEMMA NoSpaceKeeps ==
    ASSUME TypeOK, Owners, vector' = Keeping, area' = KeepingArea,
           left' = IF "REUSE" \in flags THEN left ELSE left \union Owned(we0),
           we0'.we_wordv = we.we_wordv, we0'.we_wordc \in Nat, we0' = [we EXCEPT !.we_wordc = we0'.we_wordc],
           we' = Empty
    PROVE  /\ Owners'
           /\ vector' \in [Vectors -> We_int_t]
           /\ area' \in [Areas -> [cells : Seq(0..MaxWords), live : BOOLEAN]]
           /\ left' \subseteq Vectors \union Areas
           /\ we0' \in Wordexp_t /\ we' \in Wordexp_t
<1>1. /\ vector' \in [Vectors -> We_int_t]
      /\ area' \in [Areas -> [cells : Seq(0..MaxWords), live : BOOLEAN]]
  BY KeepingIs
<1>2. left' \subseteq Vectors \union Areas
  BY OwnedIs, Places0
<1>3. we0' \in Wordexp_t /\ we' \in Wordexp_t
  <2>1. we \in Wordexp_t
    BY DEF TypeOK
  <2> QED
    BY <2>1, Basics DEF Wordexp_t
<1>4. \A v \in Vectors : vector'[v].live <=>
              (vector[v].live /\ ("REUSE" \in flags => v # we0.we_wordv))
  BY KeepingIs, Basics
<1>5. \A a \in Areas : area'[a].live <=>
              (area[a].live /\ ("REUSE" \in flags => a # Strs(we0)))
  BY KeepingIs, Basics
<1>6. we.we_wordv # Null => vector'[we.we_wordv].wi_strings = Vec(we).wi_strings
  <2>1. ASSUME we.we_wordv # Null PROVE we.we_wordv \in Vectors /\ we.we_wordv # we0.we_wordv
    BY <2>1, Places0 DEF Owners
  <2> QED
    BY <2>1, KeepingIs DEF Vec
<1>7. Owners'
  BY <1>4, <1>5, <1>6, HandedOver
<1> QED
  BY <1>1, <1>2, <1>3, <1>7

LEMMA ErrorKeeps ==
    ASSUME TypeOK, Owners, EndError, UNCHANGED <<we0, left>>
    PROVE  /\ Owners'
           /\ vector' \in [Vectors -> We_int_t]
           /\ area' \in [Areas -> [cells : Seq(0..MaxWords), live : BOOLEAN]]
           /\ we' = Empty
           /\ we0.we_wordv # Null => vector'[we0.we_wordv] = Vec(we0)
           /\ Strs(we0) # Null => area'[Strs(we0)] = area[Strs(we0)]
<1>1. vector' = Freed(we) /\ area' = FreedArea(we) /\ we' = Empty
  BY DEF EndError
<1>2. we.we_wordv \in Vectors \union {Null}
  BY Places0
<1>3. /\ vector' \in [Vectors -> We_int_t]
      /\ area' \in [Areas -> [cells : Seq(0..MaxWords), live : BOOLEAN]]
      /\ \A v \in Vectors : vector'[v] = IF v = we.we_wordv THEN Free ELSE vector[v]
      /\ \A a \in Areas : area'[a] = IF a = Strs(we) THEN FreeArea ELSE area[a]
  BY <1>1, <1>2, FreedIs
<1>4. we0.we_wordv # Null => vector'[we0.we_wordv] = Vec(we0)
  BY <1>3, Places0 DEF Vec, Owners
<1>5. Strs(we0) # Null => area'[Strs(we0)] = area[Strs(we0)]
  BY <1>3, Places0 DEF Owners
<1>6. Strs(we0)' = Strs(we0) /\ we'.we_wordv = Null /\ Strs(we)' = Null
  BY <1>1, <1>4, Basics DEF Strs, Vec
<1>7. \A v \in Vectors :
          vector'[v].live <=> (v = we0'.we_wordv \/ v = we'.we_wordv \/ v \in left')
  <2> SUFFICES ASSUME NEW v \in Vectors
               PROVE vector'[v].live <=> (v = we0'.we_wordv \/ v = we'.we_wordv \/ v \in left')
    OBVIOUS
  <2>1. CASE v = we.we_wordv
    BY <1>3, <1>6, <2>1, Basics DEF Owners
  <2>2. CASE v # we.we_wordv
    <3>1. vector'[v] = vector[v] /\ v # we'.we_wordv
      BY <1>3, <1>6, <2>2, Basics
    <3>2. vector[v].live <=> (v = we0.we_wordv \/ v \in left)
      BY <2>2 DEF Owners
    <3> QED
      BY <3>1, <3>2
  <2> QED
    BY <2>1, <2>2
<1>8. \A a \in Areas : area'[a].live <=> (a = Strs(we0)' \/ a = Strs(we)' \/ a \in left')
  <2> SUFFICES ASSUME NEW a \in Areas
               PROVE area'[a].live <=> (a = Strs(we0)' \/ a = Strs(we)' \/ a \in left')
    OBVIOUS
  <2>1. CASE a = Strs(we)
    BY <1>3, <1>6, <2>1, Basics DEF Owners
  <2>2. CASE a # Strs(we)
    <3>1. area'[a] = area[a] /\ a # Strs(we)'
      BY <1>3, <1>6, <2>2, Basics
    <3>2. area[a].live <=> (a = Strs(we0) \/ a \in left)
      BY <2>2 DEF Owners
    <3> QED
      BY <1>6, <3>1, <3>2
  <2> QED
    BY <2>1, <2>2
<1>9. Owners'
  BY <1>6, <1>7, <1>8 DEF Owners
<1> QED
  BY <1>1, <1>3, <1>4, <1>5, <1>9

--------------------------------------------------------------------------------
(* The steps.                                                              *)

\* The caller's words stay while its vector and its area do.
LEMMA KeptStays ==
    ASSUME TypeOK, Kept, UNCHANGED <<we0, expected, spoilt>>,
           we0.we_wordv # Null => vector'[we0.we_wordv] = Vec(we0),
           Strs(we0) # Null => area'[Strs(we0)].cells = area[Strs(we0)].cells
    PROVE  Kept'
<1>1. CASE spoilt
  BY <1>1 DEF Kept
<1>2. CASE ~spoilt /\ we0.we_wordv = Null
  BY <1>2 DEF Kept
<1>3. CASE ~spoilt /\ we0.we_wordv # Null
  <2>1. Has(we0, expected)
    BY <1>3 DEF Kept
  <2>2. Vec(we0)' = Vec(we0) /\ Strs(we0)' = Strs(we0)
    BY <1>3 DEF Vec, Strs
  <2>3. Strs(we0) # Null
    BY <2>1, Basics DEF Has, Cells
  <2>4. area'[Strs(we0)'].cells = area[Strs(we0)].cells
    BY <2>2, <2>3
  <2>5. Pointers(we0, Len(expected))'
    BY <2>1, <2>2 DEF Has, Pointers, Slots
  <2>6. Cells(we0, Len(expected), expected)'
    BY <2>1, <2>2, <2>4 DEF Has, Cells
  <2>7. Has(we0, expected)'
    BY <2>1, <2>2, <2>5, <2>6 DEF Has, Closed, Reserved
  <2> QED
    BY <1>3, <2>7 DEF Kept
<1> QED
  BY <1>1, <1>2, <1>3

LEMMA StepWordfree == WordexpInv /\ Wordfree => WordexpInv'
<1> SUFFICES ASSUME WordexpInv, Wordfree PROVE WordexpInv'
  OBVIOUS
<1>0. TypeOK /\ Owners /\ Kept /\ Progress /\ we0.we_wordv \in Vectors \union {Null}
  BY Places0 DEF WordexpInv
<1>1. /\ pc = "idle" /\ vector' = Freed(we0) /\ area' = FreedArea(we0)
      /\ we0' = Empty /\ expected' = << >> /\ spoilt' = FALSE
      /\ UNCHANGED <<pc, flags, nwords, vofs, sofs, we, next, left>>
  BY DEF Wordfree
<1>2. /\ vector' \in [Vectors -> We_int_t]
      /\ area' \in [Areas -> [cells : Seq(0..MaxWords), live : BOOLEAN]]
      /\ \A v \in Vectors : vector'[v] = IF v = we0.we_wordv THEN Free ELSE vector[v]
      /\ \A a \in Areas : area'[a] = IF a = Strs(we0) THEN FreeArea ELSE area[a]
  BY <1>0, <1>1, FreedIs
<1>3. TypeOK'
  <2>1. expected' \in Seq(1..MaxWords) /\ we0' \in Wordexp_t
    BY <1>1, Basics
  <2> QED
    BY <1>0, <1>1, <1>2, <2>1 DEF TypeOK
<1>4. we = Empty /\ we' = Empty
  BY <1>0, <1>1 DEF Progress
<1>5. we'.we_wordv = Null /\ Strs(we)' = Null /\ we0'.we_wordv = Null /\ Strs(we0)' = Null
      /\ we.we_wordv = Null /\ Strs(we) = Null
  BY <1>1, <1>4, Basics DEF Strs
<1>6. \A v \in Vectors : vector'[v].live <=> v \in left
  <2> SUFFICES ASSUME NEW v \in Vectors PROVE vector'[v].live <=> v \in left
    OBVIOUS
  <2>1. CASE v = we0.we_wordv
    BY <1>0, <1>2, <2>1, Basics DEF Owners
  <2>2. CASE v # we0.we_wordv
    <3>1. vector'[v] = vector[v] /\ v # Null
      BY <1>2, <2>2, Basics
    <3> QED
      BY <1>0, <1>5, <2>2, <3>1 DEF Owners
  <2> QED
    BY <2>1, <2>2
<1>7. \A a \in Areas : area'[a].live <=> a \in left
  <2> SUFFICES ASSUME NEW a \in Areas PROVE area'[a].live <=> a \in left
    OBVIOUS
  <2>1. CASE a = Strs(we0)
    BY <1>0, <1>2, <2>1, Basics DEF Owners
  <2>2. CASE a # Strs(we0)
    <3>1. area'[a] = area[a] /\ a # Null
      BY <1>2, <2>2, Basics
    <3> QED
      BY <1>0, <1>5, <2>2, <3>1 DEF Owners
  <2> QED
    BY <2>1, <2>2
<1>8. Owners'
  <2>1. \A v \in Vectors :
            vector'[v].live <=> (v = we0'.we_wordv \/ v = we'.we_wordv \/ v \in left')
    BY <1>1, <1>5, <1>6, Basics
  <2>2. \A a \in Areas : area'[a].live <=> (a = Strs(we0)' \/ a = Strs(we)' \/ a \in left')
    BY <1>1, <1>5, <1>7, Basics
  <2> QED
    BY <1>5, <2>1, <2>2 DEF Owners
<1>9. Kept'
  BY <1>1, <1>5, Basics DEF Kept
<1>10. Progress'
  BY <1>0, <1>1, <1>4 DEF Progress
<1> QED
  BY <1>3, <1>8, <1>9, <1>10 DEF WordexpInv

LEMMA StepCall == WordexpInv /\ Call => WordexpInv'
<1> SUFFICES ASSUME WordexpInv, Call PROVE WordexpInv'
  OBVIOUS
<1>0. TypeOK /\ Owners /\ Kept /\ Progress
  BY DEF WordexpInv
<1>1. /\ pc = "idle" /\ ~spoilt /\ next + MaxNew <= MaxWords + 1
      /\ flags' \subseteq {"APPEND", "REUSE"}
      /\ we0.we_wordv = Null => "APPEND" \notin flags'
      /\ we' = Empty /\ pc' = IF "APPEND" \in flags' THEN "copy" ELSE "ask"
      /\ UNCHANGED <<nwords, vofs, sofs, we0, vector, area, next, expected, spoilt, left>>
  BY DEF Call
<1>2. we = Empty
  BY <1>0, <1>1 DEF Progress
<1>3. TypeOK'
  BY <1>0, <1>1, Basics DEF TypeOK
<1>4. Owners'
  BY <1>0, <1>1, <1>2 DEF Owners, Strs, Vec
<1>5. Kept'
  BY <1>0, <1>1, KeptStays DEF Vec
<1>6. Progress'
  BY <1>1 DEF Progress, Appends
<1> QED
  BY <1>3, <1>4, <1>5, <1>6 DEF WordexpInv

LEMMA WholeSubSeq == ASSUME NEW s \in Seq(Pointer) PROVE SubSeq(s, 1, Len(s)) = s
  OBVIOUS

LEMMA StepCopyOld == WordexpInv /\ CopyOld => WordexpInv'
<1> SUFFICES ASSUME WordexpInv, CopyOld PROVE WordexpInv'
  OBVIOUS
<1>0. TypeOK /\ Owners /\ Kept /\ Progress
  BY DEF WordexpInv
<1>1. pc = "copy" /\ UNCHANGED <<flags, nwords, vofs, sofs, we0, next, expected, spoilt, left>>
  BY DEF CopyOld
<1>2. CASE pc' = "idle" /\ UNCHANGED <<we, vector, area>>
  <2>1. TypeOK'
    BY <1>0, <1>1, <1>2 DEF TypeOK
  <2>2. Owners'
    BY <1>0, <1>1, <1>2 DEF Owners, Strs, Vec
  <2>3. Kept'
    BY <1>0, <1>1, <1>2, KeptStays DEF Vec
  <2>4. Progress'
    BY <1>0, <1>1, <1>2 DEF Progress
  <2> QED
    BY <2>1, <2>2, <2>3, <2>4 DEF WordexpInv
<1>3. CASE pc' # "idle"
  <2>1. /\ ~spoilt /\ Appends /\ we0.we_wordv # Null /\ we = Empty
        /\ next + MaxNew <= MaxWords + 1
    BY <1>0, <1>1 DEF Progress
  <2>2. we0.we_wordv \in Vectors /\ Has(we0, expected) /\ vector[we0.we_wordv] \in We_int_t
    BY <1>0, <2>1, Places0 DEF Kept
  <2> DEFINE old == vector[we0.we_wordv]
             n == we0.we_wordc + Offset
  <2>3. PICK v \in Places(vector, Null), a \in Places(area, Null) :
          /\ vector' = [vector EXCEPT ![v] =
                [old EXCEPT !.wi_strings = a,
                            !.wi_wordv = Rebased(SubSeq(old.wi_wordv, 1, n + 1), n, a)]]
          /\ area' = [area EXCEPT ![a] =
                [cells |-> Resized(area[old.wi_strings].cells, old.wi_nbytes, Unset), live |-> TRUE]]
          /\ we' = [we_wordc |-> we0.we_wordc, we_wordv |-> v]
          /\ pc' = "ask"
    BY <1>3 DEF CopyOld
  <2>4. v \in Vectors /\ ~vector[v].live /\ a \in Areas /\ ~area[a].live
    BY <1>0, <2>3, Basics DEF Places, TypeOK
  <2>5. /\ v # we0.we_wordv /\ v \notin left /\ v # Null
        /\ a # Strs(we0) /\ a \notin left /\ a # Null
    BY <1>0, <2>4, Basics DEF Owners
  <2>6. /\ Strs(we0) = old.wi_strings /\ old.wi_strings \in Areas
        /\ old.wi_nbytes = Len(expected) /\ we0.we_wordc = Len(expected)
        /\ Slots(old, Len(expected), Len(expected))
        /\ Begins(area[old.wi_strings].cells, Len(expected), expected)
        /\ old.live /\ Closed(old, Len(expected))
    BY <1>0, <2>1, <2>2 DEF Has, Pointers, Cells, Slots, Strs, Vec, Owners
  <2>7. Len(expected) \in Nat /\ n \in Nat /\ expected \in Seq(1..MaxWords)
    BY <1>0, <2>6, Basics DEF TypeOK
  <2>8. SubSeq(old.wi_wordv, 1, n + 1) = old.wi_wordv
    <3>1. old.wi_wordv \in Seq(Pointer)
      BY <2>2 DEF We_int_t
    <3>2. Len(old.wi_wordv) = n + 1
      BY <2>6, <2>7, Basics DEF Slots
    <3> QED
      BY <3>1, <3>2, WholeSubSeq
  <2> DEFINE new == [old EXCEPT !.wi_strings = a, !.wi_wordv = Rebased(old.wi_wordv, n, a)]
             cells == Resized(area[old.wi_strings].cells, Len(expected), Unset)
  <2>9. new \in We_int_t /\ new.live /\ new.wi_strings = a /\ new.wi_nbytes = old.wi_nbytes
        /\ new.wi_wordv = Rebased(old.wi_wordv, n, a)
    <3>1. Rebased(old.wi_wordv, n, a) \in Seq(Pointer)
      BY <2>2, <2>4, <2>7, RebasedIs DEF We_int_t
    <3> QED
      BY <2>2, <2>4, <2>6, <3>1 DEF We_int_t
  <2>10. cells \in Seq(0..MaxWords) /\ Begins(cells, Len(expected), expected)
    <3>1. area[old.wi_strings].cells \in Seq(0..MaxWords)
      BY <1>0, <2>6 DEF TypeOK
    <3>2. cells \in Seq(0..MaxWords)
      BY <2>7, <3>1, ResizedCells
    <3>3. Begins(area[old.wi_strings].cells, Len(expected), expected)
      BY <2>6
    <3>4. Len(expected) >= Len(expected)
      BY <2>7
    <3> HIDE DEF old
    <3> QED
      BY <2>7, <3>1, <3>2, <3>3, <3>4, BeginsResized
  <2>11. vector' = [vector EXCEPT ![v] = new]
         /\ area' = [area EXCEPT ![a] = [cells |-> cells, live |-> TRUE]]
    BY <2>3, <2>6, <2>8
  <2>12. Slots(new, Len(expected), Len(expected)) /\ Closed(new, Len(expected))
    <3>1. n >= Offset + Len(expected) /\ old.wi_strings \in Areas
      BY <2>6, <2>7, Basics
    <3>2. old \in We_int_t /\ new \in We_int_t /\ a \in Areas
      BY <2>2, <2>4, <2>9
    <3> HIDE DEF old, n, new
    <3> QED
      BY <2>6, <2>7, <2>9, <3>1, <3>2, SlotsMoved
  <2> HIDE DEF old, n, new, cells
  <2>13. /\ vector' \in [Vectors -> We_int_t]
         /\ vector'[v] = new
         /\ \A w \in Vectors : w # v => vector'[w] = vector[w]
    BY <1>0, <2>4, <2>9, <2>11 DEF TypeOK
  <2>14. /\ area' \in [Areas -> [cells : Seq(0..MaxWords), live : BOOLEAN]]
         /\ area'[a] = [cells |-> cells, live |-> TRUE]
         /\ \A b \in Areas : b # a => area'[b] = area[b]
    <3> DEFINE T == [cells : Seq(0..MaxWords), live : BOOLEAN]
    <3>1. [cells |-> cells, live |-> TRUE] \in T /\ area \in [Areas -> T]
      BY <1>0, <2>10 DEF TypeOK
    <3> HIDE DEF T
    <3>2. /\ area' \in [Areas -> T]
          /\ area'[a] = [cells |-> cells, live |-> TRUE]
          /\ \A b \in Areas : b # a => area'[b] = area[b]
      BY <2>4, <2>11, <3>1
    <3> QED
      BY <3>2 DEF T
  <2>15. /\ we'.we_wordc = Len(expected) /\ we'.we_wordv = v /\ we' \in Wordexp_t
    BY <2>3, <2>4, <2>6, <2>7 DEF Wordexp_t
  <2>16. TypeOK'
    BY <1>0, <1>1, <2>3, <2>13, <2>14, <2>15 DEF TypeOK
  <2>17. Strs(we)' = a /\ Strs(we0)' = Strs(we0) /\ we.we_wordv = Null /\ Strs(we) = Null
    BY <1>1, <2>1, <2>2, <2>5, <2>9, <2>13, <2>15, Basics DEF Strs, Vec
  <2>18. Owners'
    <3>1. \A w \in Vectors :
            vector'[w].live <=> (w = we0'.we_wordv \/ w = we'.we_wordv \/ w \in left')
      <4> SUFFICES ASSUME NEW w \in Vectors
                   PROVE vector'[w].live <=> (w = we0'.we_wordv \/ w = we'.we_wordv \/ w \in left')
        OBVIOUS
      <4>1. CASE w = v
        BY <2>9, <2>13, <2>15, <4>1
      <4>2. CASE w # v
        <5>1. vector'[w] = vector[w] /\ w # we.we_wordv
          BY <2>13, <2>17, <4>2, Basics
        <5> QED
          BY <1>0, <1>1, <2>15, <4>2, <5>1 DEF Owners
      <4> QED
        BY <4>1, <4>2
    <3>2. \A b \in Areas : area'[b].live <=> (b = Strs(we0)' \/ b = Strs(we)' \/ b \in left')
      <4> SUFFICES ASSUME NEW b \in Areas
                   PROVE area'[b].live <=> (b = Strs(we0)' \/ b = Strs(we)' \/ b \in left')
        OBVIOUS
      <4>1. CASE b = a
        BY <2>14, <2>17, <4>1
      <4>2. CASE b # a
        <5>1. area'[b] = area[b] /\ b # Strs(we)
          BY <2>14, <2>17, <4>2, Basics
        <5> QED
          BY <1>0, <1>1, <2>17, <4>2, <5>1 DEF Owners
      <4> QED
        BY <4>1, <4>2
    <3> QED
      BY <1>0, <1>1, <2>5, <2>15, <2>17, <3>1, <3>2 DEF Owners
  <2>19. Kept'
    <3>1. vector'[we0.we_wordv] = Vec(we0) /\ area'[Strs(we0)] = area[Strs(we0)]
      BY <2>2, <2>5, <2>6, <2>13, <2>14 DEF Vec
    <3> QED
      BY <1>0, <1>1, <3>1, KeptStays
  <2>20. Has(we, expected)'
    <3>1. Vec(we)' = new
      BY <2>13, <2>15 DEF Vec
    <3>2. Pointers(we, Len(expected))'
      BY <1>1, <2>4, <2>12, <2>15, <3>1 DEF Pointers, Slots
    <3>3. Cells(we, Len(expected), expected)'
      BY <1>1, <2>4, <2>10, <2>14, <2>17 DEF Cells
    <3>4. Closed(Vec(we), Len(expected))'
      BY <1>1, <2>12, <3>1 DEF Closed, Reserved
    <3> QED
      BY <1>1, <2>15, <3>2, <3>3, <3>4 DEF Has
  <2>21. Progress'
    BY <1>1, <2>1, <2>3, <2>20 DEF Progress, Appends
  <2> QED
    BY <2>16, <2>18, <2>19, <2>21 DEF WordexpInv
<1> QED
  BY <1>2, <1>3 DEF CopyOld

LEMMA StepNoSpace ==
    ASSUME WordexpInv, vector' = Keeping, area' = KeepingArea,
           left' = IF "REUSE" \in flags THEN left ELSE left \union Owned(we0),
           we0'.we_wordv = we.we_wordv, we0'.we_wordc \in Nat,
           we0' = [we EXCEPT !.we_wordc = we0'.we_wordc], we' = Empty,
           spoilt' = TRUE, pc' = "idle", UNCHANGED <<flags, nwords, vofs, sofs, next, expected>>
    PROVE  WordexpInv'
<1>1. TypeOK /\ Owners
  BY DEF WordexpInv
<1>2. /\ Owners'
      /\ vector' \in [Vectors -> We_int_t]
      /\ area' \in [Areas -> [cells : Seq(0..MaxWords), live : BOOLEAN]]
      /\ left' \subseteq Vectors \union Areas
      /\ we0' \in Wordexp_t /\ we' \in Wordexp_t
  BY <1>1, NoSpaceKeeps
<1>3. TypeOK'
  BY <1>1, <1>2 DEF TypeOK
<1>4. Kept' /\ Progress'
  BY DEF Kept, Progress
<1> QED
  BY <1>2, <1>3, <1>4 DEF WordexpInv

LEMMA StepEndNoSpace ==
    ASSUME WordexpInv, EndNoSpace, UNCHANGED <<flags, nwords, vofs, sofs, next, expected>>
    PROVE  WordexpInv'
<1>1. we \in Wordexp_t /\ we0' = we /\ we0'.we_wordc \in Nat
      /\ we0' = [we EXCEPT !.we_wordc = we0'.we_wordc]
  BY DEF WordexpInv, TypeOK, EndNoSpace, Wordexp_t
<1> QED
  BY <1>1, StepNoSpace DEF EndNoSpace, Keeping, KeepingArea

LEMMA StepEndError ==
    ASSUME WordexpInv, EndError,
           UNCHANGED <<flags, nwords, vofs, sofs, we0, next, expected, spoilt, left>>
    PROVE  WordexpInv'
<1>1. TypeOK /\ Owners /\ Kept
  BY DEF WordexpInv
<1>2. /\ Owners'
      /\ vector' \in [Vectors -> We_int_t]
      /\ area' \in [Areas -> [cells : Seq(0..MaxWords), live : BOOLEAN]]
      /\ we' = Empty
      /\ we0.we_wordv # Null => vector'[we0.we_wordv] = Vec(we0)
      /\ Strs(we0) # Null => area'[Strs(we0)] = area[Strs(we0)]
  BY <1>1, ErrorKeeps
<1>3. pc' = "idle"
  BY DEF EndError
<1>4. TypeOK'
  BY <1>1, <1>2, <1>3, Basics DEF TypeOK
<1>5. Kept'
  BY <1>1, <1>2, KeptStays
<1>6. Progress'
  BY <1>2, <1>3 DEF Progress
<1> QED
  BY <1>2, <1>4, <1>5, <1>6 DEF WordexpInv

LEMMA StepAskShell == WordexpInv /\ AskShell => WordexpInv'
<1> SUFFICES ASSUME WordexpInv, AskShell PROVE WordexpInv'
  OBVIOUS
<1>1. CASE EndNoSpace /\ UNCHANGED <<nwords, vofs>>
  BY <1>1, StepEndNoSpace DEF AskShell
<1>2. CASE EndError /\ UNCHANGED <<nwords, vofs, we0, spoilt, left>>
  BY <1>2, StepEndError DEF AskShell
<1>3. CASE /\ nwords' \in 0..MaxNew
           /\ vofs' = we.we_wordc + (IF "APPEND" \in flags THEN Offset ELSE 0)
           /\ pc' = "vector"
           /\ UNCHANGED <<we0, we, vector, area, spoilt, left>>
  <2>1. TypeOK /\ Owners /\ Kept /\ Progress
    BY DEF WordexpInv
  <2>2. pc = "ask" /\ UNCHANGED <<flags, sofs, next, expected>>
    BY DEF AskShell
  <2>3. we.we_wordc \in Nat
    BY <2>1 DEF TypeOK, Wordexp_t
  <2>4. vofs' \in Nat
    BY <1>3, <2>3, Basics
  <2>5. TypeOK'
    BY <1>3, <2>1, <2>2, <2>4 DEF TypeOK
  <2>6. Owners'
    BY <1>3, <2>1, <2>2 DEF Owners, Strs, Vec
  <2>7. Kept'
    BY <1>3, <2>1, <2>2, KeptStays DEF Vec
  <2>8. IF Appends THEN Has(we, expected) ELSE we = Empty
    BY <2>1, <2>2 DEF Progress
  <2>9. (IF Appends THEN Has(we, expected) ELSE we = Empty)'
    BY <1>3, <2>2, <2>8 DEF Appends, Has, Pointers, Cells, Vec, Strs, Closed, Reserved
  <2>10. vofs' = IF Appends THEN Len(expected) + Offset ELSE 0
    <3>1. CASE Appends
      BY <1>3, <2>8, <3>1, Basics DEF Appends, Has
    <3>2. CASE ~Appends
      <4>1. we.we_wordc = 0 /\ vofs' = we.we_wordc + 0
        BY <1>3, <2>8, <3>2, Basics DEF Appends
      <4> QED
        BY <3>2, <4>1
    <3> QED
      BY <3>1, <3>2
  <2>11. Progress'
    BY <1>3, <2>1, <2>2, <2>9, <2>10 DEF Progress, Appends, Old
  <2> QED
    BY <2>5, <2>6, <2>7, <2>11 DEF WordexpInv
<1> QED
  BY <1>1, <1>2, <1>3 DEF AskShell

LEMMA StepGrowVectorFails == WordexpInv /\ GrowVectorFails => WordexpInv'
<1> SUFFICES ASSUME WordexpInv, GrowVectorFails PROVE WordexpInv'
  OBVIOUS
<1>1. we \in Wordexp_t /\ nwords \in Nat
  BY DEF WordexpInv, TypeOK
<1>2. we0' = [we EXCEPT !.we_wordc = @ + nwords]
  BY DEF GrowVectorFails
<1>3. /\ we0'.we_wordv = we.we_wordv /\ we0'.we_wordc \in Nat
      /\ we0' = [we EXCEPT !.we_wordc = we0'.we_wordc]
  BY <1>1, <1>2 DEF Wordexp_t
<1> QED
  BY <1>3, StepNoSpace DEF GrowVectorFails, Keeping, KeepingArea

LEMMA StepGrowVector == WordexpInv /\ GrowVector => WordexpInv'
<1> SUFFICES ASSUME WordexpInv, GrowVector PROVE WordexpInv'
  OBVIOUS
<1>0. TypeOK /\ Owners /\ Kept /\ Progress
  BY DEF WordexpInv
<1>1. pc = "vector" /\ pc' = "strings"
      /\ UNCHANGED <<flags, nwords, vofs, we0, area, next, expected, spoilt, left>>
  BY DEF GrowVector
<1>2. /\ ~spoilt /\ (Appends => we0.we_wordv # Null) /\ next + MaxNew <= MaxWords + 1
      /\ IF Appends THEN Has(we, expected) ELSE we = Empty
      /\ vofs = IF Appends THEN Len(Old) + Offset ELSE 0
  BY <1>0, <1>1 DEF Progress
<1> DEFINE old == IF we.we_wordv = Null THEN Free ELSE vector[we.we_wordv]
           wordc == we.we_wordc + nwords
           new == [wi_strings |-> old.wi_strings, wi_nbytes |-> old.wi_nbytes + nwords,
                   wi_wordv |-> Resized(old.wi_wordv, wordc + 1 + Offset, Garbage),
                   live |-> TRUE]
<1>3. PICK v \in Places(vector, we.we_wordv) :
         /\ vector' = Moved(vector, we.we_wordv, v, new, Free)
         /\ sofs' = old.wi_nbytes
         /\ we' = [we_wordc |-> wordc, we_wordv |-> v]
  BY DEF GrowVector
<1>4. v \in Vectors /\ (v = we.we_wordv \/ ~vector[v].live) /\ v # Null
  BY <1>0, <1>3, Basics DEF Places, TypeOK
<1>5. v # we0.we_wordv /\ v \notin left
  BY <1>0, <1>4 DEF Owners
<1>6. /\ nwords \in Nat /\ we.we_wordc \in Nat /\ wordc \in Nat /\ Offset \in Nat
      /\ expected \in Seq(1..MaxWords) /\ Len(Old) \in Nat
  <2>1. nwords \in Nat /\ we.we_wordc \in Nat /\ expected \in Seq(1..MaxWords)
    BY <1>0, Basics DEF TypeOK, Wordexp_t
  <2>2. Len(Old) \in Nat
    BY <2>1 DEF Old
  <2> QED
    BY <2>1, <2>2, Basics
<1>7. /\ old \in We_int_t /\ we.we_wordc = Len(Old) /\ old.wi_nbytes = Len(Old)
      /\ Slots(old, Len(Old), Len(Old)) \/ (Len(Old) = 0 /\ old = Free)
      /\ old.wi_strings = Strs(we)
      /\ IF Appends THEN Cells(we, Len(Old), Old) ELSE Strs(we) = Null
      /\ Appends => Slots(old, Len(Old), Len(Old)) /\ Reserved(old)
  <2>1. CASE Appends
    <3>1. Has(we, expected) /\ Old = expected
      BY <1>2, <2>1 DEF Old
    <3>2. we.we_wordv \in Vectors /\ we.we_wordv # Null
      BY <3>1, Basics DEF Has, Pointers
    <3>3. old = vector[we.we_wordv] /\ old \in We_int_t
      BY <1>0, <3>2 DEF TypeOK
    <3> QED
      BY <2>1, <3>1, <3>2, <3>3 DEF Has, Pointers, Slots, Strs, Vec, Closed
  <2>2. CASE ~Appends
    <3>1. we = Empty /\ Old = << >> /\ Len(Old) = 0
      BY <1>2, <2>2 DEF Old
    <3>2. we.we_wordv = Null /\ old = Free /\ Strs(we) = Null
      BY <3>1, Basics DEF Strs
    <3> QED
      BY <2>2, <3>1, <3>2, Basics
  <2> QED
    BY <2>1, <2>2
<1>8. /\ new \in We_int_t /\ new.live /\ new.wi_strings = old.wi_strings
      /\ new.wi_nbytes = old.wi_nbytes + nwords
      /\ new.wi_wordv = Resized(old.wi_wordv, Len(Old) + nwords + 1 + Offset, Garbage)
  <2>1. wordc + 1 + Offset = Len(Old) + nwords + 1 + Offset /\ wordc + 1 + Offset \in Nat
    BY <1>6, <1>7
  <2>2. Resized(old.wi_wordv, wordc + 1 + Offset, Garbage) \in Seq(Pointer)
    <3>1. old.wi_wordv \in Seq(Pointer)
      BY <1>7 DEF We_int_t
    <3> QED
      BY <2>1, <3>1, ResizedPointers
  <2>3. old.wi_strings \in Areas \union {Null} /\ old.wi_nbytes + nwords \in Nat
    BY <1>6, <1>7 DEF We_int_t
  <2> QED
    BY <2>1, <2>2, <2>3 DEF We_int_t
<1> HIDE DEF old, new
<1>9. Slots(new, Len(Old) + nwords, Len(Old)) /\ (Appends => Reserved(new))
  BY <1>6, <1>7, <1>8, SlotsGrown
<1>10. /\ vector' \in [Vectors -> We_int_t]
       /\ vector'[v] = new
       /\ \A w \in Vectors : (w # v /\ w # we.we_wordv) => vector'[w] = vector[w]
       /\ \A w \in Vectors : (w # v /\ w = we.we_wordv) => vector'[w] = Free
  <2>1. vector \in [Vectors -> We_int_t]
    BY <1>0 DEF TypeOK
  <2>2. \A w \in Vectors : (IF w = v THEN new ELSE IF w = we.we_wordv THEN Free ELSE vector[w]) \in We_int_t
    BY <1>8, <2>1, Basics
  <2>3. vector' = [w \in Vectors |-> IF w = v THEN new ELSE IF w = we.we_wordv THEN Free ELSE vector[w]]
    BY <1>3, <2>1 DEF Moved
  <2> QED
    BY <1>4, <2>2, <2>3
<1>11. we'.we_wordc = wordc /\ we'.we_wordv = v /\ we' \in Wordexp_t
  BY <1>3, <1>4, <1>6 DEF Wordexp_t
<1>12. Strs(we)' = Strs(we) /\ Strs(we0)' = Strs(we0) /\ Vec(we)' = new
  <2>1. we0.we_wordv \in Vectors \union {Null}
    BY <1>0, Places0
  <2>2. we0.we_wordv # Null => we0.we_wordv # we.we_wordv
    BY <1>0 DEF Owners
  <2> QED
    BY <1>1, <1>4, <1>5, <1>7, <1>8, <1>10, <1>11, <2>1, <2>2 DEF Strs, Vec
<1>13. sofs' = Len(Old) /\ sofs' \in Nat
  BY <1>3, <1>6, <1>7
<1>14. TypeOK'
  BY <1>0, <1>1, <1>10, <1>11, <1>13 DEF TypeOK
<1>15. Owners'
  <2>1. \A w \in Vectors :
          vector'[w].live <=> (w = we0'.we_wordv \/ w = we'.we_wordv \/ w \in left')
    <3> SUFFICES ASSUME NEW w \in Vectors
                 PROVE vector'[w].live <=> (w = we0'.we_wordv \/ w = we'.we_wordv \/ w \in left')
      OBVIOUS
    <3>1. CASE w = v
      BY <1>8, <1>10, <1>11, <3>1
    <3>2. CASE w # v /\ w = we.we_wordv
      <4>1. ~vector'[w].live /\ w # we0.we_wordv /\ w \notin left
        BY <1>0, <1>10, <3>2, Basics DEF Owners
      <4> QED
        BY <1>1, <1>11, <3>2, <4>1
    <3>3. CASE w # v /\ w # we.we_wordv
      <4>1. vector'[w] = vector[w]
        BY <1>10, <3>3
      <4>2. vector[w].live <=> (w = we0.we_wordv \/ w \in left)
        BY <1>0, <3>3 DEF Owners
      <4> QED
        BY <1>1, <1>11, <3>3, <4>1, <4>2
    <3> QED
      BY <3>1, <3>2, <3>3
  <2> QED
    BY <1>0, <1>1, <1>5, <1>11, <1>12, <2>1 DEF Owners
<1>16. Kept'
  <2>1. we0.we_wordv # Null => vector'[we0.we_wordv] = Vec(we0)
    BY <1>0, <1>5, <1>10, Places0 DEF Vec, Owners
  <2> QED
    BY <1>0, <1>1, <2>1, KeptStays
<1>17. Progress'
  <2>1. Old' = Old /\ Appends' = Appends
    BY <1>1 DEF Old, Appends
  <2>2. we'.we_wordc = sofs' + nwords'
    BY <1>1, <1>7, <1>11, <1>13
  <2>3. Pointers(we, sofs)'
    BY <1>1, <1>4, <1>7, <1>9, <1>11, <1>12, <1>13, <2>2 DEF Pointers, Slots
  <2>4. (IF Appends THEN Cells(we, sofs, Old) ELSE Strs(we) = Null)'
    BY <1>1, <1>7, <1>12, <1>13, <2>1 DEF Cells
  <2>5. (Appends => Reserved(Vec(we)))'
    BY <1>9, <1>12, <2>1 DEF Reserved
  <2> QED
    BY <1>1, <1>2, <1>13, <2>1, <2>2, <2>3, <2>4, <2>5 DEF Progress
<1> QED
  BY <1>14, <1>15, <1>16, <1>17 DEF WordexpInv

LEMMA StepGrowStrings == WordexpInv /\ GrowStrings => WordexpInv'
<1> SUFFICES ASSUME WordexpInv, GrowStrings PROVE WordexpInv'
  OBVIOUS
<1>0. TypeOK /\ Owners /\ Kept /\ Progress
  BY DEF WordexpInv
<1>1. pc = "strings" /\ UNCHANGED <<flags, nwords, vofs, sofs, next, expected>>
  BY DEF GrowStrings
<1>2. CASE EndNoSpace
  BY <1>1, <1>2, StepEndNoSpace
<1>3. CASE ~EndNoSpace
  <2> DEFINE wi == vector[we.we_wordv]
             had == IF wi.wi_strings = Null THEN << >> ELSE area[wi.wi_strings].cells
             cells == Resized(had, wi.wi_nbytes, Unset)
  <2>1. PICK a \in Places(area, wi.wi_strings) :
          /\ area' = Moved(area, wi.wi_strings, a, [cells |-> cells, live |-> TRUE], FreeArea)
          /\ vector' = [vector EXCEPT ![we.we_wordv].wi_strings = a,
                                      ![we.we_wordv].wi_wordv = Rebased(@, vofs, a)]
          /\ pc' = "read"
          /\ UNCHANGED <<we0, we, spoilt, left>>
    BY <1>3 DEF GrowStrings
  <2>2. /\ ~spoilt /\ (Appends => we0.we_wordv # Null) /\ next + MaxNew <= MaxWords + 1
        /\ vofs = IF Appends THEN Len(Old) + Offset ELSE 0
        /\ sofs = Len(Old) /\ we.we_wordc = sofs + nwords /\ Pointers(we, sofs)
        /\ IF Appends THEN Cells(we, sofs, Old) ELSE Strs(we) = Null
        /\ Appends => Reserved(Vec(we))
    BY <1>0, <1>1 DEF Progress
  <2>3. /\ we.we_wordv \in Vectors /\ we.we_wordv # Null /\ wi \in We_int_t
        /\ Slots(wi, sofs + nwords, sofs) /\ wi.wi_strings = Strs(we)
        /\ wi.wi_nbytes = sofs + nwords /\ (Appends => Reserved(wi))
    <3>1. we.we_wordv \in Vectors /\ we.we_wordv # Null
      BY <2>2, Basics DEF Pointers
    <3> QED
      BY <1>0, <2>2, <3>1 DEF Pointers, Slots, Strs, Vec, TypeOK
  <2>4. a \in Areas /\ (a = Strs(we) \/ ~area[a].live) /\ a # Null
    BY <1>0, <2>1, <2>3, Basics DEF Places, TypeOK
  <2>5. a # Strs(we0) /\ a \notin left
    BY <1>0, <2>4 DEF Owners
  <2>6. sofs \in Nat /\ nwords \in Nat /\ vofs \in Nat /\ Offset \in Nat
        /\ sofs + nwords \in Nat /\ sofs + nwords >= Len(Old)
    <3>1. sofs \in Nat /\ nwords \in Nat /\ vofs \in Nat /\ Offset \in Nat
      BY <1>0, Basics DEF TypeOK
    <3> QED
      BY <2>2, <3>1
  <2>7. had \in Seq(0..MaxWords) /\ Begins(had, Len(Old), Old) /\ Old \in Seq(1..MaxWords)
    <3>1. CASE Appends
      <4>1. Cells(we, sofs, Old) /\ Strs(we) \in Areas /\ Strs(we) # Null
        BY <2>2, <3>1, Basics DEF Cells
      <4>2. had = area[Strs(we)].cells /\ had \in Seq(0..MaxWords)
        BY <1>0, <2>3, <4>1 DEF TypeOK
      <4>3. Old \in Seq(1..MaxWords)
        BY <1>0, <3>1 DEF Old, TypeOK
      <4> QED
        BY <2>2, <4>1, <4>2, <4>3 DEF Cells
    <3>2. CASE ~Appends
      <4>1. had = << >> /\ Old = << >>
        BY <2>2, <2>3, <3>2 DEF Old
      <4>2. << >> \in Seq(0..MaxWords) /\ << >> \in Seq(1..MaxWords) /\ Begins(<< >>, Len(<< >>), << >>)
        BY DEF Begins
      <4> QED
        BY <4>1, <4>2
    <3> QED
      BY <3>1, <3>2
  <2>8. cells \in Seq(0..MaxWords) /\ Begins(cells, sofs + nwords, Old)
    <3> HIDE DEF had
    <3>1. cells = Resized(had, sofs + nwords, Unset)
      BY <2>3
    <3>2. Begins(Resized(had, sofs + nwords, Unset), sofs + nwords, Old)
      BY <2>6, <2>7, BeginsResized
    <3>3. Resized(had, sofs + nwords, Unset) \in Seq(0..MaxWords)
      BY <2>6, <2>7, ResizedCells
    <3> QED
      BY <3>1, <3>2, <3>3
  <2> DEFINE new == [wi EXCEPT !.wi_strings = a, !.wi_wordv = Rebased(wi.wi_wordv, vofs, a)]
  <2>9. /\ new \in We_int_t /\ new.live = wi.live /\ new.wi_strings = a
        /\ new.wi_nbytes = wi.wi_nbytes /\ new.wi_wordv = Rebased(wi.wi_wordv, vofs, a)
    <3>1. Rebased(wi.wi_wordv, vofs, a) \in Seq(Pointer)
      BY <2>3, <2>4, <2>6, RebasedIs DEF We_int_t
    <3> QED
      BY <2>3, <2>4, <3>1 DEF We_int_t
  <2>10. Slots(new, sofs + nwords, sofs) /\ (Appends => Reserved(new))
    <3>1. sofs = 0 \/ vofs >= Offset + sofs
      <4>1. CASE Appends
        BY <2>2, <2>6, <4>1
      <4>2. CASE ~Appends
        BY <2>2, <4>2 DEF Old
      <4> QED
        BY <4>1, <4>2
    <3>2. wi.wi_strings \in Areas \/ sofs = 0
      <4>1. CASE Appends
        BY <2>2, <2>3, <4>1, Basics DEF Cells
      <4>2. CASE ~Appends
        BY <2>2, <4>2 DEF Old
      <4> QED
        BY <4>1, <4>2
    <3>3. wi \in We_int_t /\ new \in We_int_t
      BY <2>3, <2>9
    <3> HIDE DEF wi, new
    <3> QED
      BY <2>3, <2>4, <2>6, <2>9, <3>1, <3>2, <3>3, SlotsMoved
  <2>11. vector' = [vector EXCEPT ![we.we_wordv] = new]
    BY <1>0, <2>1, <2>3 DEF TypeOK
  <2> HIDE DEF new, cells
  <2>12. /\ vector' \in [Vectors -> We_int_t]
         /\ vector'[we.we_wordv] = new
         /\ \A w \in Vectors : w # we.we_wordv => vector'[w] = vector[w]
    BY <1>0, <2>3, <2>9, <2>11 DEF TypeOK
  <2>13. /\ area' \in [Areas -> [cells : Seq(0..MaxWords), live : BOOLEAN]]
         /\ area'[a] = [cells |-> cells, live |-> TRUE]
         /\ \A b \in Areas : (b # a /\ b # Strs(we)) => area'[b] = area[b]
         /\ \A b \in Areas : (b # a /\ b = Strs(we)) => area'[b] = FreeArea
    <3> DEFINE T == [cells : Seq(0..MaxWords), live : BOOLEAN]
               new1 == [cells |-> cells, live |-> TRUE]
    <3>1. new1 \in T /\ area \in [Areas -> T] /\ FreeArea \in T
      BY <1>0, <2>8, Basics DEF TypeOK
    <3> HIDE DEF T, new1
    <3>2. \A b \in Areas : (IF b = a THEN new1 ELSE IF b = Strs(we) THEN FreeArea ELSE area[b]) \in T
      BY <3>1
    <3>3. area' = [b \in Areas |-> IF b = a THEN new1 ELSE IF b = Strs(we) THEN FreeArea ELSE area[b]]
      BY <2>1, <2>3, <3>1 DEF Moved, new1
    <3>4. /\ area' \in [Areas -> T]
          /\ area'[a] = new1
          /\ \A b \in Areas : (b # a /\ b # Strs(we)) => area'[b] = area[b]
          /\ \A b \in Areas : (b # a /\ b = Strs(we)) => area'[b] = FreeArea
      BY <2>4, <3>2, <3>3
    <3> QED
      BY <3>4 DEF T, new1
  <2>14. we0.we_wordv # Null => we0.we_wordv # we.we_wordv
    BY <1>0 DEF Owners
  <2>15. we0.we_wordv # Null => vector'[we0.we_wordv] = Vec(we0)
    BY <1>0, <2>12, <2>14, Places0 DEF Vec
  <2>16. Strs(we)' = a /\ Strs(we0)' = Strs(we0) /\ Vec(we)' = new
    <3>1. Vec(we)' = new /\ Strs(we)' = a
      BY <2>1, <2>3, <2>9, <2>12 DEF Strs, Vec
    <3>2. we0' = we0
      BY <2>1
    <3>3. Strs(we0)' = Strs(we0)
      BY <2>15, <3>2, Zenon DEF Strs, Vec
    <3> QED
      BY <3>1, <3>3
  <2>17. TypeOK'
    BY <1>0, <1>1, <2>1, <2>12, <2>13 DEF TypeOK
  <2>18. Owners'
    <3>1. \A w \in Vectors : vector'[w].live = vector[w].live
      BY <2>9, <2>12
    <3>2. \A b \in Areas : area'[b].live <=> (b = Strs(we0)' \/ b = Strs(we)' \/ b \in left')
      <4> SUFFICES ASSUME NEW b \in Areas
                   PROVE area'[b].live <=> (b = Strs(we0)' \/ b = Strs(we)' \/ b \in left')
        OBVIOUS
      <4>1. CASE b = a
        BY <2>13, <2>16, <4>1
      <4>2. CASE b # a /\ b = Strs(we)
        <5>1. ~area'[b].live /\ b # Strs(we0) /\ b \notin left
          BY <1>0, <2>13, <4>2, Basics DEF Owners
        <5> QED
          BY <2>1, <2>16, <4>2, <5>1
      <4>3. CASE b # a /\ b # Strs(we)
        <5>1. area'[b] = area[b]
          BY <2>13, <4>3
        <5>2. area[b].live <=> (b = Strs(we0) \/ b \in left)
          BY <1>0, <4>3 DEF Owners
        <5> QED
          BY <2>1, <2>16, <4>3, <5>1, <5>2
      <4> QED
        BY <4>1, <4>2, <4>3
    <3> QED
      BY <1>0, <2>1, <2>5, <2>16, <3>1, <3>2 DEF Owners
  <2>19. Kept'
    <3>1. Strs(we0) # Null => area'[Strs(we0)] = area[Strs(we0)]
      BY <1>0, <2>5, <2>13, Places0 DEF Owners
    <3> QED
      BY <1>0, <1>1, <2>1, <2>15, <3>1, KeptStays
  <2>20. Progress'
    <3>1. Old' = Old /\ Appends' = Appends
      BY <1>1 DEF Old, Appends
    <3>2. Pointers(we, sofs)'
      BY <1>1, <2>1, <2>2, <2>3, <2>10, <2>16 DEF Pointers, Slots
    <3>3. Cells(we, sofs + nwords, Old)'
      BY <1>1, <2>4, <2>8, <2>13, <2>16, <3>1 DEF Cells
    <3>4. (Appends => Reserved(Vec(we)))'
      BY <2>10, <2>16, <3>1 DEF Reserved
    <3> QED
      BY <1>1, <2>1, <2>2, <3>1, <3>2, <3>3, <3>4 DEF Progress
  <2> QED
    BY <2>17, <2>18, <2>19, <2>20 DEF WordexpInv
<1> QED
  BY <1>2, <1>3

LEMMA StepReadWords == WordexpInv /\ ReadWords => WordexpInv'
<1> SUFFICES ASSUME WordexpInv, ReadWords PROVE WordexpInv'
  OBVIOUS
<1>0. TypeOK /\ Owners /\ Kept /\ Progress
  BY DEF WordexpInv
<1>1. pc = "read" /\ UNCHANGED <<flags, nwords, vofs, sofs, expected>>
  BY DEF ReadWords
<1>2. CASE EndNoSpace /\ UNCHANGED next
  BY <1>1, <1>2, StepEndNoSpace
<1>3. CASE EndError /\ UNCHANGED <<next, we0, spoilt, left>>
  BY <1>1, <1>3, StepEndError
<1>4. ASSUME NEW a, a = vector[we.we_wordv].wi_strings,
             area' = [area EXCEPT ![a].cells =
                [i \in DOMAIN @ |-> IF i > sofs THEN next + (i - sofs) - 1 ELSE @[i]]],
             next' = next + nwords, pc' = "split",
             UNCHANGED <<we0, we, vector, spoilt, left>>
      PROVE  WordexpInv'
  <2>1. /\ ~spoilt /\ (Appends => we0.we_wordv # Null) /\ next + MaxNew <= MaxWords + 1
        /\ vofs = IF Appends THEN Len(Old) + Offset ELSE 0
        /\ sofs = Len(Old) /\ we.we_wordc = sofs + nwords /\ Pointers(we, sofs)
        /\ Cells(we, sofs + nwords, Old) /\ (Appends => Reserved(Vec(we)))
    BY <1>0, <1>1 DEF Progress
  <2>2. we.we_wordv \in Vectors /\ we.we_wordv # Null
    BY <2>1, Basics DEF Pointers
  <2>3. a = Strs(we) /\ a \in Areas
    BY <1>4, <2>1, <2>2 DEF Cells, Strs, Vec
  <2>4. /\ sofs \in Nat /\ nwords \in Nat /\ nwords <= MaxNew /\ next \in Nat /\ 1 <= next
        /\ MaxNew \in Nat /\ MaxWords \in Nat /\ next + nwords \in 1..(MaxWords + 1)
        /\ nwords < next + nwords
    BY <1>0, <2>1, Basics DEF TypeOK
  <2> DEFINE T == 0..MaxWords
             old == area[a].cells
             cells == [i \in DOMAIN old |-> IF i > sofs THEN next + (i - sofs) - 1 ELSE old[i]]
  <2>5. old \in Seq(T) /\ Len(old) = sofs + nwords /\ DOMAIN old = 1..(sofs + nwords)
        /\ \A i \in 1..Len(Old) : old[i] = Old[i]
    <3>1. old \in Seq(T)
      BY <1>0, <2>3 DEF TypeOK
    <3> QED
      BY <2>1, <2>3, <3>1 DEF Cells, Begins
  <2>6. \A i \in 1..(sofs + nwords) : i > sofs => next + (i - sofs) - 1 \in T
    BY <2>1, <2>4
  <2> HIDE DEF T, old
  <2>7. cells \in Seq(T) /\ Len(cells) = sofs + nwords
        /\ \A i \in 1..(sofs + nwords) :
              cells[i] = IF i > sofs THEN next + (i - sofs) - 1 ELSE old[i]
    <3>1. \A i \in 1..(sofs + nwords) : (IF i > sofs THEN next + (i - sofs) - 1 ELSE old[i]) \in T
      BY <2>5, <2>6
    <3>2. cells = [i \in 1..(sofs + nwords) |-> IF i > sofs THEN next + (i - sofs) - 1 ELSE old[i]]
      BY <2>5
    <3>3. sofs + nwords \in Nat
      BY <2>4
    <3> HIDE DEF cells
    <3> QED
      BY <3>1, <3>2, <3>3
  <2>8. area' = [area EXCEPT ![a] = [area[a] EXCEPT !.cells = cells]]
    BY <1>0, <1>4, <2>3 DEF old, TypeOK
  <2> HIDE DEF cells
  <2>9. /\ area' \in [Areas -> [cells : Seq(T), live : BOOLEAN]]
        /\ area'[a].cells = cells /\ area'[a].live = area[a].live
        /\ \A b \in Areas : b # a => area'[b] = area[b]
    <3>1. area \in [Areas -> [cells : Seq(T), live : BOOLEAN]]
      BY <1>0 DEF TypeOK, T
    <3>2. [area[a] EXCEPT !.cells = cells] \in [cells : Seq(T), live : BOOLEAN]
      BY <2>3, <2>7, <3>1
    <3>3. [area[a] EXCEPT !.cells = cells].cells = cells
          /\ [area[a] EXCEPT !.cells = cells].live = area[a].live
      BY <2>3, <3>1
    <3> QED
      BY <2>3, <2>8, <3>1, <3>2, <3>3
  <2>10. TypeOK'
    <3>1. area' \in [Areas -> [cells : Seq(0..MaxWords), live : BOOLEAN]]
      BY <2>9 DEF T
    <3> QED
      BY <1>0, <1>1, <1>4, <2>4, <3>1 DEF TypeOK
  <2>11. Strs(we)' = Strs(we) /\ Strs(we0)' = Strs(we0) /\ Vec(we)' = Vec(we)
    BY <1>4 DEF Strs, Vec
  <2>12. Owners'
    <3>1. \A b \in Areas : area'[b].live = area[b].live
      BY <2>9
    <3> QED
      BY <1>0, <1>4, <2>11, <3>1 DEF Owners
  <2>13. Kept'
    <3>1. Strs(we0) # Null => area'[Strs(we0)] = area[Strs(we0)]
      BY <1>0, <2>3, <2>9, Places0 DEF Owners
    <3> QED
      BY <1>0, <1>1, <1>4, <3>1, KeptStays DEF Vec
  <2>14. Progress'
    <3>1. Old' = Old /\ Appends' = Appends
      BY <1>1 DEF Old, Appends
    <3>2. Pointers(we, sofs)'
      BY <1>1, <1>4, <2>1, <2>11 DEF Pointers, Slots
    <3>3. Cells(we, sofs + nwords, Old)'
      <4>1. \A i \in 1..Len(Old) : cells[i] = Old[i]
        BY <2>1, <2>4, <2>5, <2>7
      <4>2. Begins(cells, sofs + nwords, Old)
        BY <2>7, <4>1 DEF Begins
      <4> QED
        BY <1>1, <2>3, <2>9, <2>11, <3>1, <4>2 DEF Cells
    <3>4. \A j \in 1..nwords : cells[sofs + j] = ((next + nwords) - nwords) + j - 1
      BY <2>4, <2>7
    <3>5. \A j \in 1..nwords' : area'[Strs(we)'].cells[sofs' + j] = (next' - nwords') + j - 1
      BY <1>1, <1>4, <2>3, <2>9, <2>11, <3>4, SMTT(20), ZenonT(20)
    <3>6. (Appends => Reserved(Vec(we)))'
      BY <2>1, <2>11, <3>1 DEF Reserved
    <3> QED
      BY <1>1, <1>4, <2>1, <2>4, <3>1, <3>2, <3>3, <3>5, <3>6 DEF Progress
  <2> QED
    BY <2>10, <2>12, <2>13, <2>14 DEF WordexpInv
<1> QED
  BY <1>2, <1>3, <1>4 DEF ReadWords

LEMMA Concatenated ==
    ASSUME NEW s \in Seq(1..MaxWords), NEW t \in Seq(1..MaxWords)
    PROVE  /\ s \o t \in Seq(1..MaxWords) /\ Len(s \o t) = Len(s) + Len(t)
           /\ \A i \in 1..(Len(s) + Len(t)) :
                 (s \o t)[i] = IF i <= Len(s) THEN s[i] ELSE t[i - Len(s)]
  OBVIOUS

\* What the pointers stored by Split and SplitFails are.
LEMMA StoredIs ==
    ASSUME WordexpInv, pc = "split", NEW wi, wi = Vec(we), NEW k \in 0..nwords
    PROVE  /\ Stored(wi, k) \in Seq(Pointer)
           /\ Len(Stored(wi, k)) = Offset + (sofs + nwords) + 1
           /\ \A i \in 1..(Offset + (sofs + nwords) + 1) :
                 /\ i <= Offset => Stored(wi, k)[i] = NullPointer
                 /\ (Offset < i /\ i <= Offset + (sofs + k)) =>
                       Stored(wi, k)[i] = [at |-> wi.wi_strings, off |-> i - Offset]
           /\ FinalVofs = Offset + sofs
<1>0. TypeOK /\ Progress
  BY DEF WordexpInv
<1>2. /\ vofs = IF Appends THEN Len(Old) + Offset ELSE 0
      /\ sofs = Len(Old) /\ we.we_wordc = sofs + nwords /\ Pointers(we, sofs)
      /\ Cells(we, sofs + nwords, Old) /\ (Appends => Reserved(Vec(we)))
  BY <1>0 DEF Progress
<1>3. wi \in We_int_t /\ Slots(wi, sofs + nwords, sofs) /\ wi.wi_strings \in Areas
  <2>1. we.we_wordv \in Vectors /\ we.we_wordv # Null
    BY <1>2, Basics DEF Pointers
  <2> QED
    BY <1>0, <1>2, <2>1 DEF Pointers, Cells, Strs, Vec, TypeOK
<1>4. sofs \in Nat /\ nwords \in Nat /\ Offset \in Nat /\ k \in Nat /\ k <= nwords
  BY <1>0, Basics DEF TypeOK
<1> DEFINE top == Offset + (sofs + nwords) + 1
<1>5. FinalVofs = Offset + sofs
  <2>1. CASE Appends
    BY <1>2, <1>4, <2>1 DEF FinalVofs
  <2>2. CASE ~Appends
    BY <1>2, <1>4, <2>2 DEF FinalVofs, Old
  <2> QED
    BY <2>1, <2>2
<1>6. /\ wi.wi_wordv \in Seq(Pointer) /\ DOMAIN wi.wi_wordv = 1..top /\ top \in Nat
      /\ \A i \in 1..top : wi.wi_wordv[i] \in Pointer
      /\ \A i \in 1..top : (Offset < i /\ i <= Offset + sofs) =>
            wi.wi_wordv[i] = [at |-> wi.wi_strings, off |-> i - Offset]
      /\ Appends => \A i \in 1..Offset : wi.wi_wordv[i] = NullPointer
  <2>1. wi.wi_wordv \in Seq(Pointer) /\ Len(wi.wi_wordv) = top /\ top \in Nat
    BY <1>3, <1>4 DEF Slots, We_int_t
  <2>2. DOMAIN wi.wi_wordv = 1..top /\ \A i \in 1..top : wi.wi_wordv[i] \in Pointer
    BY <2>1
  <2> QED
    BY <1>2, <1>3, <2>1, <2>2 DEF Slots, Reserved
<1> HIDE DEF top
<1> DEFINE it(i) == IF vofs = 0 /\ i <= Offset THEN NullPointer
                    ELSE IF FinalVofs < i /\ i <= FinalVofs + k
                    THEN [at |-> wi.wi_strings, off |-> sofs + (i - FinalVofs)]
                    ELSE wi.wi_wordv[i]
<1>7. Stored(wi, k) = [i \in 1..top |-> it(i)]
  BY <1>6 DEF Stored
<1>8. \A i \in 1..top : it(i) \in Pointer
  <2> SUFFICES ASSUME NEW i \in 1..top PROVE it(i) \in Pointer
    OBVIOUS
  <2>1. FinalVofs < i => sofs + (i - FinalVofs) \in Nat
    BY <1>4, <1>5, <1>6
  <2> QED
    BY <1>3, <1>6, <2>1, Basics
<1>9. ASSUME NEW i \in 1..top, i <= Offset PROVE it(i) = NullPointer
  <2>1. i \in 1..Offset /\ ~(FinalVofs < i)
    BY <1>4, <1>5, <1>6, <1>9
  <2>2. CASE vofs = 0
    BY <1>9, <2>2
  <2>3. CASE vofs # 0
    <3>1. Appends
      BY <1>2, <2>3
    <3> QED
      BY <1>6, <2>1, <2>3, <3>1
  <2> QED
    BY <2>2, <2>3
<1>10. ASSUME NEW i \in 1..top, Offset < i, i <= Offset + (sofs + k)
       PROVE  it(i) = [at |-> wi.wi_strings, off |-> i - Offset]
  <2>0. ~(i <= Offset) /\ i \in Nat
    BY <1>4, <1>6, <1>10
  <2>1. CASE FinalVofs < i
    <3>1. i <= FinalVofs + k /\ sofs + (i - FinalVofs) = i - Offset
      BY <1>4, <1>5, <1>10, <2>0
    <3> QED
      BY <2>0, <2>1, <3>1
  <2>2. CASE ~(FinalVofs < i)
    <3>1. i <= Offset + sofs
      BY <1>4, <1>5, <2>0, <2>2
    <3> QED
      BY <1>6, <1>10, <2>0, <2>2, <3>1
  <2> QED
    BY <2>1, <2>2
<1> HIDE DEF it
<1>11. /\ Stored(wi, k) \in Seq(Pointer) /\ Len(Stored(wi, k)) = top
       /\ \A i \in 1..top : Stored(wi, k)[i] = it(i)
  BY <1>6, <1>7, <1>8
<1> QED
  BY <1>5, <1>9, <1>10, <1>11 DEF top

\* The call's vector, with other pointers in it, is handed to the caller.
LEMMA VectorPassed ==
    ASSUME WordexpInv, we.we_wordv \in Vectors, Strs(we) \in Areas, NEW put \in Seq(Pointer),
           vector' = [Keeping EXCEPT ![we.we_wordv] = [Vec(we) EXCEPT !.wi_wordv = put]],
           area' = KeepingArea,
           left' = IF "REUSE" \in flags THEN left ELSE left \union Owned(we0),
           we0' = we, we' = Empty
    PROVE  /\ Owners'
           /\ vector' \in [Vectors -> We_int_t]
           /\ area' \in [Areas -> [cells : Seq(0..MaxWords), live : BOOLEAN]]
           /\ left' \subseteq Vectors \union Areas
           /\ we0' \in Wordexp_t /\ we' \in Wordexp_t
           /\ Vec(we0)' = [Vec(we) EXCEPT !.wi_wordv = put]
           /\ Strs(we0)' = Strs(we) /\ area'[Strs(we)] = area[Strs(we)]
<1>0. TypeOK /\ Owners /\ we.we_wordv # Null /\ Strs(we) # Null
  BY Basics DEF WordexpInv
<1> DEFINE new == [Vec(we) EXCEPT !.wi_wordv = put]
<1>9. /\ new \in We_int_t /\ new.live = Vec(we).live /\ new.wi_strings = Vec(we).wi_strings
  <2>1. Vec(we) \in We_int_t
    BY <1>0 DEF Vec, TypeOK
  <2> QED
    BY <2>1 DEF We_int_t
<1>10. vector' = [Keeping EXCEPT ![we.we_wordv] = new]
  OBVIOUS
<1> HIDE DEF new
<1>11. /\ vector' \in [Vectors -> We_int_t] /\ vector'[we.we_wordv] = new
       /\ \A v \in Vectors : v # we.we_wordv => vector'[v] = Keeping[v]
  BY <1>0, <1>9, <1>10, KeepingIs
<1>12. we.we_wordv # we0.we_wordv /\ Strs(we) # Strs(we0)
  BY <1>0 DEF Owners
<1>13. area'[Strs(we)] = area[Strs(we)]
  BY <1>0, <1>12, KeepingIs
<1>14. Owners'
  <2>1. \A v \in Vectors : vector'[v].live <=>
              (vector[v].live /\ ("REUSE" \in flags => v # we0.we_wordv))
    <3> SUFFICES ASSUME NEW v \in Vectors
                 PROVE  vector'[v].live <=>
                          (vector[v].live /\ ("REUSE" \in flags => v # we0.we_wordv))
      OBVIOUS
    <3>1. CASE v = we.we_wordv
      BY <1>9, <1>11, <1>12, <3>1 DEF Vec
    <3>2. CASE v # we.we_wordv
      <4>1. vector'[v] = Keeping[v]
        BY <1>11, <3>2
      <4>2. Keeping[v] = IF "REUSE" \in flags /\ v = we0.we_wordv THEN Free ELSE vector[v]
        BY <1>0, KeepingIs
      <4> QED
        BY <4>1, <4>2, Basics
    <3> QED
      BY <3>1, <3>2
  <2>2. \A a \in Areas : area'[a].live <=>
              (area[a].live /\ ("REUSE" \in flags => a # Strs(we0)))
    BY <1>0, KeepingIs, Basics
  <2>3. we.we_wordv # Null => vector'[we.we_wordv].wi_strings = Vec(we).wi_strings
    BY <1>9, <1>11
  <2>4. we0'.we_wordv = we.we_wordv
    OBVIOUS
  <2> QED
    BY <1>0, <2>1, <2>2, <2>3, <2>4, HandedOver
<1>15. area' \in [Areas -> [cells : Seq(0..MaxWords), live : BOOLEAN]]
  BY <1>0, KeepingIs
<1>16. left' \subseteq Vectors \union Areas
  BY <1>0, OwnedIs, Places0
<1>17. we0' \in Wordexp_t /\ we' \in Wordexp_t
  BY <1>0, Basics DEF TypeOK
<1>18. Vec(we0)' = new /\ Strs(we0)' = Strs(we)
  BY <1>0, <1>9, <1>11 DEF Vec, Strs
<1> QED
  BY <1>11, <1>13, <1>14, <1>15, <1>16, <1>17, <1>18 DEF new

LEMMA StepSplitFails == WordexpInv /\ SplitFails => WordexpInv'
<1> SUFFICES ASSUME WordexpInv, SplitFails PROVE WordexpInv'
  OBVIOUS
<1>0. TypeOK /\ Progress /\ pc = "split"
  BY DEF WordexpInv, SplitFails
<1>1. PICK k \in 1..nwords :
         vector' = [Keeping EXCEPT ![we.we_wordv] = [Vec(we) EXCEPT !.wi_wordv = Stored(Vec(we), k)]]
  BY DEF SplitFails, Keeping, Vec
<1>2. /\ area' = KeepingArea /\ we0' = we /\ we' = Empty /\ spoilt' = TRUE /\ pc' = "idle"
      /\ left' = IF "REUSE" \in flags THEN left ELSE left \union Owned(we0)
      /\ UNCHANGED <<flags, nwords, vofs, sofs, next, expected>>
  BY DEF SplitFails, KeepingArea
<1>3. we.we_wordv \in Vectors /\ Strs(we) \in Areas
  BY <1>0 DEF Progress, Pointers, Cells
<1>4. Stored(Vec(we), k) \in Seq(Pointer)
  <2>1. k \in 0..nwords
    BY <1>0 DEF TypeOK
  <2> QED
    BY <1>0, <2>1, StoredIs
<1>5. /\ Owners'
      /\ vector' \in [Vectors -> We_int_t]
      /\ area' \in [Areas -> [cells : Seq(0..MaxWords), live : BOOLEAN]]
      /\ left' \subseteq Vectors \union Areas
      /\ we0' \in Wordexp_t /\ we' \in Wordexp_t
  BY <1>1, <1>2, <1>3, <1>4, VectorPassed
<1>6. TypeOK'
  BY <1>0, <1>2, <1>5 DEF TypeOK
<1>7. Kept' /\ Progress'
  BY <1>2 DEF Kept, Progress
<1> QED
  BY <1>5, <1>6, <1>7 DEF WordexpInv

LEMMA StepSplit == WordexpInv /\ Split => WordexpInv'
<1> SUFFICES ASSUME WordexpInv, Split PROVE WordexpInv'
  OBVIOUS
<1>0. TypeOK /\ Owners /\ Kept /\ Progress
  BY DEF WordexpInv
<1> DEFINE stored == Stored(Vec(we), nwords)
           put == [stored EXCEPT ![FinalVofs + nwords + 1] = NullPointer]
           new == [Vec(we) EXCEPT !.wi_wordv = put]
           more == [i \in 1..nwords |-> next - nwords + i - 1]
<1>1. /\ pc = "split" /\ pc' = "idle" /\ we0' = we /\ we' = Empty
      /\ UNCHANGED <<flags, nwords, vofs, sofs, next, spoilt>>
      /\ vector' = [Keeping EXCEPT ![we.we_wordv] = new] /\ area' = KeepingArea
      /\ left' = IF "REUSE" \in flags THEN left ELSE left \union Owned(we0)
      /\ expected' = Old \o more
  BY DEF Split, Keeping, KeepingArea, Old, Appends, Vec
<1>2. /\ ~spoilt
      /\ sofs = Len(Old) /\ we.we_wordc = sofs + nwords /\ Pointers(we, sofs)
      /\ Cells(we, sofs + nwords, Old) /\ nwords < next
      /\ \A j \in 1..nwords : area[Strs(we)].cells[sofs + j] = (next - nwords) + j - 1
  BY <1>0, <1>1 DEF Progress
<1>3. /\ we.we_wordv \in Vectors /\ we.we_wordv # Null /\ Strs(we) \in Areas
      /\ Vec(we) \in We_int_t /\ Vec(we).wi_nbytes = sofs + nwords
  BY <1>0, <1>2, Basics DEF Pointers, Cells, Slots, Vec, TypeOK
<1>4. /\ sofs \in Nat /\ nwords \in Nat /\ Offset \in Nat /\ next \in Nat
      /\ MaxWords \in Nat /\ next <= MaxWords + 1 /\ sofs + nwords \in Nat
      /\ Old \in Seq(1..MaxWords) /\ nwords \in 0..nwords
  <2>1. Old \in Seq(1..MaxWords)
    <3>1. << >> \in Seq(1..MaxWords) /\ expected \in Seq(1..MaxWords)
      BY <1>0 DEF TypeOK
    <3> QED
      BY <3>1 DEF Old
  <2>2. sofs \in Nat /\ nwords \in Nat /\ Offset \in Nat /\ next \in Nat
        /\ MaxWords \in Nat /\ next <= MaxWords + 1
    BY <1>0, Basics DEF TypeOK
  <2> QED
    BY <2>1, <2>2
<1> DEFINE top == Offset + (sofs + nwords) + 1
<1>5. /\ stored \in Seq(Pointer) /\ Len(stored) = top /\ FinalVofs = Offset + sofs
      /\ \A i \in 1..top :
            /\ i <= Offset => stored[i] = NullPointer
            /\ (Offset < i /\ i <= Offset + (sofs + nwords)) =>
                  stored[i] = [at |-> Vec(we).wi_strings, off |-> i - Offset]
  BY <1>1, <1>4, StoredIs
<1>6. FinalVofs + nwords + 1 = top /\ top \in Nat /\ top \in 1..top
  BY <1>4, <1>5
<1> HIDE DEF stored
<1>7. /\ put \in Seq(Pointer) /\ Len(put) = top /\ put[top] = NullPointer
      /\ \A i \in 1..top : i # top => put[i] = stored[i]
  <2> HIDE DEF top
  <2> QED
    BY <1>5, <1>6, Basics
<1> HIDE DEF put
<1>9. new.wi_strings = Vec(we).wi_strings /\ new.wi_nbytes = Vec(we).wi_nbytes
      /\ new.wi_wordv = put
  BY <1>3 DEF We_int_t
<1>10. Slots(new, sofs + nwords, sofs + nwords) /\ Closed(new, sofs + nwords)
  <2>1. \A i \in 1..top : (Offset < i /\ i <= Offset + (sofs + nwords)) =>
            put[i] = [at |-> Vec(we).wi_strings, off |-> i - Offset]
    <3>1. \A i \in 1..top : i <= Offset + (sofs + nwords) => i # top
      BY <1>4
    <3> HIDE DEF top
    <3> QED
      BY <1>5, <1>7, <3>1
  <2>2. \A i \in 1..Offset : put[i] = NullPointer
    <3>1. \A i \in 1..Offset : i \in 1..top /\ i # top /\ i <= Offset
      BY <1>4
    <3> QED
      BY <1>5, <1>7, <3>1
  <2>3. Slots(new, sofs + nwords, sofs + nwords)
    BY <1>3, <1>7, <1>9, <2>1 DEF Slots
  <2> QED
    BY <1>7, <1>9, <2>2, <2>3 DEF Closed, Reserved
<1>14. /\ Owners'
       /\ vector' \in [Vectors -> We_int_t]
       /\ area' \in [Areas -> [cells : Seq(0..MaxWords), live : BOOLEAN]]
       /\ left' \subseteq Vectors \union Areas
       /\ we0' \in Wordexp_t /\ we' \in Wordexp_t
       /\ Vec(we0)' = new /\ Strs(we0)' = Strs(we) /\ area'[Strs(we)] = area[Strs(we)]
  BY <1>1, <1>3, <1>7, VectorPassed
<1> HIDE DEF new
<1>15. more \in Seq(1..MaxWords) /\ Len(more) = nwords
       /\ \A j \in 1..nwords : more[j] = next - nwords + j - 1
  <2>1. \A i \in 1..nwords : next - nwords + i - 1 \in 1..MaxWords
    BY <1>2, <1>4
  <2> DEFINE W == 1..MaxWords
  <2>2. \A i \in 1..nwords : next - nwords + i - 1 \in W
    BY <2>1
  <2> HIDE DEF W
  <2>3. more \in Seq(W) /\ Len(more) = nwords
    BY <1>4, <2>2
  <2> QED
    BY <2>3 DEF W
<1> HIDE DEF more
<1>16. /\ expected' \in Seq(1..MaxWords) /\ Len(expected') = sofs + nwords
       /\ \A i \in 1..(sofs + nwords) :
             expected'[i] = IF i <= sofs THEN Old[i] ELSE more[i - sofs]
  BY <1>1, <1>2, <1>4, <1>15, Concatenated
<1>17. TypeOK'
  BY <1>0, <1>1, <1>14, <1>16 DEF TypeOK
<1>19. Pointers(we0, Len(expected))'
  BY <1>1, <1>2, <1>3, <1>10, <1>14, <1>16 DEF Pointers, Slots
<1>20. Cells(we0, Len(expected), expected)'
  <2> DEFINE cells == area[Strs(we)].cells
  <2>1. Len(cells) = sofs + nwords /\ \A i \in 1..sofs : cells[i] = Old[i]
    BY <1>2 DEF Cells, Begins
  <2>2. ASSUME NEW i \in 1..(sofs + nwords) PROVE cells[i] = expected'[i]
    <3>1. CASE i <= sofs
      <4>1. i \in 1..sofs
        BY <1>4, <3>1
      <4>2. cells[i] = Old[i]
        BY <2>1, <4>1
      <4>3. expected'[i] = Old[i]
        BY <1>16, <3>1
      <4> QED
        BY <4>2, <4>3
    <3>2. CASE i > sofs
      <4>1. i - sofs \in 1..nwords /\ sofs + (i - sofs) = i
        BY <1>4, <3>2
      <4>2. cells[i] = (next - nwords) + (i - sofs) - 1
        BY <1>2, <4>1
      <4>3. expected'[i] = next - nwords + (i - sofs) - 1
        BY <1>4, <1>15, <1>16, <3>2, <4>1
      <4> QED
        BY <4>2, <4>3
    <3> QED
      BY <1>4, <3>1, <3>2
  <2>3. Begins(cells, sofs + nwords, expected')
    BY <1>16, <2>1, <2>2 DEF Begins
  <2> QED
    BY <1>3, <1>14, <1>16, <2>3 DEF Cells
<1>21. Kept'
  <2>1. Has(we0, expected)'
    BY <1>1, <1>2, <1>10, <1>14, <1>16, <1>19, <1>20 DEF Has, Closed, Reserved
  <2>2. we0'.we_wordv # Null
    BY <1>1, <1>3
  <2> QED
    BY <2>1, <2>2 DEF Kept
<1>22. Progress'
  BY <1>1 DEF Progress
<1> QED
  BY <1>14, <1>17, <1>21, <1>22 DEF WordexpInv

--------------------------------------------------------------------------------
LEMMA InitHolds == Init => WordexpInv
<1> SUFFICES ASSUME Init PROVE WordexpInv
  OBVIOUS
<1>1. /\ << >> \in Seq(1..MaxWords)
      /\ [v \in Vectors |-> Free] \in [Vectors -> We_int_t]
      /\ [a \in Areas |-> FreeArea] \in [Areas -> [cells : Seq(0..MaxWords), live : BOOLEAN]]
      /\ 0 \in 0..MaxNew /\ 1 \in 1..(MaxWords + 1)
  BY Basics
<1>2. TypeOK
  BY <1>1, Basics DEF Init, TypeOK
<1>3. Owners
  BY Basics DEF Init, Owners, Strs
<1>4. Kept
  BY Basics DEF Init, Kept
<1>5. Progress
  BY DEF Init, Progress
<1> QED
  BY <1>2, <1>3, <1>4, <1>5 DEF WordexpInv

LEMMA StepHolds == WordexpInv /\ [Next]_vars => WordexpInv'
<1> SUFFICES ASSUME WordexpInv, [Next]_vars PROVE WordexpInv'
  OBVIOUS
<1>1. CASE UNCHANGED vars
  BY <1>1, SMTT(20), ZenonT(20) DEF vars, WordexpInv, TypeOK, Owners, Kept, Progress, Has, Pointers, Cells, Slots,
              Begins, Vec, Strs, Old, Appends, Closed, Reserved
<1> QED
  BY <1>1, StepWordfree, StepCall, StepCopyOld, StepAskShell, StepGrowVector,
     StepGrowVectorFails, StepGrowStrings, StepReadWords, StepSplit, StepSplitFails DEF Next

\* What the caller reads through its pointers is what the calls promised.
LEMMA KeptIsSeen == TypeOK /\ Owners /\ Kept => CallerSeesItsWords
<1> SUFFICES ASSUME TypeOK, Owners, Kept, ~spoilt PROVE
        /\ we0.we_wordc = Len(expected)
        /\ we0.we_wordv # Null =>
              LET wordv == vector[we0.we_wordv].wi_wordv IN
              /\ Len(wordv) = Offset + we0.we_wordc + 1
              /\ \A i \in 1..Offset : wordv[i] = NullPointer
              /\ \A i \in 1..we0.we_wordc : Word(wordv[Offset + i]) = expected[i]
              /\ wordv[Len(wordv)] = NullPointer
  BY DEF CallerSeesItsWords
<1>1. CASE we0.we_wordv = Null
  BY <1>1 DEF Kept
<1>2. CASE we0.we_wordv # Null
  <2> DEFINE wordv == vector[we0.we_wordv].wi_wordv
  <2>1. /\ we0.we_wordc = Len(expected) /\ Strs(we0) \in Areas /\ Strs(we0) # Null
        /\ Vec(we0).wi_strings = Strs(we0) /\ Vec(we0).wi_wordv = wordv
        /\ Slots(Vec(we0), Len(expected), Len(expected)) /\ Closed(Vec(we0), Len(expected))
        /\ Begins(area[Strs(we0)].cells, Len(expected), expected)
    BY <1>2, Basics DEF Kept, Has, Pointers, Cells, Strs, Vec
  <2>2. area[Strs(we0)].live
    BY <2>1 DEF Owners
  <2>3. Len(expected) \in Nat /\ Offset \in Nat
    BY Basics DEF TypeOK
  <2>4. /\ Len(wordv) = Offset + Len(expected) + 1
        /\ \A i \in 1..(Offset + Len(expected) + 1) :
              (Offset < i /\ i <= Offset + Len(expected)) =>
                 wordv[i] = [at |-> Strs(we0), off |-> i - Offset]
        /\ Reserved(Vec(we0)) /\ wordv[Offset + Len(expected) + 1] = NullPointer
    BY <2>1 DEF Slots, Closed
  <2> HIDE DEF wordv
  <2>5. (\A i \in 1..Offset : wordv[i] = NullPointer) /\ wordv[Len(wordv)] = NullPointer
    <3>1. \A i \in 1..Offset : wordv[i] = NullPointer
      BY <2>1, <2>4 DEF Reserved
    <3> QED
      BY <2>4, <3>1
  <2>6. ASSUME NEW i \in 1..Len(expected) PROVE Word(wordv[Offset + i]) = expected[i]
    <3>1. wordv[Offset + i] = [at |-> Strs(we0), off |-> i]
      <4>1. /\ Offset + i \in 1..(Offset + Len(expected) + 1) /\ (Offset + i) - Offset = i
            /\ Offset < Offset + i /\ Offset + i <= Offset + Len(expected)
        BY <2>3
      <4> QED
        BY <2>4, <4>1
    <3> QED
      BY <2>1, <2>2, <3>1 DEF Word, Begins
  <2> QED
    BY <2>1, <2>4, <2>5, <2>6 DEF wordv
<1> QED
  BY <1>1, <1>2

LEMMA InvariantHolds == Spec => []WordexpInv
  BY InitHolds, StepHolds, PTL DEF Spec

\* Type correctness: wordexp and wordfree keep both wordexp_t and the heap well
\* formed, whatever flags the calls have and however they end (lines 96-160).
THEOREM TypeCorrect == Spec => []TypeOK
<1>1. WordexpInv => TypeOK
  BY DEF WordexpInv
<1> QED
  BY <1>1, InvariantHolds, PTL

\* Every block malloc returned is the caller's, the call's, or one an APPEND
\* without REUSE replaced, and never of two of them (lines 102-119, 138-157).
THEOREM BlocksCorrect == Spec => []BlocksHaveOneOwner
<1>1. WordexpInv => BlocksHaveOneOwner
  BY Blocks DEF WordexpInv
<1> QED
  BY <1>1, InvariantHolds, PTL

\* The caller finds the words of its calls, in order, behind we_offs empty slots
\* and before a NULL, for any offsets, flags and sequence of calls and failures
\* but WRDE_NOSPACE (lines 99-157, 349-466).
THEOREM WordsCorrect == Spec => []CallerSeesItsWords
<1>1. WordexpInv => CallerSeesItsWords
  BY KeptIsSeen DEF WordexpInv
<1> QED
  BY <1>1, InvariantHolds, PTL

--------------------------------------------------------------------------------
(* The exchange with the shell: what is true throughout.                   *)

\* Where the parent is says what it has open and what became of the shell.
Phase ==
    /\ asking \in {"call", "spawn"} => shell = "none"
    /\ asking = "call" => fds = {}
    /\ asking \in {"spawn", "close"} => fds = Ends
    /\ asking \in {"count", "words", "errors", "cleanup"} => fds = {"pdes0", "perr0"}
    /\ asking \in {"close", "count", "words", "errors", "cleanup", "wait"} =>
          shell \in {"running", "zombie"}
    /\ asking \in {"wait", "decide"} => fds = {}
    /\ asking = "decide" => shell = "reaped" /\ ~blocked
    /\ asking \notin {"cleanup", "wait", "done"} => result = "none"
    /\ result = "ok" => asking = "done"

\* Before the counts are read, the pipe begins with them; after, it holds words.
Counted == result = "none" /\ asking \notin {"call", "spawn", "close", "count"}

OutIs ==
    /\ asking \in {"call", "spawn", "close", "count"} =>
        /\ got = 0
        /\ out = << >> => printed = 0
        /\ out # << >> => /\ out[1] = "count" /\ printed + 1 = Len(out)
                          /\ \A i \in 2..Len(out) : out[i] = "word"
    /\ Counted \/ result = "ok" =>
        /\ printed = got + Len(out)
        /\ \A i \in 1..Len(out) : out[i] = "word"
    /\ (asking \in {"errors", "decide"} \/ (asking \in {"cleanup", "wait"} /\ result = "none")
        \/ result = "ok") => got = announced
    /\ result = "ok" => shell = "reaped" /\ status = 0 /\ ~Contains(err_buf, "error")

\* The counts are still to come exactly as long as nothing is on its way.
ScriptIs ==
    /\ printed + Cardinality(At("word", script)) <= announced
    /\ \A i, j \in At("count", script) : i = j
    /\ out = << >> /\ asking \in {"call", "spawn", "close", "count"} =>
          \A i \in At("word", script) : \E j \in At("count", script) : j < i
    /\ out # << >> /\ asking \in {"call", "spawn", "close", "count"} => At("count", script) = {}
    /\ Counted => At("count", script) = {}

ShellInv == AskTypeOK /\ Phase /\ OutIs /\ ScriptIs /\ NothingLeftBehind /\ SuccessIsComplete

--------------------------------------------------------------------------------
(* Sequences and sets.                                                     *)

\* Where a piece is in what is left after the first one is printed.
LEMMA AtTail ==
    ASSUME NEW S, NEW s \in Seq(S), s # << >>, NEW p
    PROVE  /\ At(p, Tail(s)) = {i \in 1..(Len(s) - 1) : i + 1 \in At(p, s)}
           /\ Cardinality(At(p, s)) \in Nat /\ Cardinality(At(p, Tail(s))) \in Nat
           /\ Cardinality(At(p, Tail(s))) =
                 IF Head(s) = p THEN Cardinality(At(p, s)) - 1 ELSE Cardinality(At(p, s))
<1>1. /\ Len(s) \in Nat \ {0} /\ Tail(s) \in Seq(S) /\ Len(Tail(s)) = Len(s) - 1
      /\ \A i \in 1..(Len(s) - 1) : Tail(s)[i] = s[i + 1]
      /\ Head(s) = s[1] /\ DOMAIN s = 1..Len(s) /\ DOMAIN Tail(s) = 1..(Len(s) - 1)
  OBVIOUS
<1>2. At(p, Tail(s)) = {i \in 1..(Len(s) - 1) : i + 1 \in At(p, s)}
  BY <1>1 DEF At
<1>3. IsFiniteSet(At(p, s)) /\ IsFiniteSet(At(p, s) \ {1})
  <2>1. IsFiniteSet(1..Len(s))
    BY <1>1, FS_Interval
  <2>2. At(p, s) \in SUBSET (1..Len(s)) /\ At(p, s) \ {1} \in SUBSET (1..Len(s))
    BY <1>1 DEF At
  <2> QED
    BY <2>1, <2>2, FS_Subset
<1>4. Cardinality(At(p, s) \ {1}) =
          IF Head(s) = p THEN Cardinality(At(p, s)) - 1 ELSE Cardinality(At(p, s))
  <2>1. 1 \in At(p, s) <=> Head(s) = p
    BY <1>1 DEF At
  <2> QED
    BY <1>3, <2>1, FS_RemoveElement
<1>5. ExistsBijection(At(p, s) \ {1}, At(p, Tail(s)))
  <2> DEFINE A == At(p, s) \ {1}
             B == At(p, Tail(s))
             f == [i \in A |-> i - 1]
  <2>1. \A i \in A : i \in 2..Len(s) /\ i - 1 \in B
    BY <1>1, <1>2 DEF At
  <2>2. \A j \in B : j + 1 \in A /\ f[j + 1] = j /\ j \in Nat
    BY <1>1, <1>2
  <2>3. f \in [A -> B] /\ \A i, j \in A : f[i] = f[j] => i = j
    BY <2>1
  <2>4. f \in Bijection(A, B)
    BY <2>2, <2>3 DEF Bijection, Injection, Surjection, IsInjective
  <2> QED
    BY <2>4 DEF ExistsBijection
<1>6. /\ IsFiniteSet(At(p, Tail(s)))
      /\ Cardinality(At(p, Tail(s))) = Cardinality(At(p, s) \ {1})
  BY <1>3, <1>5, FS_Bijection
<1> QED
  BY <1>2, <1>3, <1>4, <1>6, FS_CardinalityType

\* At the end of a script nothing is left.
LEMMA AtEmpty == \A p : At(p, << >>) = {} /\ Cardinality(At(p, << >>)) = 0
BY FS_EmptySet DEF At

LEMMA MinOfTwo ==
    ASSUME NEW a \in Nat, NEW b \in Nat
    PROVE  Min({a, b}) \in Nat /\ Min({a, b}) <= a /\ Min({a, b}) <= b
<1>1. \E x \in {a, b} : \A y \in {a, b} : x <= y
  OBVIOUS
<1> QED
  BY <1>1 DEF Min

\* A pipe that a piece enters, or leaves.
LEMMA PieceIn ==
    ASSUME NEW s \in Seq(Piece), NEW x \in Piece, Len(s) < Capacity
    PROVE  /\ Append(s, x) \in Seq(Piece) /\ Len(Append(s, x)) <= Capacity
           /\ Len(Append(s, x)) = Len(s) + 1 /\ Append(s, x) # << >>
           /\ Append(s, x)[Len(s) + 1] = x
           /\ \A i \in 1..Len(s) : Append(s, x)[i] = s[i]
BY OutputAssumption

LEMMA PieceOut ==
    ASSUME NEW s \in Seq(Piece), s # << >>
    PROVE  /\ Tail(s) \in Seq(Piece) /\ Len(Tail(s)) = Len(s) - 1 /\ Len(s) \in Nat \ {0}
           /\ Head(s) \in Piece /\ Head(s) = s[1]
           /\ \A i \in 1..(Len(s) - 1) : Tail(s)[i] = s[i + 1]
OBVIOUS

--------------------------------------------------------------------------------
(* The steps.                                                              *)

\* What ShellPrints does when somebody reads, and when nobody does.
Prints(piece) ==
    /\ shell = "running" /\ script # << >> /\ piece = Head(script)
    /\ script' = Tail(script) /\ status' = status
    /\ \/ /\ piece \in {"count", "word"} /\ "pdes0" \in fds /\ Len(out) < Capacity
          /\ out' = Append(out, piece) /\ errs' = errs
       \/ /\ piece \notin {"count", "word"} /\ "perr0" \in fds /\ Len(errs) < Capacity
          /\ errs' = Append(errs, piece) /\ out' = out
    /\ printed' = IF piece = "word" THEN printed + 1 ELSE printed
    /\ complained' = (complained \/ piece = "error")
    /\ UNCHANGED <<asking, blocked, fds, shell, announced, got, err_buf, garbage, result>>

IsKilled ==
    /\ shell = "running" /\ script # << >>
    /\ script' = << >> /\ status' = 1
    /\ UNCHANGED <<asking, blocked, fds, shell, announced, out, errs, got, err_buf, garbage, result,
                   printed, complained>>

LEMMA PrintsOrKilled ==
    ASSUME ShellPrints
    PROVE  IsKilled \/ Prints(Head(script))
BY DEF ShellPrints, ToOut, Prints, IsKilled

LEMMA StepType ==
    ASSUME ShellInv, AskNext
    PROVE  AskTypeOK'
<1>0. /\ AskTypeOK /\ Phase /\ OutIs /\ ScriptIs /\ Capacity \in Nat \ {0} /\ ErrBuf \in Nat \ {0}
      /\ announced \in Nat /\ printed \in 0..announced /\ got \in 0..announced
  BY OutputAssumption DEF ShellInv, AskTypeOK
<1>1. CASE OpenPipes \/ Spawn \/ CloseWriteEnds \/ NoMemory \/ Cleanup \/ Wait \/ Decide
           \/ ReadErrorsInterrupted \/ ShellExits
  <2>1. UNCHANGED <<script, announced, status, out, errs, got, err_buf, garbage, printed, complained>>
    BY <1>1 DEF OpenPipes, Spawn, CloseWriteEnds, NoMemory, Cleanup, Wait, Decide,
                ReadErrorsInterrupted, ShellExits, theShell
  <2>2. /\ asking' \in {"call", "pipe", "spawn", "close", "count", "words", "errors", "cleanup",
                    "wait", "decide", "done"}
        /\ blocked' \in BOOLEAN /\ fds' \subseteq Ends
        /\ shell' \in {"none", "running", "zombie", "reaped"} /\ result' \in Results
    BY <1>0, <1>1 DEF OpenPipes, Spawn, CloseWriteEnds, NoMemory, Cleanup, Wait, Decide,
                      ReadErrorsInterrupted, ShellExits, theShell, AskTypeOK, Results
  <2> QED
    BY <1>0, <2>1, <2>2 DEF AskTypeOK
<1>2. CASE ReadCount \/ ReadAnnounced
  <2>0. out \in Seq(Piece) /\ Len(out) <= Capacity
    BY <1>0 DEF AskTypeOK
  <2>1. out' \in Seq(Piece) /\ Len(out') <= Capacity
    <3>1. out' = out \/ (out # << >> /\ out' = Tail(out))
      BY <1>2 DEF ReadCount, ReadAnnounced
    <3> QED
      BY <1>0, <2>0, <3>1, PieceOut
  <2>2. got' \in 0..announced
    BY <1>0, <1>2 DEF ReadCount, ReadAnnounced
  <2> QED
    BY <1>0, <1>2, <2>1, <2>2 DEF ReadCount, ReadAnnounced, AskTypeOK, Results
<1>3. CASE ReadErrors
  <2>1. CASE errs # << >>
    <3> DEFINE k == Min({ErrBuf, Len(errs)})
    <3>0. errs \in Seq(Piece) /\ Len(errs) \in Nat /\ Len(errs) <= Capacity /\ ErrBuf \in Nat
      BY <1>0 DEF AskTypeOK
    <3>1. k \in Nat /\ k <= ErrBuf /\ k <= Len(errs)
      BY <3>0, MinOfTwo
    <3>2. /\ err_buf' = SubSeq(errs, 1, k) \/ err_buf' = err_buf
          /\ errs' = SubSeq(errs, k + 1, Len(errs)) \/ errs' = errs
      BY <1>3 DEF ReadErrors
    <3> HIDE DEF k
    <3>3. SubSeq(errs, 1, k) \in Seq(Piece) /\ Len(SubSeq(errs, 1, k)) <= ErrBuf
      BY <3>0, <3>1
    <3>4. SubSeq(errs, k + 1, Len(errs)) \in Seq(Piece)
          /\ Len(SubSeq(errs, k + 1, Len(errs))) <= Capacity
      BY <1>0, <3>0, <3>1
    <3>5. errs' \in Seq(Piece) /\ Len(errs') <= Capacity
          /\ err_buf' \in Seq(Piece) /\ Len(err_buf') <= ErrBuf
      BY <1>0, <3>2, <3>3, <3>4 DEF AskTypeOK
    <3> QED
      BY <1>0, <1>3, <3>5 DEF ReadErrors, AskTypeOK
  <2>2. CASE errs = << >>
    BY <1>0, <1>3, <2>2 DEF ReadErrors, AskTypeOK
  <2> QED
    BY <2>1, <2>2
<1>4. CASE IsKilled
  BY <1>0, <1>4 DEF IsKilled, AskTypeOK
<1>5. CASE Prints(Head(script))
  <2>1. script \in Seq(Piece) /\ script # << >> /\ Head(script) \in Piece
    BY <1>0, <1>5 DEF Prints, AskTypeOK
  <2>2. /\ script' \in Seq(Piece) /\ out' \in Seq(Piece) /\ errs' \in Seq(Piece)
        /\ Len(out') <= Capacity /\ Len(errs') <= Capacity
    <3>1. out \in Seq(Piece) /\ errs \in Seq(Piece) /\ Len(out) <= Capacity /\ Len(errs) <= Capacity
      BY <1>0 DEF AskTypeOK
    <3>2. /\ script' = Tail(script)
          /\ out' = out \/ (out' = Append(out, Head(script)) /\ Len(out) < Capacity)
          /\ errs' = errs \/ (errs' = Append(errs, Head(script)) /\ Len(errs) < Capacity)
      BY <1>5 DEF Prints
    <3> QED
      BY <2>1, <3>1, <3>2, PieceIn, PieceOut, SMTT(20), ZenonT(20)
  <2>3. printed' \in 0..announced
    <3>1. Cardinality(At("word", script)) \in Nat /\ Cardinality(At("word", Tail(script))) \in Nat
          /\ (Head(script) = "word" =>
                Cardinality(At("word", Tail(script))) = Cardinality(At("word", script)) - 1)
      BY <2>1, AtTail
    <3> QED
      BY <1>0, <1>5, <3>1 DEF Prints, ScriptIs
  <2> QED
    BY <1>0, <1>5, <2>2, <2>3 DEF Prints, AskTypeOK
<1> QED
  BY <1>1, <1>2, <1>3, <1>4, <1>5, PrintsOrKilled DEF AskNext, Parent, Shell

\* Where the parent is, what is open, and what became of the shell go together.
LEMMA StepPhase ==
    ASSUME ShellInv, AskNext
    PROVE  Phase' /\ NothingLeftBehind'
<1>0. Phase /\ NothingLeftBehind /\ fds \subseteq Ends
  BY DEF ShellInv, AskTypeOK
<1>1. CASE OpenPipes \/ Spawn \/ CloseWriteEnds
  BY <1>0, <1>1 DEF OpenPipes, Spawn, CloseWriteEnds, theShell, Phase, NothingLeftBehind, Ends
<1>2. CASE ReadCount \/ ReadAnnounced \/ NoMemory
  BY <1>0, <1>2 DEF ReadCount, ReadAnnounced, NoMemory, theShell, Phase, NothingLeftBehind
<1>3. CASE ReadErrors \/ ReadErrorsInterrupted
  BY <1>0, <1>3 DEF ReadErrors, ReadErrorsInterrupted, theShell, Phase, NothingLeftBehind
<1>4. CASE Cleanup
  BY <1>0, <1>4 DEF Cleanup, theShell, Phase, NothingLeftBehind
<1>5. CASE Wait \/ Decide
  BY <1>0, <1>5 DEF Wait, Decide, theShell, Phase, NothingLeftBehind
<1>6. CASE IsKilled \/ Prints(Head(script)) \/ ShellExits
  BY <1>0, <1>6 DEF IsKilled, Prints, ShellExits, Phase, NothingLeftBehind
<1> QED
  BY <1>1, <1>2, <1>3, <1>4, <1>5, <1>6, PrintsOrKilled DEF AskNext, Parent, Shell

\* The pipe holds the counts and the words the parent has yet to read.
LEMMA StepOut ==
    ASSUME ShellInv, AskNext
    PROVE  OutIs'
<1>0. /\ OutIs /\ ScriptIs /\ Phase /\ announced \in Nat /\ got \in Nat /\ printed \in Nat
      /\ out \in Seq(Piece) /\ Len(out) \in Nat /\ script \in Seq(Piece)
  BY DEF ShellInv, AskTypeOK
<1>1. CASE OpenPipes \/ Spawn \/ CloseWriteEnds
  BY <1>0, <1>1 DEF OpenPipes, Spawn, CloseWriteEnds, theShell, OutIs, Counted, Phase
<1>2. CASE ReadCount
  <2>1. CASE out # << >> /\ out' = Tail(out) /\ asking' = "words" /\ result' = result
    <3>1. /\ got = 0 /\ printed + 1 = Len(out) /\ \A i \in 2..Len(out) : out[i] = "word"
          /\ asking = "count"
      BY <1>0, <1>2, <2>1 DEF OutIs, ReadCount
    <3>2. Len(out') = Len(out) - 1 /\ \A i \in 1..Len(out') : out'[i] = "word"
      BY <1>0, <2>1, <3>1, PieceOut
    <3>3. result = "none" /\ got' = 0 /\ printed' = printed
      BY <1>0, <1>2, <3>1 DEF Phase, ReadCount
    <3> QED
      BY <1>0, <2>1, <3>1, <3>2, <3>3 DEF OutIs, Counted
  <2>2. CASE result' = "SYNTAX" /\ asking' = "cleanup"
    BY <2>2 DEF OutIs, Counted
  <2> QED
    BY <1>2, <2>1, <2>2 DEF ReadCount
<1>3. CASE ReadAnnounced
  <2>0. asking = "words" /\ result = "none" /\ Counted
    BY <1>0, <1>3 DEF ReadAnnounced, Phase, Counted
  <2>1. CASE got = announced /\ asking' = "errors" /\ UNCHANGED <<out, got, result>>
    BY <1>0, <1>3, <2>0, <2>1 DEF ReadAnnounced, OutIs, Counted
  <2>2. CASE got < announced /\ out # << >> /\ got' = got + 1 /\ out' = Tail(out)
             /\ UNCHANGED <<asking, result>>
    <3>1. Len(out') = Len(out) - 1 /\ \A i \in 1..Len(out') : out'[i] = "word"
      BY <1>0, <2>0, <2>2, PieceOut DEF OutIs
    <3>2. printed' = got' + Len(out')
      BY <1>0, <1>3, <2>0, <2>2, <3>1 DEF OutIs, ReadAnnounced
    <3> QED
      BY <2>0, <2>2, <3>1, <3>2 DEF OutIs, Counted
  <2>3. CASE result' = "SYNTAX" /\ asking' = "cleanup"
    BY <2>3 DEF OutIs, Counted
  <2> QED
    BY <1>3, <2>1, <2>2, <2>3 DEF ReadAnnounced
<1>4. CASE NoMemory \/ ReadErrorsInterrupted
  BY <1>0, <1>4 DEF NoMemory, ReadErrorsInterrupted, theShell, OutIs, Counted
<1>5. CASE ReadErrors \/ Cleanup \/ Wait
  BY <1>0, <1>5 DEF ReadErrors, Cleanup, Wait, theShell, OutIs, Counted, Phase
<1>6. CASE Decide
  <2>1. /\ asking = "decide" /\ asking' = "done" /\ result = "none" /\ shell = "reaped" /\ Counted
        /\ UNCHANGED <<got, announced, out, printed, status, shell, err_buf>>
    BY <1>0, <1>6 DEF Decide, theShell, Phase, Counted
  <2>2. result' = "ok" => status = 0 /\ ~Contains(err_buf, "error")
    <3>1. ~Contains(<< >>, "error")
      BY DEF Contains
    <3> QED
      BY <1>6, <3>1 DEF Decide
  <2>3. result' # "none"
    BY <1>6 DEF Decide
  <2> QED
    BY <1>0, <2>1, <2>2, <2>3 DEF OutIs, Counted
<1>7. CASE IsKilled \/ ShellExits
  BY <1>0, <1>7 DEF IsKilled, ShellExits, OutIs, Counted
<1>8. CASE Prints(Head(script))
  <2>0. /\ script # << >> /\ shell = "running" /\ result # "ok" /\ result' = result /\ asking' = asking
        /\ got' = got /\ announced' = announced
    BY <1>0, <1>8 DEF Prints, OutIs
  <2>1. Head(script) \in Piece /\ Head(script) = script[1] /\ 1 \in DOMAIN script
    BY <1>0, <2>0, PieceOut
  <2>2. CASE out' = out
    <3>1. printed' = printed
      BY <1>8, <2>2, <1>0, <2>1, PieceIn DEF Prints
    <3> QED
      BY <1>0, <2>0, <2>2, <3>1 DEF OutIs, Counted
  <2>3. CASE Head(script) \in {"count", "word"} /\ out' = Append(out, Head(script))
             /\ Len(out) < Capacity
    <3>1. /\ Len(out') = Len(out) + 1 /\ out' # << >> /\ out'[Len(out) + 1] = Head(script)
          /\ \A i \in 1..Len(out) : out'[i] = out[i]
      BY <1>0, <2>1, <2>3, PieceIn
    <3>2. printed' = IF Head(script) = "word" THEN printed + 1 ELSE printed
      BY <1>8 DEF Prints
    <3>3. CASE asking \in {"call", "spawn", "close", "count"}
      <4>1. CASE out = << >>
        <5>1. Head(script) = "count"
          <6>1. 1 \notin At("word", script)
            BY <1>0, <3>3, <4>1 DEF ScriptIs, At
          <6> QED
            BY <2>1, <2>3, <6>1 DEF At
        <5>2. printed' = 0 /\ Len(out') = 1 /\ out'[1] = "count"
          BY <1>0, <3>1, <3>2, <3>3, <4>1, <5>1 DEF OutIs
        <5>3. got' = 0 /\ printed' + 1 = Len(out') /\ \A i \in 2..Len(out') : out'[i] = "word"
          BY <1>0, <2>0, <3>3, <5>2 DEF OutIs
        <5> QED
          BY <2>0, <3>1, <3>3, <5>2, <5>3, <1>0 DEF OutIs, Counted
      <4>2. CASE out # << >>
        <5>1. Head(script) = "word"
          BY <1>0, <2>1, <2>3, <3>3, <4>2 DEF ScriptIs, At
        <5>2. printed' + 1 = Len(out')
          BY <1>0, <3>1, <3>2, <3>3, <4>2, <5>1 DEF OutIs
        <5>3. out'[1] = "count" /\ Len(out) >= 1
          BY <1>0, <3>1, <3>3, <4>2 DEF OutIs
        <5>4. \A i \in 2..Len(out') : out'[i] = "word"
          BY <1>0, <3>1, <3>3, <4>2, <5>1 DEF OutIs
        <5> QED
          BY <1>0, <2>0, <3>1, <3>3, <5>2, <5>3, <5>4 DEF OutIs, Counted
      <4> QED
        BY <4>1, <4>2
    <3>4. CASE Counted
      <4>1. Head(script) = "word"
        BY <1>0, <2>1, <2>3, <3>4 DEF ScriptIs, At
      <4>2. printed' = got + Len(out')
        BY <1>0, <3>1, <3>2, <3>4, <4>1 DEF OutIs
      <4>3. \A i \in 1..Len(out') : out'[i] = "word"
        BY <1>0, <3>1, <3>4, <4>1 DEF OutIs
      <4> QED
        BY <1>0, <2>0, <3>4, <4>2, <4>3 DEF OutIs, Counted
    <3>5. CASE asking \notin {"call", "spawn", "close", "count"} /\ result # "none"
      BY <1>0, <2>0, <3>5 DEF OutIs, Counted, Phase
    <3> QED
      BY <3>3, <3>4, <3>5 DEF Counted
  <2> QED
    BY <1>8, <2>2, <2>3 DEF Prints
<1> QED
  BY <1>1, <1>2, <1>3, <1>4, <1>5, <1>6, <1>7, <1>8, PrintsOrKilled DEF AskNext, Parent, Shell

\* What the shell still has to print fits what it has printed.
LEMMA StepScript ==
    ASSUME ShellInv, AskNext
    PROVE  ScriptIs'
<1>0. /\ OutIs /\ ScriptIs /\ Phase /\ announced \in Nat /\ printed \in Nat
      /\ out \in Seq(Piece) /\ script \in Seq(Piece) /\ Capacity \in Nat
  BY OutputAssumption DEF ShellInv, AskTypeOK
<1>1. CASE OpenPipes \/ Spawn \/ CloseWriteEnds
  BY <1>0, <1>1 DEF OpenPipes, Spawn, CloseWriteEnds, theShell, ScriptIs, Counted
<1>2. CASE ReadCount
  BY <1>0, <1>2 DEF ReadCount, ScriptIs, Counted
<1>3. CASE ReadAnnounced \/ NoMemory \/ ReadErrorsInterrupted \/ ReadErrors \/ Cleanup \/ Wait \/ Decide
  <2>1. /\ UNCHANGED <<script, printed, announced>> /\ asking' \notin {"call", "spawn", "close", "count"}
        /\ Counted' => Counted
    BY <1>0, <1>3 DEF ReadAnnounced, NoMemory, ReadErrorsInterrupted, ReadErrors, Cleanup, Wait, Decide,
                      theShell, Counted, Phase
  <2> QED
    BY <1>0, <2>1 DEF ScriptIs
<1>4. CASE ShellExits
  BY <1>0, <1>4 DEF ShellExits, ScriptIs, Counted
<1>5. CASE IsKilled
  <2>1. At("word", script') = {} /\ At("count", script') = {} /\ Cardinality(At("word", script')) = 0
    BY <1>5, AtEmpty DEF IsKilled
  <2>2. printed <= announced
    BY DEF ShellInv, AskTypeOK
  <2>3. announced' = announced /\ printed' = printed
    BY <1>5 DEF IsKilled
  <2>4. printed' + Cardinality(At("word", script')) <= announced'
    BY <1>0, <2>1, <2>2, <2>3
  <2> QED
    BY <2>1, <2>4 DEF ScriptIs
<1>6. CASE Prints(Head(script))
  <2>0. /\ script # << >> /\ script' = Tail(script) /\ announced' = announced /\ asking' = asking /\ result' = result
        /\ printed' = IF Head(script) = "word" THEN printed + 1 ELSE printed
    BY <1>6 DEF Prints
  <2>1. \A p : At(p, script') = {i \in 1..(Len(script) - 1) : i + 1 \in At(p, script)}
    BY <1>0, <2>0, AtTail
  <2>2. /\ Len(script) \in Nat \ {0} /\ Head(script) = script[1] /\ DOMAIN script = 1..Len(script)
        /\ \A p : 1 \in At(p, script) <=> Head(script) = p
        /\ \A p : At(p, script) \subseteq 1..Len(script)
    <3>1. Len(script) \in Nat \ {0} /\ Head(script) = script[1] /\ DOMAIN script = 1..Len(script)
      BY <1>0, <2>0
    <3> QED
      BY <3>1 DEF At
  <2>3. printed' + Cardinality(At("word", script')) <= announced'
    <3>1. /\ Cardinality(At("word", script)) \in Nat
          /\ Cardinality(At("word", script')) =
                 IF Head(script) = "word" THEN Cardinality(At("word", script)) - 1
                 ELSE Cardinality(At("word", script))
      BY <1>0, <2>0, AtTail
    <3> QED
      BY <1>0, <2>0, <3>1 DEF ScriptIs
  <2>4. \A i, j \in At("count", script') : i = j
    <3> SUFFICES ASSUME NEW i \in At("count", script'), NEW j \in At("count", script')
                 PROVE  i = j
      OBVIOUS
    <3>1. i \in Nat /\ j \in Nat /\ i + 1 \in At("count", script) /\ j + 1 \in At("count", script)
      BY <2>1
    <3>2. i + 1 = j + 1
      BY <1>0, <3>1 DEF ScriptIs
    <3> QED
      BY <3>1, <3>2
  <2>5. At("count", script) = {} => At("count", script') = {}
    BY <2>1
  <2>6. out' = << >> => out = << >> /\ Head(script) \notin {"count", "word"}
    <3>1. ASSUME out' = Append(out, Head(script)), Len(out) < Capacity PROVE out' # << >>
      BY <1>0, <2>0, <3>1, PieceIn, PieceOut
    <3> QED
      BY <1>6, <3>1 DEF Prints
  <2>7. ASSUME out' = << >>, asking \in {"call", "spawn", "close", "count"},
               NEW i \in At("word", script')
        PROVE  \E j \in At("count", script') : j < i
    <3>1. i \in 1..(Len(script) - 1) /\ i + 1 \in At("word", script)
      BY <2>1, <2>7
    <3>2. PICK j \in At("count", script) : j < i + 1
      BY <1>0, <2>6, <2>7, <3>1 DEF ScriptIs
    <3>3. j \in 1..Len(script) /\ j # 1
      BY <2>2, <2>6, <2>7
    <3>4. j - 1 \in At("count", script')
      BY <2>1, <2>2, <3>1, <3>2, <3>3
    <3> QED
      BY <2>2, <3>1, <3>2, <3>3, <3>4
  <2>8. ASSUME out' # << >>, asking \in {"call", "spawn", "close", "count"}
        PROVE  At("count", script') = {}
    <3>1. CASE out # << >>
      BY <1>0, <2>5, <2>8, <3>1 DEF ScriptIs
    <3>2. CASE out = << >>
      <4>1. Head(script) \in {"count", "word"}
        BY <1>6, <2>8, <3>2 DEF Prints
      <4>2. 1 \notin At("word", script)
        BY <1>0, <2>2, <2>8, <3>2 DEF ScriptIs
      <4>3. 1 \in At("count", script)
        BY <2>2, <4>1, <4>2
      <4>4. \A i \in At("count", script) : i = 1
        BY <1>0, <4>3 DEF ScriptIs
      <4> QED
        BY <2>1, <2>2, <4>4
    <3> QED
      BY <3>1, <3>2
  <2>9. Counted' => At("count", script') = {}
    BY <1>0, <2>0, <2>5 DEF ScriptIs, Counted
  <2> QED
    BY <2>0, <2>3, <2>4, <2>7, <2>8, <2>9 DEF ScriptIs
<1> QED
  BY <1>1, <1>2, <1>3, <1>4, <1>5, <1>6, PrintsOrKilled DEF AskNext, Parent, Shell

--------------------------------------------------------------------------------
(* The theorems.                                                           *)

\* What the parent has read and what is still in the pipe is what was printed.
LEMMA Complete == AskTypeOK /\ OutIs /\ ScriptIs => SuccessIsComplete
<1> SUFFICES ASSUME AskTypeOK, OutIs, result = "ok"
             PROVE  got = announced /\ printed = announced /\ status = 0 /\ ~Contains(err_buf, "error")
  BY DEF SuccessIsComplete
<1>1. printed = got + Len(out) /\ got = announced /\ status = 0 /\ ~Contains(err_buf, "error")
  BY DEF OutIs
<1>2. printed \in 0..announced /\ announced \in Nat /\ Len(out) \in Nat
  BY DEF AskTypeOK
<1> QED
  BY <1>1, <1>2

LEMMA AskInitHolds == AskInit => ShellInv
<1> SUFFICES ASSUME AskInit PROVE ShellInv
  OBVIOUS
<1>1. PICK o \in Outputs : script = o.prints /\ announced = o.announced /\ status = o.status
  BY DEF AskInit
<1>2. /\ asking = "call" /\ blocked = FALSE /\ fds = {} /\ shell = "none" /\ out = << >> /\ errs = << >>
      /\ got = 0 /\ err_buf = << >> /\ garbage \in BOOLEAN /\ result = "none" /\ printed = 0
      /\ complained = FALSE
  BY DEF AskInit
<1>3. /\ script \in Seq(Piece) /\ announced \in Nat /\ status \in Nat
      /\ Cardinality(At("word", script)) <= announced
      /\ \A i \in At("word", script) : \E j \in At("count", script) : j < i
      /\ \A i, j \in At("count", script) : i = j
      /\ Capacity \in Nat /\ ErrBuf \in Nat
  BY <1>1, OutputAssumption
<1>4. << >> \in Seq(Piece) /\ Len(<< >>) = 0
  OBVIOUS
<1>5. AskTypeOK
  <2>1. /\ out \in Seq(Piece) /\ Len(out) <= Capacity /\ errs \in Seq(Piece) /\ Len(errs) <= Capacity
        /\ err_buf \in Seq(Piece) /\ Len(err_buf) <= ErrBuf /\ got \in 0..announced /\ printed \in 0..announced
    BY <1>2, <1>3, <1>4
  <2> QED
    BY <1>2, <1>3, <2>1 DEF AskTypeOK, Results
<1>6. Phase /\ NothingLeftBehind
  BY <1>2 DEF Phase, NothingLeftBehind
<1>7. OutIs
  BY <1>2, <1>4 DEF OutIs, Counted
<1>8. 0 + Cardinality(At("word", script)) = Cardinality(At("word", script))
  <2>1. IsFiniteSet(At("word", script))
    <3>1. At("word", script) \in SUBSET (1..Len(script)) /\ Len(script) \in Nat
      BY <1>3 DEF At
    <3>2. IsFiniteSet(1..Len(script))
      BY <3>1, FS_Interval
    <3> QED
      BY <3>1, <3>2, FS_Subset
  <2>2. Cardinality(At("word", script)) \in Nat
    BY <2>1, FS_CardinalityType
  <2> QED
    BY <2>2
<1>9. ScriptIs
  BY <1>2, <1>3, <1>8 DEF ScriptIs, Counted
<1> QED
  BY <1>5, <1>6, <1>7, <1>9, Complete DEF ShellInv

LEMMA AskStepHolds == ShellInv /\ [AskNext]_askvars => ShellInv'
<1> SUFFICES ASSUME ShellInv, [AskNext]_askvars PROVE ShellInv'
  OBVIOUS
<1>1. CASE UNCHANGED askvars
  <2>1. ShellInv
    OBVIOUS
  <2> QED
    BY <1>1, <2>1 DEF askvars, ShellInv, AskTypeOK, Phase, OutIs, ScriptIs, Counted, NothingLeftBehind,
                      SuccessIsComplete
<1>2. CASE AskNext
  <2>1. AskTypeOK' /\ Phase' /\ OutIs' /\ ScriptIs' /\ NothingLeftBehind'
    BY <1>2, StepType, StepPhase, StepOut, StepScript
  <2>2. (AskTypeOK /\ OutIs /\ ScriptIs)'
    BY <2>1
  <2>3. SuccessIsComplete'
    BY <2>2, Complete, PTL
  <2> QED
    BY <2>1, <2>3 DEF ShellInv
<1> QED
  BY <1>1, <1>2

\* we_askshell reads no more than a pipe or err_buf holds, nor more words than
\* were announced.
THEOREM AskTypeCorrect == AskSpec => []AskTypeOK
<1>1. ShellInv => AskTypeOK
  BY DEF ShellInv
<1> QED
  BY <1>1, AskInitHolds, AskStepHolds, PTL DEF AskSpec

\* However the shell and the parent interleave and whatever fails, no end of a
\* pipe, no shell and, once one was started, no blocked signal is left.
THEOREM CleanupCorrect == AskSpec => []NothingLeftBehind
<1>1. ShellInv => NothingLeftBehind
  BY DEF ShellInv
<1> QED
  BY <1>1, AskInitHolds, AskStepHolds, PTL DEF AskSpec

\* A success has every word the shell announced, all of them printed, from a
\* shell that exited with 0 and whose error, if it was read, is not there.
THEOREM SuccessCorrect == AskSpec => []SuccessIsComplete
<1>1. ShellInv => SuccessIsComplete
  BY DEF ShellInv
<1> QED
  BY <1>1, AskInitHolds, AskStepHolds, PTL DEF AskSpec
================================================================================
