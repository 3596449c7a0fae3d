---------------------------------- MODULE Hsearch ----------------------------------
(***************************************************************************)
(* search/hsearch_r.c: a table of prime size with double hashing.  What    *)
(* the probes must do is simple to say and depends on arithmetic: behave   *)
(* as a map from keys to entries, until the table is destroyed.            *)
(***************************************************************************)
EXTENDS Integers, Sequences, FiniteSets

CONSTANTS
    Keys,           \* sequences of the values of a char
    Data,           \* what is stored under a key
    Nels,           \* what hcreate_r is called with
    UintRange       \* unsigned int is computed modulo this

\* Assumed by the module of the containers.
KeyAssumption ==
    Keys \subseteq Seq(Int) /\ Nels \subseteq Nat /\ UintRange \in Nat \ {0}

VARIABLES
    buckets, size, filled,  \* struct hsearch_data; buckets is << >> when table is NULL
    entered                 \* what a map would hold (history)

htab == <<buckets, size, filled>>
vars == <<htab, entered>>

Unused == 0
Bucket == [used : Nat, key : Keys, data : Data]
NoBucket ==
    [used |-> Unused, key |-> (CHOOSE k \in Keys : TRUE), data |-> (CHOOSE d \in Data : TRUE)]

Created == buckets # << >>

--------------------------------------------------------------------------------
(* Arithmetic.                                                             *)

isprime(number) == \A div \in 2..(number - 1) : number % div # 0

\* The loop goes through the key from its end.
Hval(key) ==
    LET count == Len(key)
        hval[k \in 0..count] ==
            IF k = 0 THEN count % UintRange
            ELSE (hval[k - 1] * 16 + key[count - k + 1]) % UintRange
    IN  IF hval[count] = 0 THEN 1 ELSE hval[count]

FirstIdx(hval) == (hval % size) + 1
Hval2(hval) == 1 + (hval % (size - 2))

\* The bucket to look at after idx.
Before(idx, hval2) == IF idx <= hval2 THEN size + idx - hval2 ELSE idx - hval2

Probes(hval) ==
    LET probe[k \in 0..size] ==
            IF k = 0 THEN FirstIdx(hval) ELSE Before(probe[k - 1], Hval2(hval))
    IN  probe

\* The place and the outcome of the loop of hsearch_r for a key.
Probe(key) ==
    LET hval == Hval(key)
        probe == Probes(hval)
        Same(k) == buckets[probe[k]].used = hval /\ buckets[probe[k]].key = key
        Around(k) == k > 0 /\ probe[k] = probe[0]
        k == CHOOSE k \in 0..size :
                /\ Around(k) \/ Same(k) \/ buckets[probe[k]].used = Unused
                /\ \A j \in 0..(k - 1) :
                      ~Around(j) /\ ~Same(j) /\ buckets[probe[j]].used # Unused
    IN  [idx |-> probe[k], found |-> ~Around(k) /\ Same(k)]

--------------------------------------------------------------------------------
(* Operations.                                                             *)

Init == buckets = << >> /\ size = 0 /\ filled = 0 /\ entered = << >>

\* Mutant of Sizes: the odd numbers will do.
SizesOdd(nel) == {n \in nel..(UintRange - 3) : n % 2 = 1 /\ n >= 3}

\* The sizes the table may have, of which it gets the least.
Sizes(nel) == {n \in nel..(UintRange - 3) : n % 2 = 1 /\ n >= 3 /\ isprime(n)}

\* hcreate_r; calloc may fail, and size is set before it does.
Create ==
    /\ ~Created
    /\ \E nel \in Nels :
          /\ Sizes(nel) # {}
          /\ size' = CHOOSE n \in Sizes(nel) : \A m \in Sizes(nel) : n <= m
    /\ filled' = 0
    /\ buckets' \in {<< >>, [idx \in 1..size' |-> NoBucket]}
    /\ UNCHANGED entered

\* hdestroy_r
Destroy ==
    /\ buckets' = << >> /\ entered' = << >>
    /\ UNCHANGED <<size, filled>>

\* hsearch_r with ENTER, of an item that is not refused.  An entry that is
\* there stays as it is.
Enter ==
    /\ Created
    /\ \E key \in Keys, data \in Data :
          LET at == Probe(key) IN
          /\ ~at.found /\ filled # size
          /\ buckets' = [buckets EXCEPT ![at.idx] =
                            [used |-> Hval(key), key |-> key, data |-> data]]
          /\ filled' = filled + 1
          /\ entered' = [k \in DOMAIN entered \union {key} |->
                            IF k = key THEN data ELSE entered[k]]
    /\ UNCHANGED size

Next == Create \/ Destroy \/ Enter
Spec == Init /\ [][Next]_vars

--------------------------------------------------------------------------------
(* What must hold.                                                         *)

\* A search finds what was entered under its key and nothing else, and ENTER is
\* refused only when every bucket is taken, whatever collides with what: the
\* probes of a missing key come to an unused bucket, or once around a table that
\* has none (hsearch_r.c lines 158-242).
SearchIsMap ==
    Created =>
        /\ filled = Cardinality(DOMAIN entered) /\ filled <= size
        /\ \A key \in Keys :
              LET at == Probe(key) IN
              /\ at.found <=> key \in DOMAIN entered
              /\ at.found => buckets[at.idx].data = entered[key]
              /\ (~at.found /\ filled # size) => buckets[at.idx].used = Unused
================================================================================
