--------------------------------- MODULE NodeSet ---------------------------------
(***************************************************************************)
(* The sets of nodes of regex/regex_internal.c: sorted arrays that are     *)
(* merged in place, with the space above the elements as a workbench.  The *)
(* models of the matcher take them for sets; here is why they may.  A loop *)
(* goes one round a step; what stands behind it ends the call.             *)
(***************************************************************************)
EXTENDS Integers, Sequences

CONSTANTS
    Nodes,      \* indices of dfa->nodes
    Sources     \* the other sets that calls are given, as sequences

\* Their elements are in order.
Increasing(seq) == \A i, j \in DOMAIN seq : i < j => seq[i] < seq[j]

\* Assumed by the module of the containers.
NodeAssumption ==
    /\ Nodes \subseteq Nat
    /\ \A seq \in Sources : seq \in Seq(Nodes) /\ Increasing(seq)

VARIABLES
    elems, alloc, nelem,    \* re_node_set; elems is the block, counted from 0
    block,                  \* elements the block behind elems has room for
    members,                \* the set that is meant (history)
    beyond,                 \* a store went beyond the block (history)
    loop,                   \* the loop of the call under way
    src1, src2,             \* its operands; merge calls its own src
    i1, i2, id, is, sbase,  \* its places; delta is is - sbase + 1
    elem, idx, right,       \* those of contains and insert
    found                   \* what contains returned

array == <<elems, alloc, nelem, block, members>>
operands == <<src1, src2>>
scan == <<i1, i2, id, is, sbase>>
search == <<elem, idx, right, found>>
nodeset == <<array, beyond, loop, operands, scan, search>>

Junk == -1

Items(seq) == {seq[i] : i \in DOMAIN seq}

\* A block of size elements with the first n of from; what is above nobody reads.
Block(from, n, size) == [k \in 0..(size - 1) |-> IF k < n THEN from[k] ELSE Junk]

\* A store, and a memcpy of n elements that are in from at first.
Put(at, value) ==
    /\ elems' = [elems EXCEPT ![at] = value]
    /\ beyond' = (beyond \/ at \notin DOMAIN elems)
Copied(at, from, first, n) ==
    [k \in DOMAIN elems |-> IF at <= k /\ k < at + n THEN from[first + k - at] ELSE elems[k]]
Outside(at, n) == n > 0 /\ ~(at >= 0 /\ at + n <= block)

\* The call is over.
Return ==
    /\ loop' = "none" /\ src1' = << >> /\ src2' = << >>
    /\ i1' = 0 /\ i2' = 0 /\ id' = 0 /\ is' = 0 /\ sbase' = 0
    /\ elem' = Junk /\ idx' = 0 /\ right' = 0 /\ found' = 0

NodeInit ==
    /\ elems = << >> /\ alloc = 0 /\ nelem = 0 /\ block = 0
    /\ members = {} /\ beyond = FALSE
    /\ loop = "none" /\ src1 = << >> /\ src2 = << >>
    /\ i1 = 0 /\ i2 = 0 /\ id = 0 /\ is = 0 /\ sbase = 0
    /\ elem = Junk /\ idx = 0 /\ right = 0 /\ found = 0

Usable == loop = "none" /\ alloc = block

\* The block has size elements now, the ones there are kept.
Room(size) == alloc' = size /\ block' = size

\* A realloc that fails, in calls that change nothing before it.
Unchanged == UNCHANGED nodeset

--------------------------------------------------------------------------------
(* A set made anew, after the old one was freed.                           *)

Made(size, seq) ==
    /\ Room(size) /\ nelem' = Len(seq) /\ members' = Items(seq)
    /\ elems' = [k \in 0..(size - 1) |-> IF k < Len(seq) THEN seq[k + 1] ELSE Junk]

\* alloc, init_1, init_2 and init_copy
Make ==
    /\ loop = "none"
    /\ \/ \E size \in Nodes : Made(size, << >>)
       \/ \E elem1 \in Nodes : Made(1, <<elem1>>)
       \/ \E elem1, elem2 \in Nodes :
             Made(2, IF elem1 = elem2 THEN <<elem1>> ELSE IF elem1 < elem2 THEN <<elem1, elem2>>
                     ELSE <<elem2, elem1>>)
       \/ \E src \in Sources : Made(Len(src), src)
    /\ UNCHANGED <<beyond, loop, operands, scan, search>>

\* re_node_set_init_union of two sets that have elements
UnionBegin ==
    \E seq1, seq2 \in Sources \ {<< >>} :
        /\ loop = "none"
        /\ Room(Len(seq1) + Len(seq2))
        /\ elems' = Block(<< >>, 0, Len(seq1) + Len(seq2)) /\ nelem' = 0
        /\ members' = Items(seq1) \union Items(seq2)
        /\ loop' = "union" /\ src1' = seq1 /\ src2' = seq2
        /\ i1' = 0 /\ i2' = 0 /\ id' = 0
        /\ UNCHANGED <<beyond, is, sbase, search>>

UnionItem ==
    /\ loop = "union" /\ i1 < Len(src1) /\ i2 < Len(src2)
    /\ id' = id + 1
    /\ \/ /\ src1[i1 + 1] > src2[i2 + 1]
          /\ Put(id, src2[i2 + 1]) /\ i2' = i2 + 1 /\ i1' = i1
       \/ /\ src1[i1 + 1] <= src2[i2 + 1]
          /\ Put(id, src1[i1 + 1]) /\ i1' = i1 + 1
          /\ i2' = IF src1[i1 + 1] = src2[i2 + 1] THEN i2 + 1 ELSE i2
    /\ UNCHANGED <<alloc, nelem, block, members, loop, operands, is, sbase, search>>

UnionRest ==
    /\ loop = "union"
    /\ \/ /\ i1 < Len(src1) /\ i2 >= Len(src2)
          /\ elems' = Copied(id, src1, i1 + 1, Len(src1) - i1) /\ nelem' = id + Len(src1) - i1
       \/ /\ i1 >= Len(src1)
          /\ elems' = Copied(id, src2, i2 + 1, Len(src2) - i2) /\ nelem' = id + Len(src2) - i2
    /\ beyond' = (beyond \/ Outside(id, nelem' - id))
    /\ Return /\ UNCHANGED <<alloc, block, members>>

--------------------------------------------------------------------------------
(* Items that are not there yet go to the top of the block.                *)

\* re_node_set_merge
MergeBegin ==
    \E src \in Sources \ {<< >>} :
        LET n == Len(src)
            size == IF alloc < 2 * n + nelem THEN 2 * (n + alloc) ELSE alloc
        IN  /\ Usable
            /\ \/ /\ Room(size) /\ members' = members \union Items(src)
                  /\ \/ /\ nelem = 0 /\ nelem' = n
                        /\ elems' = [k \in 0..(size - 1) |-> IF k < n THEN src[k + 1] ELSE Junk]
                        /\ beyond' = (beyond \/ n > size)
                        /\ UNCHANGED <<loop, operands, scan>>
                     \/ /\ nelem > 0 /\ elems' = Block(elems, nelem, size)
                        /\ loop' = "merge" /\ src1' = src
                        /\ i1' = n - 1 /\ id' = nelem - 1 /\ sbase' = nelem + 2 * n
                        /\ UNCHANGED <<nelem, beyond, src2, i2, is>>
                  /\ UNCHANGED search
               \/ size > alloc /\ Unchanged

MergeItem ==
    /\ loop = "merge" /\ i1 >= 0 /\ id >= 0
    /\ \/ /\ elems[id] = src1[i1 + 1]
          /\ i1' = i1 - 1 /\ id' = id - 1 /\ UNCHANGED <<elems, beyond, sbase>>
       \/ /\ elems[id] < src1[i1 + 1]
          /\ Put(sbase - 1, src1[i1 + 1]) /\ sbase' = sbase - 1 /\ i1' = i1 - 1 /\ id' = id
       \/ /\ elems[id] > src1[i1 + 1]
          /\ id' = id - 1 /\ UNCHANGED <<elems, beyond, sbase, i1>>
    /\ UNCHANGED <<alloc, nelem, block, members, loop, operands, i2, is, search>>

\* The items from base to top are to go down to their places.
SlideBegin(base, top) ==
    /\ loop' = "slide" /\ id' = nelem - 1 /\ is' = top /\ sbase' = base
    /\ nelem' = nelem + (top - base + 1)
    /\ i1' = 0 /\ i2' = 0 /\ src1' = << >> /\ src2' = << >>
    /\ UNCHANGED <<alloc, block, members, search>>

MergeRest ==
    /\ loop = "merge" /\ (i1 < 0 \/ id < 0)
    /\ elems' = Copied(sbase - (i1 + 1), src1, 1, i1 + 1)
    /\ beyond' = (beyond \/ Outside(sbase - (i1 + 1), i1 + 1))
    /\ SlideBegin(sbase - (i1 + 1), nelem + 2 * Len(src1) - 1)

\* re_node_set_add_intersect
IntersectBegin ==
    \E seq1, seq2 \in Sources \ {<< >>} :
        LET n == Len(seq1) + Len(seq2)
            size == IF n + nelem > alloc THEN n + alloc ELSE alloc
        IN  /\ Usable
            /\ \/ /\ Room(size) /\ members' = members \union (Items(seq1) \intersect Items(seq2))
                  /\ elems' = Block(elems, nelem, size)
                  /\ loop' = "intersect" /\ src1' = seq1 /\ src2' = seq2
                  /\ i1' = Len(seq1) - 1 /\ i2' = Len(seq2) - 1
                  /\ id' = nelem - 1 /\ sbase' = nelem + n
                  /\ UNCHANGED <<nelem, beyond, is, search>>
               \/ size > alloc /\ Unchanged

IntersectItem ==
    /\ loop = "intersect" /\ i1 >= 0 /\ i2 >= 0
    /\ \/ /\ src1[i1 + 1] < src2[i2 + 1]
          /\ i2' = i2 - 1 /\ UNCHANGED <<elems, beyond, i1, id, sbase>>
       \/ /\ src1[i1 + 1] > src2[i2 + 1]
          /\ i1' = i1 - 1 /\ UNCHANGED <<elems, beyond, i2, id, sbase>>
       \/ /\ src1[i1 + 1] = src2[i2 + 1] /\ id >= 0 /\ elems[id] > src1[i1 + 1]
          /\ id' = id - 1 /\ UNCHANGED <<elems, beyond, i1, i2, sbase>>
       \/ /\ src1[i1 + 1] = src2[i2 + 1] /\ id >= 0 /\ elems[id] = src1[i1 + 1]
          /\ i1' = i1 - 1 /\ i2' = i2 - 1 /\ UNCHANGED <<elems, beyond, id, sbase>>
       \/ /\ src1[i1 + 1] = src2[i2 + 1] /\ (id >= 0 => elems[id] < src1[i1 + 1])
          /\ Put(sbase - 1, src1[i1 + 1]) /\ sbase' = sbase - 1
          /\ i1' = i1 - 1 /\ i2' = i2 - 1 /\ id' = id
    /\ UNCHANGED <<alloc, nelem, block, members, loop, operands, is, search>>

IntersectEnd ==
    /\ loop = "intersect" /\ (i1 < 0 \/ i2 < 0)
    /\ UNCHANGED <<elems, beyond>>
    /\ SlideBegin(sbase, nelem + Len(src1) + Len(src2) - 1)

--------------------------------------------------------------------------------
(* The loop that moves the items from sbase to is down.                    *)

Delta == is - sbase + 1

SlideItem ==
    /\ loop = "slide" /\ Delta > 0 /\ id >= 0
    /\ \/ elems[is] > elems[id] /\ Put(id + Delta, elems[is]) /\ is' = is - 1 /\ id' = id
       \/ elems[is] <= elems[id] /\ Put(id + Delta, elems[id]) /\ id' = id - 1 /\ is' = is
    /\ UNCHANGED <<alloc, nelem, block, members, loop, operands, i1, i2, sbase, search>>

\* Mutant of SlideEnd: what is left on the workbench stays there.
SlideEndOnly ==
    /\ loop = "slide" /\ (Delta = 0 \/ id < 0)
    /\ elems' = Block(elems, nelem, block) /\ beyond' = beyond
    /\ Return /\ UNCHANGED <<alloc, nelem, block, members>>

SlideEnd ==
    /\ loop = "slide" /\ (Delta = 0 \/ id < 0)
    /\ elems' = Block(Copied(0, elems, sbase, Delta), nelem, block)
    /\ beyond' = (beyond \/ Outside(0, Delta))
    /\ Return /\ UNCHANGED <<alloc, nelem, block, members>>

--------------------------------------------------------------------------------
(* One element.                                                            *)

\* What realloc leaves when it fails: alloc says more than the block has, and
\* the set may only be freed.
Broken(size) == alloc' = size /\ UNCHANGED <<elems, nelem, block, members>>

\* re_node_set_insert of an element that is not there
InsertBegin ==
    \E e \in Nodes \ members :
        LET size == IF alloc = 0 THEN 1 ELSE IF alloc = nelem THEN alloc * 2 ELSE alloc
        IN  /\ Usable
            /\ \/ /\ Room(size) /\ members' = members \union {e}
                  /\ \/ /\ nelem = 0 /\ nelem' = 1
                        /\ elems' = [Block(elems, nelem, size) EXCEPT ![nelem] = e]
                        /\ UNCHANGED <<loop, search>>
                     \/ /\ nelem > 0 /\ elems' = Block(elems, nelem, size)
                        /\ loop' = "insert" /\ elem' = e /\ idx' = nelem
                        /\ UNCHANGED <<nelem, right, found>>
               \/ /\ size > alloc /\ alloc > 0 /\ Broken(size)
                  /\ UNCHANGED <<loop, search>>
            /\ UNCHANGED <<beyond, operands, scan>>

MovesUp == IF elem < elems[0] THEN idx > 0 ELSE elems[idx - 1] > elem

InsertShift ==
    /\ loop = "insert" /\ MovesUp
    /\ Put(idx, elems[idx - 1]) /\ idx' = idx - 1
    /\ UNCHANGED <<alloc, nelem, block, members, loop, operands, scan, elem, right, found>>

InsertEnd ==
    /\ loop = "insert" /\ ~MovesUp
    /\ Put(idx, elem) /\ nelem' = nelem + 1
    /\ Return /\ UNCHANGED <<alloc, block, members>>

\* re_node_set_insert_last of an element larger than all
InsertLast ==
    \E e \in Nodes :
        LET size == IF alloc = nelem THEN (alloc + 1) * 2 ELSE alloc
        IN  /\ Usable /\ \A m \in members : m < e
            /\ \/ /\ Room(size) /\ nelem' = nelem + 1 /\ members' = members \union {e}
                  /\ elems' = [Block(elems, nelem, size) EXCEPT ![nelem] = e]
                  /\ beyond' = (beyond \/ nelem >= size)
               \/ size > alloc /\ Broken(size) /\ beyond' = beyond
            /\ UNCHANGED <<loop, operands, scan, search>>

\* re_node_set_contains
ContainsBegin ==
    /\ Usable
    /\ \E e \in Nodes : elem' = e
    /\ \/ nelem > 0 /\ loop' = "contains" /\ idx' = 0 /\ right' = nelem - 1 /\ found' = found
       \/ nelem = 0 /\ loop' = "found" /\ found' = 0 /\ UNCHANGED <<idx, right>>
    /\ UNCHANGED <<array, beyond, operands, scan>>

ContainsStep ==
    LET mid == (idx + right) \div 2
    IN  /\ loop = "contains" /\ idx < right
        /\ \/ elems[mid] < elem /\ idx' = mid + 1 /\ right' = right
           \/ elems[mid] >= elem /\ right' = mid /\ idx' = idx
        /\ UNCHANGED <<array, beyond, loop, operands, scan, elem, found>>

ContainsEnd ==
    /\ loop = "contains" /\ idx >= right
    /\ loop' = "found" /\ found' = IF elems[idx] = elem THEN idx + 1 ELSE 0
    /\ idx' = 0 /\ right' = 0
    /\ UNCHANGED <<array, beyond, operands, scan, elem>>

\* The caller had only asked, or removes the element where it was found:
\* re_node_set_remove, with re_node_set_remove_at.
Answered == loop = "found" /\ Return /\ UNCHANGED <<array, beyond>>

RemoveElem ==
    LET at == found - 1
    IN  /\ loop = "found" /\ at >= 0
        /\ nelem' = nelem - 1
        /\ elems' = Block(Copied(at, elems, at + 1, nelem - at - 1), nelem - 1, block)
        /\ members' = members \ {elem}
        /\ Return /\ UNCHANGED <<alloc, block, beyond>>

NodeNext ==
    \/ Make \/ UnionBegin \/ UnionItem \/ UnionRest
    \/ MergeBegin \/ MergeItem \/ MergeRest
    \/ IntersectBegin \/ IntersectItem \/ IntersectEnd
    \/ SlideItem \/ SlideEnd
    \/ InsertBegin \/ InsertShift \/ InsertEnd \/ InsertLast
    \/ ContainsBegin \/ ContainsStep \/ ContainsEnd \/ Answered \/ RemoveElem

NodeSpec == NodeInit /\ [][NodeNext]_nodeset

--------------------------------------------------------------------------------
(* What must hold.                                                         *)

\* The elements are those of the set, each once and in order.
Is(set) ==
    /\ \A k, l \in 0..(nelem - 1) : k < l => elems[k] < elems[l]
    /\ set = {elems[k] : k \in 0..(nelem - 1)}

\* Between two calls, whatever was merged in place before, the elements are
\* those of the set, each once and in order; the binary search finds these, each
\* where it is, and no others; and no store went beyond the block
\* (regex_internal.c lines 967-1405).
ArrayIsTheSet ==
    /\ loop \in {"none", "found"} => Is(members)
    /\ loop = "found" =>
          IF elem \in members THEN found \in 1..nelem /\ elems[found - 1] = elem ELSE found = 0
    /\ ~beyond /\ nelem <= block
================================================================================
