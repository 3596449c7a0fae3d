--------------------------------- MODULE Dynarray ---------------------------------
(***************************************************************************)
(* malloc/dynarray-skeleton.c and the functions it calls: an array that    *)
(* grows out of a scratch buffer into the heap.  The elements own what     *)
(* they point to (DYNARRAY_ELEMENT_FREE is defined), so that every one has *)
(* to be kept, handed over or freed, whatever fails on the way.            *)
(***************************************************************************)
EXTENDS Naturals, Sequences, SequencesExt, FiniteSets

CONSTANTS
    InitialSize,    \* DYNARRAY_INITIAL_SIZE, of the scratch buffer
    HeapSize,       \* elements of the first heap array when there is no scratch buffer
    ElementSize,
    SizeMax,        \* the largest size_t
    MaxItems        \* elements a program makes

\* Assumed by the module of the containers.
DynarrayAssumption ==
    /\ {InitialSize, MaxItems} \subseteq Nat
    /\ {HeapSize, ElementSize, SizeMax} \subseteq Nat \ {0}
    \* The scratch buffer is smaller than all that a pointer can reach.
    /\ InitialSize < SizeMax

VARIABLES
    used, allocated,
    elems,          \* what the array holds; an element is the number of an item
    on_heap,        \* the array is not the scratch buffer (which may be NULL)
    heap,           \* arrays allocated and not freed
    items,          \* what became of each item (history)
    kept            \* what the program stored and did not remove, in order (history)

dynvars == <<used, allocated, elems, on_heap, heap, items, kept>>

Zero == 0           \* the element of all zero bytes, which DYNARRAY_ELEMENT_FREE passes over
Undefined == MaxItems + 1
Marker == SizeMax   \* __dynarray_error_marker

HasFailed == allocated = Marker
Item == Len(items) + 1
Places == 1..used

--------------------------------------------------------------------------------
(* Storage.                                                                *)

DynInit ==
    /\ used = 0 /\ allocated = InitialSize /\ on_heap = FALSE
    /\ elems = [p \in 1..InitialSize |-> Undefined]
    /\ heap = 0 /\ items = << >> /\ kept = << >>

\* DYNARRAY_ELEMENT_FREE of the elements at places.
Freed(fates, places) ==
    [n \in DOMAIN fates |-> IF \E p \in places : elems[p] = n
                            THEN (IF fates[n] = "stored" THEN "freed" ELSE "freed_twice")
                            ELSE fates[n]]

\* The array in size elements, old ones at their places.
Enlarged(size) == [p \in 1..size |-> IF p <= Len(elems) THEN elems[p] ELSE Undefined]

\* The scratch buffer with no element in it.
Scratch(size) ==
    /\ used' = 0 /\ allocated' = size /\ on_heap' = FALSE
    /\ elems' = [p \in 1..InitialSize |-> Undefined]
    /\ heap' = heap - (IF on_heap THEN 1 ELSE 0)
    /\ kept' = << >>

\* Mutant of MarkFailed: the elements are left to whoever had them.
MarkFailedOnly(fates) == Scratch(Marker) /\ items' = fates

\* mark_failed
MarkFailed(fates) == Scratch(Marker) /\ items' = Freed(fates, Places)

\* The size to grow a full array to (__libc_dynarray_emplace_enlarge).
NewAllocated ==
    IF allocated = 0 THEN HeapSize
    ELSE (allocated + allocated \div 2 + 1) % (SizeMax + 1)

\* A larger array may be had; no malloc gives all the bytes there are.
Fits(size) == size > allocated /\ size * ElementSize < SizeMax

\* The array moves to one of size elements, with array in it.
MoveTo(size, array) ==
    /\ allocated' = size
    /\ elems' = array
    /\ on_heap' = TRUE /\ heap' = heap + (IF on_heap THEN 0 ELSE 1)

\* Room for one more element, given to it: add, emplace and their slow paths.
Emplace(element, fates) ==
    LET Fill(array) == [array EXCEPT ![used + 1] = element] IN
    \/ /\ used < allocated
       /\ elems' = Fill(elems)
       /\ used' = used + 1 /\ items' = fates /\ kept' = Append(kept, element)
       /\ UNCHANGED <<allocated, on_heap, heap>>
    \/ /\ used = allocated /\ Fits(NewAllocated)
       /\ MoveTo(NewAllocated, Fill(Enlarged(NewAllocated)))
       /\ used' = used + 1 /\ items' = fates /\ kept' = Append(kept, element)
    \* malloc or realloc failed, or the size is too large
    \/ used = allocated /\ MarkFailed([n \in DOMAIN fates |->
                              IF n = element THEN "refused" ELSE fates[n]])

--------------------------------------------------------------------------------
(* Operations.                                                             *)

Add ==
    /\ ~HasFailed /\ Item <= MaxItems
    /\ Emplace(Item, Append(items, "stored"))

EmplaceZero == ~HasFailed /\ Emplace(Zero, items)

\* What the program does with the place emplace returned.
Store ==
    /\ Item <= MaxItems
    /\ \E p \in Places :
          /\ elems[p] = Zero
          /\ elems' = [elems EXCEPT ![p] = Item]
          /\ kept' = [kept EXCEPT ![p] = Item]
    /\ items' = Append(items, "stored")
    /\ UNCHANGED <<used, allocated, on_heap, heap>>

\* resize to more elements, all zero; the program has looked at has_failed.
Grow(size) ==
    LET Fill(array) == [p \in DOMAIN array |-> IF p \in (used + 1)..size THEN Zero ELSE array[p]]
    IN  /\ size > used /\ ~HasFailed
        /\ \/ /\ size <= allocated
              /\ elems' = Fill(elems)
              /\ UNCHANGED <<allocated, on_heap, heap>>
           \/ Fits(size) /\ MoveTo(size, Fill(Enlarged(size)))
        /\ used' = size /\ kept' = kept \o [p \in 1..(size - used) |-> Zero]
        /\ UNCHANGED items

GrowFails(size) == size > allocated /\ ~HasFailed /\ MarkFailed(items)

\* resize to fewer elements, remove_last and clear.
Shrink(size) ==
    /\ size <= used
    /\ items' = Freed(items, (size + 1)..used)
    /\ used' = size /\ kept' = SubSeq(kept, 1, size)
    /\ UNCHANGED <<allocated, elems, on_heap, heap>>

Resize == \E size \in 0..(MaxItems + 1) : Grow(size) \/ GrowFails(size) \/ Shrink(size)

\* free
DynFree == Scratch(InitialSize) /\ items' = Freed(items, Places)

\* finalize: on success the elements go to the result, in an array of its own.
Finalize ==
    \/ /\ ~HasFailed
       /\ Scratch(InitialSize)
       /\ items' = [n \in DOMAIN items |-> IF \E p \in Places : elems[p] = n THEN "result" ELSE items[n]]
    \/ (HasFailed \/ used > 0) /\ DynFree

DynNext == Add \/ EmplaceZero \/ Store \/ Resize \/ DynFree \/ Finalize
DynSpec == DynInit /\ [][DynNext]_dynvars

--------------------------------------------------------------------------------
(* What must hold.                                                         *)

\* Growing keeps the elements that were stored, in their places, and every one
\* that was stored is in the array, was freed once or went to the result: an
\* array that fails frees them all, and nothing stays on the heap behind a list
\* that is back in its scratch buffer (dynarray-skeleton.c lines 241-253,
\* 295-333; dynarray_emplace_enlarge.c lines 27-71).
ElementsHaveOneOwner ==
    /\ used = Len(kept) /\ (HasFailed => used = 0)
    /\ used <= Len(elems) /\ SubSeq(elems, 1, used) = kept
    /\ \A n \in DOMAIN items :
          /\ items[n] # "freed_twice"
          /\ items[n] = "stored" <=> Cardinality({p \in Places : elems[p] = n}) = 1
    /\ heap = (IF on_heap THEN 1 ELSE 0)
================================================================================
