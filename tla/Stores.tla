----------------------------------- MODULE Stores -----------------------------------
(***************************************************************************)
(* Five containers of the library, which nothing ties together but that a  *)
(* program may use any of them: obstacks (malloc/obstack.c), hash tables   *)
(* (search/hsearch_r.c), dynamic arrays (malloc/dynarray-skeleton.c), the  *)
(* reader of the services file (netdb/) and the node sets of the regex     *)
(* matcher (regex/regex_internal.c).  A behaviour is the life of one.      *)
(***************************************************************************)
EXTENDS Integers, Sequences

CONSTANTS
    Memory, Header, Alignment, ChunkSize, Slack, MaxLength, MaxObjects,     \* Obstack
    Keys, Data, Nels, UintRange,                                            \* Hsearch
    InitialSize, HeapSize, ElementSize, SizeMax, MaxItems,                  \* Dynarray
    Files, Numerals, Asked, MallocPlaces, FirstAliases, PointerSize, MaxBuflen, \* Services
    Nodes, Sources                                                          \* NodeSet

VARIABLES
    container,      \* the one that is used
    chunks, object_base, next_free, maybe_empty_object, memory, objects, growing,
    buckets, size, filled, entered,
    used, allocated, elems, on_heap, heap, items, kept,
    file, sd, se, at, alias, held, cells, live, result, since,
    nodes, alloc, nelem, block, members, beyond, loop, src1, src2, i1, i2, id, is, sbase,
    elem, idx, right, found

obstack == <<chunks, object_base, next_free, maybe_empty_object, memory, objects, growing>>
htab == <<buckets, size, filled, entered>>
list == <<used, allocated, elems, on_heap, heap, items, kept>>
services == <<file, sd, se, at, alias, held, cells, live, result, since>>
set == <<nodes, alloc, nelem, block, members, beyond, loop, src1, src2, i1, i2, id, is, sbase,
         elem, idx, right, found>>
storevars == <<container, obstack, htab, list, services, set>>

O == INSTANCE Obstack
H == INSTANCE Hsearch
D == INSTANCE Dynarray
S == INSTANCE Services
N == INSTANCE NodeSet WITH elems <- nodes

ASSUME StoreAssumption ==
    O!SizeAssumption /\ H!KeyAssumption /\ D!DynarrayAssumption /\ S!ServicesAssumption /\
    N!NodeAssumption

StoreInit ==
    /\ O!Init /\ H!Init /\ D!DynInit /\ S!ServicesInit /\ N!NodeInit
    /\ container # "services" => file = (CHOOSE f \in Files : TRUE)

UseObstack ==
    container = "obstack" /\ O!Next /\ UNCHANGED <<container, htab, list, services, set>>

UseHsearch ==
    container = "hsearch" /\ H!Next /\ UNCHANGED <<container, obstack, list, services, set>>

UseDynarray ==
    container = "dynarray" /\ D!DynNext /\ UNCHANGED <<container, obstack, htab, services, set>>

UseServices ==
    container = "services" /\ S!ServicesNext /\ UNCHANGED <<container, obstack, htab, list, set>>

UseNodeSet ==
    container = "re_node_set" /\ N!NodeNext /\ UNCHANGED <<container, obstack, htab, list, services>>

StoreNext == UseObstack \/ UseHsearch \/ UseDynarray \/ UseServices \/ UseNodeSet

StoreSpec == StoreInit /\ [][StoreNext]_storevars

--------------------------------------------------------------------------------
(* What must hold of each; the modules say it in full.                     *)

\* Obstack: objects keep their bytes, and every one can be freed.
ObjectsSurvive == O!ObjectsSurvive

\* Hsearch: a search finds what was entered, and only that.
SearchIsMap == H!SearchIsMap

\* Dynarray: every element is kept, handed over or freed once.
ElementsHaveOneOwner == D!ElementsHaveOneOwner

\* Services: the walk and the search agree with the file, inside their memory.
ServicesAreTheFile == container = "services" => S!ServicesAreTheFile

\* NodeSet: the sorted array is the set.
ArrayIsTheSet == N!ArrayIsTheSet
================================================================================
