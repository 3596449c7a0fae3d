--------------------------------- MODULE Obstack ---------------------------------
(***************************************************************************)
(* malloc/obstack.c and the macros of malloc/obstack.h: a stack of objects *)
(* in a chain of chunks.  The object on top grows where it is, or moves to *)
(* a larger chunk; finished objects never move, and are freed from the top *)
(* down to any one of them.                                                *)
(***************************************************************************)
EXTENDS Naturals, Sequences, FiniteSetsExt

CONSTANTS
    Memory,         \* the last address
    Header,         \* offset of contents: the limit and prev of a chunk
    Alignment,      \* alignment_mask + 1
    ChunkSize,      \* chunk_size
    Slack,          \* what _obstack_newchunk adds beside the mask: 100 in the code
    MaxLength,      \* of one piece that is added to an object
    MaxObjects

\* Assumed by the module of the containers.
SizeAssumption ==
    /\ {Memory, Header, Alignment, ChunkSize} \subseteq Nat \ {0}
    /\ {Slack, MaxLength, MaxObjects} \subseteq Nat
    \* A chunk has room for an object behind its header.
    /\ Header + Alignment <= ChunkSize /\ Header <= Slack

VARIABLES
    chunks,             \* from h->chunk along prev: [base, limit] each
    object_base, next_free,
    maybe_empty_object,
    memory,             \* what each byte holds
    objects,            \* the finished objects: address, bytes and chunk (history)
    growing             \* the bytes given to the object on top (history)

obstack == <<chunks, object_base, next_free, maybe_empty_object, memory>>
vars == <<obstack, objects, growing>>

Addresses == 1..Memory
Null == 0
Junk == <<0, 0>>

\* A byte of an object tells the object and its place in it.
Byte == Nat \X Nat

TypeOK ==
    /\ chunks \in Seq([base : Addresses, limit : 1..(Memory + 1)])
    /\ object_base \in 0..(Memory + 1) /\ next_free \in 0..(Memory + 1)
    /\ maybe_empty_object \in BOOLEAN
    /\ memory \in [Addresses -> Byte]
    /\ objects \in Seq([at : 1..(Memory + 1), bytes : Seq(Byte), chunk : Addresses])
    /\ growing \in Seq(Byte)

--------------------------------------------------------------------------------
(* Addresses.                                                              *)

\* __PTR_ALIGN
Aligned(a) == ((a + Alignment - 1) \div Alignment) * Alignment
Contents(chunk) == Aligned(chunk.base + Header)
Chunk == chunks[1]
In(chunk) == chunk.base..(chunk.limit - 1)

\* What the allocator may return for size bytes (external).
Places(size) ==
    {c \in {[base |-> b, limit |-> b + size] : b \in {a \in Addresses : Aligned(a) = a}} :
        /\ c.limit <= Memory + 1
        /\ \A k \in DOMAIN chunks : In(c) \intersect In(chunks[k]) = {}}

--------------------------------------------------------------------------------
(* Operations.                                                             *)

Init ==
    /\ chunks = << >> /\ object_base = Null /\ next_free = Null
    /\ maybe_empty_object = FALSE
    /\ memory = [a \in Addresses |-> Junk]
    /\ objects = << >> /\ growing = << >>

\* _obstack_begin
Begin ==
    /\ chunks = << >>
    /\ \E c \in Places(ChunkSize) :
          /\ chunks' = <<c>>
          /\ object_base' = Contents(c) /\ next_free' = Contents(c)
    /\ maybe_empty_object' = FALSE
    /\ UNCHANGED <<memory, objects, growing>>

ObjectSize == next_free - object_base

\* The size _obstack_newchunk asks for.
NewSize(length) ==
    Max({ChunkSize, ObjectSize + length + ObjectSize \div 8 + (Alignment - 1) + Slack})

\* The object was the only data in its chunk.
Emptied == ~maybe_empty_object /\ object_base = Contents(Chunk)

\* memory with the object on top copied to base, and bytes behind it; what is
\* freed may be overwritten by the allocator.
Copied(base, bytes, freed) ==
    LET object == [k \in 1..ObjectSize |-> memory[object_base + k - 1]] \o bytes
    IN  [a \in Addresses |->
            IF a \in base..(base + Len(object) - 1) THEN object[a - base + 1]
            ELSE IF a \in freed THEN Junk ELSE memory[a]]

\* _obstack_newchunk, and the piece that needed it.
NewChunk(bytes) ==
    \E c \in Places(NewSize(Len(bytes))) :
        /\ chunks' = <<c>> \o (IF Emptied THEN Tail(chunks) ELSE chunks)
        /\ memory' = Copied(Contents(c), bytes, IF Emptied THEN In(Chunk) ELSE {})
        /\ object_base' = Contents(c)
        /\ next_free' = Contents(c) + ObjectSize + Len(bytes)
        /\ maybe_empty_object' = FALSE

\* obstack_grow, obstack_1grow, obstack_blank
Grow ==
    /\ chunks # << >> /\ Len(objects) < MaxObjects
    /\ \E length \in 0..MaxLength :
          LET bytes == [k \in 1..length |-> <<Len(objects) + 1, Len(growing) + k>>] IN
          /\ growing' = growing \o bytes
          /\ IF next_free + length > Chunk.limit
             THEN NewChunk(bytes)
             ELSE /\ memory' = Copied(object_base, bytes, {})
                  /\ next_free' = next_free + length
                  /\ UNCHANGED <<chunks, object_base, maybe_empty_object>>
    /\ UNCHANGED objects

\* obstack_finish
Finish ==
    /\ chunks # << >> /\ Len(objects) < MaxObjects
    /\ maybe_empty_object' = (maybe_empty_object \/ next_free = object_base)
    /\ next_free' = Min({Aligned(next_free), Chunk.limit})
    /\ object_base' = next_free'
    /\ objects' = Append(objects, [at |-> object_base, bytes |-> growing,
                                   chunk |-> Chunk.base])
    /\ growing' = << >>
    /\ UNCHANGED <<chunks, memory>>

\* Mutant of FoundIn: a chunk begins where an object may begin.
FoundInOrAt(c, obj) == c.base <= obj /\ obj <= c.limit

\* The chunk at which the search of __obstack_free stops.
FoundIn(c, obj) == c.base < obj /\ obj <= c.limit
Found(obj) == Min({k \in 1..(Len(chunks) + 1) : k > Len(chunks) \/ FoundIn(chunks[k], obj)})

FreeChunks(count) ==
    /\ chunks' = SubSeq(chunks, count + 1, Len(chunks))
    /\ memory' = [a \in Addresses |->
                    IF \E k \in 1..count : a \in In(chunks[k]) THEN Junk ELSE memory[a]]

\* obstack_free of one of the objects, with all that came after it.
Free ==
    /\ chunks # << >>
    /\ \E n \in DOMAIN objects :
          LET obj == objects[n].at
              k == Found(obj)
          IN  /\ k <= Len(chunks)       \* otherwise it aborts
              /\ IF Chunk.base < obj /\ obj < Chunk.limit
                 THEN UNCHANGED <<chunks, memory, maybe_empty_object>>
                 ELSE /\ FreeChunks(k - 1)
                      /\ maybe_empty_object' = (maybe_empty_object \/ k > 1)
              /\ object_base' = obj /\ next_free' = obj
              /\ objects' = SubSeq(objects, 1, n - 1)
    /\ growing' = << >>

\* obstack_free of NULL: the obstack has to be begun again.
FreeAll ==
    /\ chunks # << >>
    /\ FreeChunks(Len(chunks))
    /\ objects' = << >> /\ growing' = << >>
    /\ maybe_empty_object' = TRUE
    /\ UNCHANGED <<object_base, next_free>>

Next == Begin \/ Grow \/ Finish \/ Free \/ FreeAll

Spec == Init /\ [][Next]_vars

--------------------------------------------------------------------------------
(* What must hold.                                                         *)

Holds(at, bytes) ==
    \A k \in DOMAIN bytes : at + k - 1 \in Addresses /\ memory[at + k - 1] = bytes[k]

Kept ==
    /\ \A n \in DOMAIN objects :
          /\ Holds(objects[n].at, objects[n].bytes)
          /\ \E k \in DOMAIN chunks :
                /\ chunks[k].base = objects[n].chunk
                /\ Contents(chunks[k]) <= objects[n].at
                /\ objects[n].at + Len(objects[n].bytes) <= chunks[k].limit
    /\ chunks # << >> =>
          /\ Holds(object_base, growing) /\ ObjectSize = Len(growing)
          /\ Contents(Chunk) <= object_base /\ next_free <= Chunk.limit

FreeFindsObjects ==
    \A n \in DOMAIN objects :
        LET k == Found(objects[n].at) IN
        k <= Len(chunks) /\ chunks[k].base = objects[n].chunk

\* Every object keeps its bytes where it is, inside its chunk, through all that
\* is done above it, and the object on top has all that it was given, however
\* often it moved; obstack_free finds every one, the empty ones too, in the chunk
\* it was made in and in no neighbour that begins or ends at its address: it
\* neither aborts nor frees a chunk that still holds an older object
\* (obstack.c lines 225-349, obstack.h lines 296-401).
ObjectsSurvive == Kept /\ FreeFindsObjects
================================================================================
