------------------------------- MODULE ArgvProofs -------------------------------
(***************************************************************************)
(* For any command line and options, any threads and titles, and strings   *)
(* at any addresses.  First the titles alone, then the scan alone, then    *)
(* the program that does both.                                             *)
(***************************************************************************)
EXTENDS Argv, FiniteSetTheorems, TLAPS

--------------------------------------------------------------------------------
(* The titles: what is true throughout.                                    *)

Preparing == {"environ", "walk", "detach", "names"}
Inside == Preparing \union {"format", "fail"}

\* The thread between lock and unlock is the owner of spt_lock.
Mutex == \A t \in Threads : spt_pc[t] \in Inside <=> spt_lock = t

\* Each of the strings is where it was, or a copy of what was there.
Like(strings, originals) ==
    /\ Len(strings) = Len(originals)
    /\ \A j \in 1..Len(originals) :
          strings[j] = originals[j]
          \/ (strings[j].at = Heap /\ strings[j].text = originals[j].text)
OnHeap(strings) == \A j \in 1..Len(strings) : strings[j].at = Heap

Between(first, end) == first <= end /\ first..end \subseteq Block
SpaceIsBlock == Between(spt_start, spt_start + spt_space_len - 1)

StringsKept ==
    /\ Like(NSArgv, layout.args) /\ Like(environ, layout.envs)
    /\ overwritten \subseteq Block

\* Nothing is written before all strings are out of the way, and what was
\* prepared stays.
Prepared ==
    IF spt_space_init
    THEN /\ OnHeap(NSArgv) /\ OnHeap(environ) /\ SpaceIsBlock
         /\ spt_progname \in {Null, Prog} /\ obuf \in {Null, Line, Prog}
    ELSE overwritten = {}

\* How far the thread is that prepares the space.
At(t) ==
    /\ spt_pc[t] \in Preparing => ~spt_space_init
    /\ spt_pc[t] = "format" => spt_space_init
    /\ spt_pc[t] = "walk" =>
          /\ OnHeap(environ) /\ Like(envp, layout.envs)
          /\ i[t] \in 1..(Len(NSArgv) + Len(envp)) /\ Between(NSArgv[1].at, last)
    /\ spt_pc[t] = "detach" =>
          /\ OnHeap(environ) /\ SpaceIsBlock /\ i[t] <= Len(NSArgv)
          /\ \A j \in 1..Len(NSArgv) :
                IF j <= i[t] THEN NSArgv[j].at = Heap ELSE NSArgv[j] = layout.args[j]
    /\ spt_pc[t] = "names" => OnHeap(NSArgv) /\ OnHeap(environ) /\ SpaceIsBlock

\* The vector is as it was until a thread takes it apart, under the lock.
Untouched ==
    (~spt_space_init /\ \A t \in Threads : spt_pc[t] \notin {"detach", "names"}) => NSArgv = layout.args

SptInv ==
    /\ SptTypeOK /\ Mutex /\ StringsKept /\ Prepared
    /\ \A t \in Threads : At(t)
    /\ Untouched

--------------------------------------------------------------------------------
(* Strings.                                                                *)

\* What the strings of a layout are.
LEMMA Originals ==
    ASSUME layout \in Layout
    PROVE  /\ layout.args \in Seq(Texts) /\ layout.envs \in Seq(Texts)
           /\ Len(layout.args) \in Nat /\ Len(layout.args) >= 1 /\ Len(layout.envs) \in Nat
           /\ \A j \in 1..Len(layout.args) :
                 /\ layout.args[j] \in Texts /\ layout.args[j].at # Heap
                 /\ layout.args[j].text # Garbled /\ Bytes(layout.args[j]) \subseteq Block
           /\ \A j \in 1..Len(layout.envs) :
                 /\ layout.envs[j] \in Texts /\ layout.envs[j].at # Heap
                 /\ layout.envs[j].text # Garbled /\ Bytes(layout.envs[j]) \subseteq Block
<1> DEFINE Original == [at : Address, len : Nat, text : Contents]
<1>1. layout.args \in Seq(Original) /\ layout.args # << >> /\ layout.envs \in Seq(Original)
  BY DEF Layout, Strings
<1>2. \A s \in Original : s \in Texts /\ s.at # Heap /\ s.text # Garbled
  BY LayoutAssumption DEF Texts, Address
<1> HIDE DEF Original
<1>3. /\ Len(layout.args) \in Nat /\ DOMAIN layout.args = 1..Len(layout.args)
      /\ Len(layout.envs) \in Nat /\ DOMAIN layout.envs = 1..Len(layout.envs)
      /\ Len(layout.args) >= 1
      /\ \A j \in 1..Len(layout.args) : layout.args[j] \in Original
      /\ \A j \in 1..Len(layout.envs) : layout.envs[j] \in Original
  BY <1>1
<1>4. layout.args \in Seq(Texts) /\ layout.envs \in Seq(Texts)
  BY <1>1, <1>2, <1>3
<1> DEFINE Args == UNION {Bytes(layout.args[j]) : j \in DOMAIN layout.args}
           Envs == UNION {Bytes(layout.envs[j]) : j \in DOMAIN layout.envs}
<1>a. Block = Args \union Envs
  BY DEF Block
<1> HIDE DEF Args, Envs
<1>5. Args \subseteq Block /\ Envs \subseteq Block
  BY <1>a
<1>6. ASSUME NEW j \in DOMAIN layout.args PROVE Bytes(layout.args[j]) \subseteq Block
  <2>1. Bytes(layout.args[j]) \in {Bytes(layout.args[k]) : k \in DOMAIN layout.args}
    OBVIOUS
  <2>2. Bytes(layout.args[j]) \subseteq Args
    BY <2>1, Zenon DEF Args
  <2> QED
    BY <1>5, <2>2
<1>7. ASSUME NEW j \in DOMAIN layout.envs PROVE Bytes(layout.envs[j]) \subseteq Block
  <2>1. Bytes(layout.envs[j]) \in {Bytes(layout.envs[k]) : k \in DOMAIN layout.envs}
    OBVIOUS
  <2>2. Bytes(layout.envs[j]) \subseteq Envs
    BY <2>1, Zenon DEF Envs
  <2> QED
    BY <1>5, <2>2
<1> QED
  BY <1>2, <1>3, <1>4, <1>6, <1>7

\* No byte of the block is the address Heap stands for.
LEMMA BlockIsMemory ==
    ASSUME layout \in Layout PROVE Block \subseteq Address
<1> DEFINE Original == [at : Address, len : Nat, text : Contents]
<1>1. layout.args \in Seq(Original) /\ layout.envs \in Seq(Original)
  BY DEF Layout, Strings
<1>2. ASSUME NEW s \in Original PROVE Bytes(s) \subseteq Address
  <2>1. s.at \in Nat /\ s.at # Heap /\ s.len \in Nat
    BY DEF Address
  <2> QED
    BY <2>1 DEF Bytes, Address, Heap
<1> HIDE DEF Original
<1>3. /\ \A j \in DOMAIN layout.args : Bytes(layout.args[j]) \subseteq Address
      /\ \A j \in DOMAIN layout.envs : Bytes(layout.envs[j]) \subseteq Address
  BY <1>1, <1>2
<1>4. ASSUME NEW b \in Block PROVE b \in Address
  <2>1. \/ \E j \in DOMAIN layout.args : b \in Bytes(layout.args[j])
        \/ \E j \in DOMAIN layout.envs : b \in Bytes(layout.envs[j])
    BY <1>4, Zenon DEF Block
  <2> QED
    BY <1>3, <2>1
<1> QED
  BY <1>4

\* While nothing is written, and wherever the strings are on the heap, they read
\* as they did.
LEMMA TextIsKept ==
    ASSUME NEW strings, NEW originals \in Seq(Texts), Like(strings, originals),
           overwritten = {} \/ OnHeap(strings), NEW j \in 1..Len(originals)
    PROVE  Text(strings[j]) = originals[j].text
<1>1. strings[j].text = originals[j].text
  BY DEF Like
<1>2. Bytes(strings[j]) \intersect overwritten = {}
  <2>1. CASE overwritten = {}
    BY <2>1
  <2>2. CASE OnHeap(strings)
    <3>1. strings[j].at = Heap
      BY <2>2 DEF OnHeap, Like
    <3> QED
      BY <3>1 DEF Bytes
  <2> QED
    BY <2>1, <2>2
<1> QED
  BY <1>1, <1>2 DEF Text

\* What strdup returns.
LEMMA CopyIs ==
    ASSUME NEW s \in Texts
    PROVE  Copy(s) \in Texts /\ Copy(s).at = Heap /\ Copy(s).text = Text(s)
<1>1. Text(s) \in Contents \union {Garbled}
  BY DEF Text, Texts
<1> QED
  BY <1>1 DEF Copy, Texts, Heap

\* strdup of all strings.
LEMMA CopiesAreLike ==
    ASSUME NEW strings \in Seq(Texts), NEW originals \in Seq(Texts),
           Like(strings, originals), overwritten = {}
    PROVE  /\ Copies(strings) \in Seq(Texts) /\ Like(Copies(strings), originals)
           /\ OnHeap(Copies(strings))
<1>1. /\ Len(strings) \in Nat /\ DOMAIN strings = 1..Len(strings)
      /\ Len(strings) = Len(originals)
      /\ \A j \in 1..Len(strings) : strings[j] \in Texts
  BY DEF Like
<1>2. \A j \in 1..Len(strings) :
          /\ Copy(strings[j]) \in Texts /\ Copy(strings[j]).at = Heap
          /\ Copy(strings[j]).text = originals[j].text
  BY <1>1, CopyIs, TextIsKept
<1> DEFINE copies == Copies(strings)
<1>3. copies \in Seq(Texts) /\ Len(copies) = Len(strings)
      /\ \A j \in 1..Len(strings) : copies[j] = Copy(strings[j])
  BY <1>1, <1>2 DEF Copies
<1> HIDE DEF copies
<1>4. Like(copies, originals) /\ OnHeap(copies)
  BY <1>1, <1>2, <1>3 DEF Like, OnHeap
<1> QED
  BY <1>3, <1>4 DEF copies

LEMMA LikeItself == ASSUME NEW strings PROVE Like(strings, strings)
  BY DEF Like

--------------------------------------------------------------------------------
(* The steps.                                                              *)

\* While one thread is inside, no other is.
LEMMA OthersOutside ==
    ASSUME Mutex, NEW t \in Threads, spt_pc[t] \in Inside
    PROVE  /\ spt_lock = t /\ t # NoThread
           /\ \A u \in Threads : u # t => spt_pc[u] \notin Inside
  BY LayoutAssumption DEF Mutex

\* What is claimed of a thread stays true while others leave memory alone.
LEMMA AtStays ==
    ASSUME NEW t, At(t), spt_pc'[t] = spt_pc[t], i'[t] = i[t],
           UNCHANGED <<layout, NSArgv, environ, space, walk>>
    PROVE  At(t)'
<1>1. UNCHANGED <<layout, NSArgv, environ, spt_space_init, spt_start, spt_space_len, envp, last>>
  BY DEF space, walk
<1>2. Block' = Block
  BY <1>1 DEF Block, Bytes
<1> QED
  BY <1>1, <1>2 DEF At, Like, OnHeap, Between, SpaceIsBlock

\* A step before the lock or after the unlock touches nothing that is shared.
LEMMA StepOutside ==
    ASSUME SptInv, NEW t \in Threads, NEW l \in Pcs \ Inside,
           spt_pc[t] \notin Inside, Goto(t, l),
           UNCHANGED <<layout, NSArgv, environ, overwritten, title, spt_lock, space, buf, walk, i>>,
           fmt' \in [Threads -> Titles \union {Null}], ret' \in [Threads -> BOOLEAN],
           fast' \in [Threads -> BOOLEAN], fast_update' \in BOOLEAN
    PROVE  SptInv'
<1>1. SptTypeOK /\ Mutex /\ StringsKept /\ Prepared /\ (\A u \in Threads : At(u)) /\ Untouched
  BY DEF SptInv
<1>2. UNCHANGED <<spt_space_init, spt_start, spt_space_len, spt_progname, obuf, envp, last>>
  BY DEF space, walk
<1>3. spt_pc' \in [Threads -> Pcs] /\ spt_pc'[t] = l /\ \A u \in Threads : u # t => spt_pc'[u] = spt_pc[u]
  BY <1>1 DEF Goto, SptTypeOK
<1>4. SptTypeOK'
  BY <1>1, <1>2, <1>3 DEF SptTypeOK
<1>5. Mutex'
  BY <1>1, <1>3 DEF Mutex
<1>6. Block' = Block
  BY DEF Block, Bytes
<1>7. StringsKept' /\ Prepared'
  BY <1>1, <1>2, <1>6 DEF StringsKept, Prepared, Like, OnHeap, Between, SpaceIsBlock
<1>8. ASSUME NEW u \in Threads PROVE At(u)'
  <2>1. CASE u = t
    BY <1>3, <2>1 DEF At, Inside, Preparing
  <2>2. CASE u # t
    BY <1>1, <1>3, <2>2, AtStays
  <2> QED
    BY <2>1, <2>2
<1>9. Untouched'
  BY <1>1, <1>2, <1>3 DEF Untouched, Inside, Preparing
<1> QED
  BY <1>4, <1>5, <1>7, <1>8, <1>9 DEF SptInv

LEMMA StepCall == ASSUME SptInv, NEW t \in Threads, SptCall(t) PROVE SptInv'
<1>1. SptTypeOK
  BY DEF SptInv
<1>2. "lock" \in Pcs \ Inside /\ spt_pc[t] \notin Inside /\ Goto(t, "lock")
  BY DEF SptCall, Pcs, Inside, Preparing
<1>3. fmt' \in [Threads -> Titles \union {Null}] /\ fast' \in [Threads -> BOOLEAN]
  BY <1>1 DEF SptCall, SptTypeOK
<1>4. ret' \in [Threads -> BOOLEAN] /\ fast_update' \in BOOLEAN
  BY <1>1 DEF SptCall, SptTypeOK
<1>5. UNCHANGED <<layout, NSArgv, environ, overwritten, title, spt_lock, space, buf, walk, i>>
  BY DEF SptCall
<1> QED
  BY <1>2, <1>3, <1>4, <1>5, StepOutside

LEMMA StepSetFast == ASSUME SptInv, NEW t \in Threads, SetFast(t) PROVE SptInv'
<1>1. SptTypeOK
  BY DEF SptInv
<1>2. "idle" \in Pcs \ Inside /\ spt_pc[t] \notin Inside /\ Goto(t, "idle")
  BY DEF SetFast, Pcs, Inside, Preparing
<1>3. /\ fmt' \in [Threads -> Titles \union {Null}] /\ fast' \in [Threads -> BOOLEAN]
      /\ ret' \in [Threads -> BOOLEAN] /\ fast_update' \in BOOLEAN
  BY <1>1 DEF SetFast, SptTypeOK
<1>4. UNCHANGED <<layout, NSArgv, environ, overwritten, title, spt_lock, space, buf, walk, i>>
  BY DEF SetFast
<1> QED
  BY <1>2, <1>3, <1>4, StepOutside

LEMMA StepLock == ASSUME SptInv, NEW t \in Threads, Lock(t) PROVE SptInv'
<1>1. SptTypeOK /\ Mutex /\ StringsKept /\ Prepared /\ (\A u \in Threads : At(u)) /\ Untouched
  BY DEF SptInv
<1> DEFINE l == IF spt_space_init THEN "format" ELSE "environ"
<1>2. spt_pc[t] = "lock" /\ spt_lock = NoThread /\ spt_lock' = t /\ Goto(t, l)
      /\ UNCHANGED <<layout, NSArgv, environ, overwritten, title, space, buf, walk, fmt, i, ret,
                     fast, fast_update>>
  BY DEF Lock
<1>3. UNCHANGED <<spt_space_init, spt_start, spt_space_len, spt_progname, obuf, envp, last>>
  BY <1>2 DEF space, walk
<1>4. spt_pc' \in [Threads -> Pcs] /\ spt_pc'[t] = l /\ \A u \in Threads : u # t => spt_pc'[u] = spt_pc[u]
  BY <1>1, <1>2 DEF Goto, SptTypeOK, Pcs
<1>5. \A u \in Threads : spt_pc[u] \notin Inside
  BY <1>1, <1>2, LayoutAssumption DEF Mutex
<1>6. SptTypeOK'
  BY <1>1, <1>2, <1>3, <1>4 DEF SptTypeOK
<1>7. Mutex'
  BY <1>2, <1>4, <1>5 DEF Mutex, Inside, Preparing
<1>8. Block' = Block
  BY <1>2 DEF Block, Bytes
<1>9. StringsKept' /\ Prepared'
  BY <1>1, <1>2, <1>3, <1>8 DEF StringsKept, Prepared, Like, OnHeap, Between, SpaceIsBlock
<1>10. ASSUME NEW u \in Threads PROVE At(u)'
  <2>1. CASE u = t
    BY <1>3, <1>4, <2>1 DEF At, Preparing
  <2>2. CASE u # t
    BY <1>4, <1>5, <2>2 DEF At, Inside, Preparing
  <2> QED
    BY <2>1, <2>2
<1>11. Untouched'
  BY <1>1, <1>2, <1>3, <1>5 DEF Untouched, Inside, Preparing
<1> QED
  BY <1>6, <1>7, <1>9, <1>10, <1>11 DEF SptInv

LEMMA StepFail == ASSUME SptInv, NEW t \in Threads, Fail(t) PROVE SptInv'
<1>1. SptTypeOK /\ Mutex /\ StringsKept /\ Prepared /\ (\A u \in Threads : At(u)) /\ Untouched
  BY DEF SptInv
<1>2. spt_pc[t] = "fail" /\ spt_lock' = NoThread /\ Goto(t, "fast")
      /\ ret' = [ret EXCEPT ![t] = FALSE]
      /\ UNCHANGED <<layout, NSArgv, environ, overwritten, title, space, buf, walk, fmt, i,
                     fast, fast_update>>
  BY DEF Fail
<1>3. UNCHANGED <<spt_space_init, spt_start, spt_space_len, spt_progname, obuf, envp, last>>
  BY <1>2 DEF space, walk
<1>4. spt_pc' \in [Threads -> Pcs] /\ spt_pc'[t] = "fast" /\ \A u \in Threads : u # t => spt_pc'[u] = spt_pc[u]
  BY <1>1, <1>2 DEF Goto, SptTypeOK, Pcs
<1>5. \A u \in Threads : u # t => spt_pc[u] \notin Inside
  BY <1>1, <1>2, OthersOutside DEF Inside
<1>6. SptTypeOK'
  BY <1>1, <1>2, <1>3, <1>4 DEF SptTypeOK
<1>7. Mutex'
  BY <1>2, <1>4, <1>5, LayoutAssumption DEF Mutex, Inside, Preparing
<1>8. Block' = Block
  BY <1>2 DEF Block, Bytes
<1>9. StringsKept' /\ Prepared'
  BY <1>1, <1>2, <1>3, <1>8 DEF StringsKept, Prepared, Like, OnHeap, Between, SpaceIsBlock
<1>10. ASSUME NEW u \in Threads PROVE At(u)'
  BY <1>4, <1>5 DEF At, Inside, Preparing
<1>11. Untouched'
  BY <1>1, <1>2, <1>3, <1>4, <1>5 DEF Untouched, Inside, Preparing
<1> QED
  BY <1>6, <1>7, <1>9, <1>10, <1>11 DEF SptInv

LEMMA StepCopyEnviron ==
    ASSUME SptInv, NEW t \in Threads, CopyEnviron(t) PROVE SptInv'
<1>1. SptTypeOK /\ Mutex /\ StringsKept /\ Prepared /\ (\A u \in Threads : At(u)) /\ Untouched
  BY DEF SptInv
<1>2. spt_pc[t] = "environ"
      /\ UNCHANGED <<layout, NSArgv, overwritten, title, spt_lock, space, buf, fmt, ret, fast,
                     fast_update>>
  BY DEF CopyEnviron
<1>3. UNCHANGED <<spt_space_init, spt_start, spt_space_len, spt_progname, obuf>>
  BY <1>2 DEF space
<1>4. spt_lock = t /\ \A u \in Threads : u # t => spt_pc[u] \notin Inside
  BY <1>1, <1>2, OthersOutside DEF Inside, Preparing
<1>5. ~spt_space_init /\ overwritten = {} /\ NSArgv = layout.args
  BY <1>1, <1>2, <1>4 DEF At, Preparing, Inside, Prepared, Untouched
<1>6. PICK l \in {"walk", "fail"} : Goto(t, l) /\
         IF l = "walk" THEN /\ environ' = Copies(environ)
                            /\ envp' = environ /\ last' = NSArgv[1].at + NSArgv[1].len
                            /\ i' = [i EXCEPT ![t] = 1]
         ELSE UNCHANGED <<environ, walk, i>>
  BY DEF CopyEnviron
<1>7. spt_pc' \in [Threads -> Pcs] /\ spt_pc'[t] = l /\ \A u \in Threads : u # t => spt_pc'[u] = spt_pc[u]
  BY <1>1, <1>6 DEF Goto, SptTypeOK, Pcs
<1>8. Block' = Block
  BY <1>2 DEF Block, Bytes
<1>9. Mutex'
  BY <1>1, <1>2, <1>4, <1>6, <1>7 DEF Mutex, Inside, Preparing
<1>10. layout \in Layout /\ environ \in Seq(Texts) /\ Like(environ, layout.envs)
  BY <1>1 DEF SptTypeOK, StringsKept
<1>11. environ' \in Seq(Texts) /\ Like(environ', layout.envs) /\ (l = "walk" => OnHeap(environ'))
  <2>1. CASE l = "walk"
    BY <1>5, <1>6, <1>10, <2>1, Originals, CopiesAreLike
  <2>2. CASE l # "walk"
    BY <1>6, <1>10, <2>2
  <2> QED
    BY <2>1, <2>2
<1>12. l = "walk" => /\ last' \in Nat /\ i'[t] \in 1..(Len(NSArgv) + Len(envp'))
                     /\ NSArgv[1].at <= last' /\ NSArgv[1].at..last' \subseteq Block
  <2> SUFFICES ASSUME l = "walk"
               PROVE  /\ last' \in Nat /\ i'[t] \in 1..(Len(NSArgv) + Len(envp'))
                      /\ NSArgv[1].at <= last' /\ NSArgv[1].at..last' \subseteq Block
    OBVIOUS
  <2>1. /\ NSArgv[1] \in Texts /\ NSArgv[1].at # Heap /\ Bytes(NSArgv[1]) \subseteq Block
        /\ Len(NSArgv) \in Nat /\ Len(NSArgv) >= 1 /\ Len(environ) \in Nat
    BY <1>5, <1>10, Originals
  <2>2. NSArgv[1].at \in Nat /\ NSArgv[1].len \in Nat /\ last' = NSArgv[1].at + NSArgv[1].len
    BY <1>6, <2>1 DEF Texts
  <2>3. i'[t] = 1 /\ envp' = environ
    BY <1>1, <1>6 DEF SptTypeOK
  <2>4. NSArgv[1].at..last' = Bytes(NSArgv[1])
    BY <2>1, <2>2 DEF Bytes
  <2> QED
    BY <2>1, <2>2, <2>3, <2>4
<1>13. SptTypeOK'
  <2>1. i' \in [Threads -> Nat] /\ envp' \in Seq(Texts) /\ last' \in Nat
    <3>1. CASE l = "walk"
      <4>1. i' = [i EXCEPT ![t] = 1] /\ envp' = environ /\ last' \in Nat
        BY <1>6, <1>12, <3>1
      <4>2. i \in [Threads -> Nat]
        BY <1>1 DEF SptTypeOK
      <4> QED
        BY <1>10, <4>1, <4>2
    <3>2. CASE l # "walk"
      BY <1>1, <1>6, <3>2 DEF SptTypeOK, walk
    <3> QED
      BY <3>1, <3>2
  <2> QED
    BY <1>1, <1>2, <1>3, <1>7, <1>11, <2>1 DEF SptTypeOK
<1>14. StringsKept' /\ Prepared'
  <2>1. Like(environ', layout'.envs) /\ Like(NSArgv', layout'.args) /\ overwritten' = {}
    BY <1>1, <1>2, <1>5, <1>11 DEF StringsKept
  <2> QED
    BY <1>3, <1>5, <2>1 DEF StringsKept, Prepared, Like
<1>15. ASSUME NEW u \in Threads PROVE At(u)'
  <2>1. CASE u # t
    BY <1>4, <1>7, <2>1 DEF At, Inside, Preparing
  <2>2. CASE u = t /\ l # "walk"
    BY <1>6, <1>7, <2>2 DEF At, Preparing
  <2>3. CASE u = t /\ l = "walk"
    <3>1. OnHeap(environ') /\ Like(envp', layout'.envs) /\ i'[t] \in 1..(Len(NSArgv') + Len(envp'))
      BY <1>2, <1>6, <1>10, <1>11, <1>12, <2>3
    <3>2. Between(NSArgv[1].at, last)'
      BY <1>2, <1>8, <1>12, <2>3 DEF Between
    <3> QED
      BY <1>3, <1>5, <1>7, <2>3, <3>1, <3>2 DEF At, OnHeap, Like
  <2> QED
    BY <2>1, <2>2, <2>3
<1>16. Untouched'
  BY <1>2, <1>5 DEF Untouched
<1> QED
  BY <1>9, <1>13, <1>14, <1>15, <1>16 DEF SptInv

\* A string that begins where the space ends makes it longer, and no byte
\* between is left out.
LEMMA Adjoined ==
    ASSUME NEW first \in Nat, NEW end \in Nat, first <= end, first..end \subseteq Block,
           NEW s \in Texts, s.at # Heap, s.at = end + 1, Bytes(s) \subseteq Block
    PROVE  first <= s.at + s.len /\ first..(s.at + s.len) \subseteq Block
<1>1. s.at \in Nat /\ s.len \in Nat
  BY DEF Texts
<1>2. first <= s.at + s.len
  BY <1>1
<1>3. Bytes(s) = s.at..(s.at + s.len)
  BY DEF Bytes
<1>4. ASSUME NEW b \in first..(s.at + s.len) PROVE b \in Block
  <2>1. CASE b <= end
    BY <2>1
  <2>2. CASE b > end
    BY <1>1, <1>3, <2>2
  <2> QED
    BY <2>1, <2>2
<1> QED
  BY <1>2, <1>4

\* What lies at a place of two sequences put together.
LEMMA Concatenated ==
    ASSUME NEW S, NEW s \in Seq(S), NEW u \in Seq(S), NEW k \in 1..(Len(s) + Len(u))
    PROVE  /\ Len(s \o u) = Len(s) + Len(u)
           /\ (s \o u)[k] = IF k <= Len(s) THEN s[k] ELSE u[k - Len(s)]
  OBVIOUS

\* The strings the walk goes over.
LEMMA Walked ==
    ASSUME layout \in Layout, NSArgv = layout.args,
           envp \in Seq(Texts), Like(envp, layout.envs), NEW k \in 1..(Len(NSArgv) + Len(envp))
    PROVE  /\ Len(NSArgv \o envp) = Len(NSArgv) + Len(envp)
           /\ (NSArgv \o envp)[k] \in Texts
           /\ (NSArgv \o envp)[k].at # Heap => Bytes((NSArgv \o envp)[k]) \subseteq Block
<1>1. NSArgv \in Seq(Texts) /\ Len(NSArgv) \in Nat /\ Len(envp) \in Nat /\ Len(envp) = Len(layout.envs)
  BY Originals DEF Like
<1>2. Len(NSArgv \o envp) = Len(NSArgv) + Len(envp)
      /\ (NSArgv \o envp)[k] = IF k <= Len(NSArgv) THEN NSArgv[k] ELSE envp[k - Len(NSArgv)]
  BY <1>1, Concatenated
<1> DEFINE n == Len(NSArgv)
           m == Len(envp)
<1>b. n \in Nat /\ m \in Nat /\ k \in 1..(n + m) /\ m = Len(layout.envs)
  BY <1>1
<1> HIDE DEF n, m
<1>a. k \in Nat /\ k >= 1 /\ k <= n + m /\ (k > n => k - n \in 1..m)
  BY <1>b
<1>d. k <= n \/ k > n
  BY <1>a, <1>b
<1>c. n = Len(NSArgv) /\ m = Len(envp)
  BY DEF n, m
<1>3. CASE k <= Len(NSArgv)
  <2>1. k \in 1..Len(layout.args) /\ (NSArgv \o envp)[k] = layout.args[k]
    BY <1>1, <1>2, <1>3, <1>a, <1>c
  <2> QED
    BY <1>2, <2>1, Originals
<1>4. CASE k > Len(NSArgv)
  <2>1. k - Len(NSArgv) \in 1..Len(layout.envs)
    BY <1>1, <1>4, <1>a, <1>c
  <2> DEFINE s == envp[k - Len(NSArgv)]
  <2>2. s \in Texts /\ (s.at # Heap => s = layout.envs[k - Len(NSArgv)])
    BY <1>1, <2>1 DEF Like
  <2>3. Bytes(layout.envs[k - Len(NSArgv)]) \subseteq Block
    BY <2>1, Originals
  <2>4. (NSArgv \o envp)[k] = s
    BY <1>1, <1>2, <1>4
  <2> QED
    BY <1>2, <2>2, <2>3, <2>4
<1> QED
  BY <1>3, <1>4, <1>c, <1>d

LEMMA StepWalk == ASSUME SptInv, NEW t \in Threads, Walk(t) PROVE SptInv'
<1>1. SptTypeOK /\ Mutex /\ StringsKept /\ Prepared /\ (\A u \in Threads : At(u)) /\ Untouched
  BY DEF SptInv
<1>2. spt_pc[t] = "walk"
      /\ UNCHANGED <<layout, NSArgv, environ, overwritten, title, spt_lock, spt_space_init,
                     spt_progname, obuf, buf, envp, fmt, ret, fast, fast_update>>
  BY DEF Walk
<1>3. spt_lock = t /\ \A u \in Threads : u # t => spt_pc[u] \notin Inside
  BY <1>1, <1>2, OthersOutside DEF Inside, Preparing
<1>4. /\ ~spt_space_init /\ overwritten = {} /\ NSArgv = layout.args
      /\ OnHeap(environ) /\ Like(envp, layout.envs)
      /\ i[t] \in 1..(Len(NSArgv) + Len(envp)) /\ Between(NSArgv[1].at, last)
  BY <1>1, <1>2, <1>3 DEF At, Preparing, Inside, Prepared, Untouched
<1>5. Block' = Block
  BY <1>2 DEF Block, Bytes
<1>6. /\ layout \in Layout /\ envp \in Seq(Texts) /\ last \in Nat /\ i[t] \in Nat
      /\ Len(NSArgv) \in Nat /\ Len(NSArgv) >= 1 /\ Len(envp) \in Nat
      /\ NSArgv[1].at \in Nat /\ NSArgv[1].at # Heap /\ NSArgv[1].at <= last
  BY <1>1, <1>4, Originals DEF SptTypeOK, Texts, Between
<1>7. StringsKept'
  BY <1>1, <1>2, <1>5 DEF StringsKept, Like
<1>8. Prepared'
  BY <1>2, <1>4 DEF Prepared
<1>9. Untouched'
  BY <1>2, <1>4 DEF Untouched
<1> DEFINE strings == NSArgv \o envp
           s == strings[i[t] + 1]
<1>10. CASE /\ i[t] < Len(strings)
            /\ last' = IF s.at # Heap /\ s.at = last + 1 THEN s.at + s.len ELSE last
            /\ i' = [i EXCEPT ![t] = @ + 1]
            /\ UNCHANGED <<spt_start, spt_space_len, spt_pc>>
  <2>1. Len(strings) = Len(NSArgv) + Len(envp)
    BY <1>4, <1>6, Walked
  <2>2. i[t] + 1 \in 1..(Len(NSArgv) + Len(envp))
    BY <1>6, <1>10, <2>1
  <2>3. s \in Texts /\ (s.at # Heap => Bytes(s) \subseteq Block)
    BY <1>4, <1>6, <2>2, Walked
  <2> HIDE DEF s
  <2>4. last' \in Nat /\ NSArgv[1].at <= last' /\ NSArgv[1].at..last' \subseteq Block
    <3>1. CASE s.at # Heap /\ s.at = last + 1
      <4>1. NSArgv[1].at <= s.at + s.len /\ NSArgv[1].at..(s.at + s.len) \subseteq Block
        BY <1>4, <1>6, <2>3, <3>1, Adjoined DEF Between
      <4>2. s.at + s.len \in Nat
        BY <2>3 DEF Texts
      <4> QED
        BY <1>10, <3>1, <4>1, <4>2
    <3>2. CASE ~(s.at # Heap /\ s.at = last + 1)
      BY <1>4, <1>6, <1>10, <3>2 DEF Between
    <3> QED
      BY <3>1, <3>2
  <2>5. i' \in [Threads -> Nat] /\ i'[t] = i[t] + 1
    BY <1>1, <1>10 DEF SptTypeOK
  <2>6. SptTypeOK'
    BY <1>1, <1>2, <1>10, <2>4, <2>5 DEF SptTypeOK
  <2>7. Mutex'
    BY <1>1, <1>2, <1>10 DEF Mutex
  <2>8. ASSUME NEW u \in Threads PROVE At(u)'
    <3>1. CASE u # t
      BY <1>3, <1>10, <3>1 DEF At, Inside, Preparing
    <3>2. CASE u = t
      <4>1. Between(NSArgv[1].at, last)'
        BY <1>2, <1>5, <2>4 DEF Between
      <4>2. OnHeap(environ') /\ Like(envp', layout'.envs) /\ i'[t] \in 1..(Len(NSArgv') + Len(envp'))
        BY <1>2, <1>4, <2>2, <2>5
      <4> QED
        BY <1>2, <1>4, <1>10, <3>2, <4>1, <4>2 DEF At, OnHeap, Like
    <3> QED
      BY <3>1, <3>2
  <2> QED
    BY <1>7, <1>8, <1>9, <2>6, <2>7, <2>8 DEF SptInv
<1>11. CASE i[t] = Len(strings) /\ TakeSpace(t)
  <2>1. PICK l \in {"fail", "detach"} :
           /\ Goto(t, l) /\ i' = [i EXCEPT ![t] = 0] /\ last' = last
           /\ spt_start' = NSArgv[1].at /\ spt_space_len' = (last - NSArgv[1].at) + 1
    BY <1>11 DEF TakeSpace
  <2>2. spt_pc' \in [Threads -> Pcs] /\ spt_pc'[t] = l /\ \A u \in Threads : u # t => spt_pc'[u] = spt_pc[u]
    BY <1>1, <2>1 DEF Goto, SptTypeOK, Pcs
  <2>3. /\ spt_start' \in Nat /\ spt_space_len' \in Nat
        /\ spt_start' + spt_space_len' - 1 = last
    BY <1>6, <2>1
  <2>4. i' \in [Threads -> Nat] /\ i'[t] = 0
    BY <1>1, <2>1 DEF SptTypeOK
  <2>5. SptTypeOK'
    BY <1>1, <1>2, <2>1, <2>2, <2>3, <2>4 DEF SptTypeOK
  <2>6. Mutex'
    BY <1>1, <1>2, <1>3, <2>1, <2>2 DEF Mutex, Inside, Preparing
  <2>7. SpaceIsBlock'
    BY <1>4, <1>5, <2>1, <2>3 DEF SpaceIsBlock, Between
  <2>8. ASSUME NEW u \in Threads PROVE At(u)'
    <3>1. CASE u # t
      BY <1>3, <2>2, <3>1 DEF At, Inside, Preparing
    <3>2. CASE u = t
      <4>1. \A j \in 1..Len(NSArgv') :
               IF j <= i'[t] THEN NSArgv'[j].at = Heap ELSE NSArgv'[j] = layout'.args[j]
        BY <1>2, <1>4, <1>6, <2>4
      <4>2. i'[t] <= Len(NSArgv') /\ OnHeap(environ')
        BY <1>2, <1>4, <1>6, <2>4
      <4> QED
        BY <1>2, <1>4, <2>2, <2>7, <3>2, <4>1, <4>2 DEF At, OnHeap
    <3> QED
      BY <3>1, <3>2
  <2> QED
    BY <1>7, <1>8, <1>9, <2>5, <2>6, <2>8 DEF SptInv
<1> QED
  BY <1>10, <1>11 DEF Walk

LEMMA StepDetachFails ==
    ASSUME SptInv, NEW t \in Threads, DetachFails(t) PROVE SptInv'
<1>1. SptTypeOK /\ Mutex /\ StringsKept /\ Prepared /\ (\A u \in Threads : At(u)) /\ Untouched
  BY DEF SptInv
<1>2. spt_pc[t] = "detach" /\ i[t] = 0 /\ Goto(t, "fail")
      /\ UNCHANGED <<layout, NSArgv, environ, overwritten, title, spt_lock, space, buf, walk, fmt,
                     i, ret, fast, fast_update>>
  BY DEF DetachFails
<1>3. UNCHANGED <<spt_space_init, spt_start, spt_space_len, spt_progname, obuf, envp, last>>
  BY <1>2 DEF space, walk
<1>4. spt_pc' \in [Threads -> Pcs] /\ spt_pc'[t] = "fail" /\ \A u \in Threads : u # t => spt_pc'[u] = spt_pc[u]
  BY <1>1, <1>2 DEF Goto, SptTypeOK, Pcs
<1>5. spt_lock = t /\ \A u \in Threads : u # t => spt_pc[u] \notin Inside
  BY <1>1, <1>2, OthersOutside DEF Inside, Preparing
<1>6. SptTypeOK'
  BY <1>1, <1>2, <1>3, <1>4 DEF SptTypeOK
<1>7. Mutex'
  BY <1>1, <1>2, <1>4, <1>5 DEF Mutex, Inside, Preparing
<1>8. Block' = Block
  BY <1>2 DEF Block, Bytes
<1>9. StringsKept' /\ Prepared'
  BY <1>1, <1>2, <1>3, <1>8 DEF StringsKept, Prepared, Like, OnHeap, Between, SpaceIsBlock
<1>10. ASSUME NEW u \in Threads PROVE At(u)'
  BY <1>4, <1>5 DEF At, Inside, Preparing
<1>11. NSArgv = layout.args
  <2>1. NSArgv \in Seq(Texts) /\ layout.args \in Seq(Texts) /\ Len(NSArgv) = Len(layout.args)
    BY <1>1, Originals DEF SptTypeOK, StringsKept, Like
  <2>2. \A j \in 1..Len(NSArgv) : IF j <= 0 THEN NSArgv[j].at = Heap ELSE NSArgv[j] = layout.args[j]
    BY <1>1, <1>2 DEF At
  <2>3. \A j \in 1..Len(NSArgv) : NSArgv[j] = layout.args[j]
    BY <2>2
  <2> QED
    BY <2>1, <2>3
<1>12. Untouched'
  BY <1>2, <1>11 DEF Untouched
<1> QED
  BY <1>6, <1>7, <1>9, <1>10, <1>12 DEF SptInv

LEMMA StepDetach == ASSUME SptInv, NEW t \in Threads, Detach(t) PROVE SptInv'
<1>1. SptTypeOK /\ Mutex /\ StringsKept /\ Prepared /\ (\A u \in Threads : At(u)) /\ Untouched
  BY DEF SptInv
<1>2. spt_pc[t] = "detach"
      /\ UNCHANGED <<layout, environ, overwritten, title, spt_lock, space, buf, walk, fmt, ret,
                     fast, fast_update>>
  BY DEF Detach
<1>3. UNCHANGED <<spt_space_init, spt_start, spt_space_len, spt_progname, obuf, envp, last>>
  BY <1>2 DEF space, walk
<1>4. spt_lock = t /\ \A u \in Threads : u # t => spt_pc[u] \notin Inside
  BY <1>1, <1>2, OthersOutside DEF Inside, Preparing
<1>5. /\ ~spt_space_init /\ overwritten = {} /\ OnHeap(environ) /\ SpaceIsBlock
      /\ i[t] <= Len(NSArgv)
      /\ \A j \in 1..Len(NSArgv) :
            IF j <= i[t] THEN NSArgv[j].at = Heap ELSE NSArgv[j] = layout.args[j]
  BY <1>1, <1>2 DEF At, Preparing, Prepared
<1>6. Block' = Block
  BY <1>2 DEF Block, Bytes
<1>7. SpaceIsBlock'
  BY <1>3, <1>5, <1>6 DEF SpaceIsBlock, Between
<1>8. /\ NSArgv \in Seq(Texts) /\ Len(NSArgv) \in Nat /\ Like(NSArgv, layout.args)
      /\ Like(environ, layout.envs) /\ i[t] \in Nat /\ layout.args \in Seq(Texts)
  BY <1>1, Originals DEF SptTypeOK, StringsKept
<1>9. CASE i[t] < Len(NSArgv)
  <2>1. /\ NSArgv' = [NSArgv EXCEPT ![i[t] + 1] = Copy(@)] /\ i' = [i EXCEPT ![t] = @ + 1]
        /\ spt_pc' = spt_pc
    BY <1>9 DEF Detach
  <2> DEFINE k == i[t] + 1
             s == Copy(NSArgv[k])
  <2>2. k \in 1..Len(NSArgv) /\ NSArgv[k] \in Texts /\ k \in DOMAIN NSArgv
    BY <1>8, <1>9
  <2>3. s \in Texts /\ s.at = Heap /\ s.text = layout.args[k].text
    <3>1. k \in 1..Len(layout.args)
      BY <1>8, <2>2 DEF Like
    <3> QED
      BY <1>5, <1>8, <2>2, <3>1, CopyIs, TextIsKept
  <2>4. NSArgv' = [NSArgv EXCEPT ![k] = s]
    BY <2>1, <2>2
  <2> HIDE DEF s, k
  <2>5. /\ NSArgv' \in Seq(Texts) /\ Len(NSArgv') = Len(NSArgv) /\ NSArgv'[k] = s
        /\ \A j \in 1..Len(NSArgv) : j # k => NSArgv'[j] = NSArgv[j]
    BY <1>8, <2>2, <2>3, <2>4
  <2>6. i' \in [Threads -> Nat] /\ i'[t] = k
    BY <1>1, <2>1 DEF SptTypeOK, k
  <2>7. Like(NSArgv', layout.args)
    BY <1>8, <2>2, <2>3, <2>5 DEF Like
  <2>8. SptTypeOK'
    BY <1>1, <1>2, <1>3, <2>1, <2>5, <2>6 DEF SptTypeOK
  <2>9. Mutex'
    BY <1>1, <1>2, <2>1 DEF Mutex
  <2>10. StringsKept' /\ Prepared'
    <3>1. Like(environ', layout'.envs) /\ Like(NSArgv', layout'.args) /\ overwritten' = {}
      BY <1>2, <1>5, <1>8, <2>7
    <3> QED
      BY <1>3, <1>5, <3>1 DEF StringsKept, Prepared, Like
  <2>11. ASSUME NEW u \in Threads PROVE At(u)'
    <3>1. CASE u # t
      BY <1>4, <2>1, <3>1 DEF At, Inside, Preparing
    <3>2. CASE u = t
      <4>1. ASSUME NEW j \in 1..Len(NSArgv)
            PROVE IF j <= k THEN NSArgv'[j].at = Heap ELSE NSArgv'[j] = layout.args[j]
        <5>1. CASE j = k
          BY <1>8, <2>2, <2>3, <2>5, <5>1
        <5>2. CASE j # k
          <6>1. NSArgv'[j] = NSArgv[j] /\ (j <= i[t] <=> j <= k)
            BY <1>8, <2>5, <5>2 DEF k
          <6> QED
            BY <1>5, <6>1
        <5> QED
          BY <5>1, <5>2
      <4>2. i'[t] <= Len(NSArgv')
        BY <1>8, <2>2, <2>5, <2>6
      <4>3. \A j \in 1..Len(NSArgv') :
               IF j <= i'[t] THEN NSArgv'[j].at = Heap ELSE NSArgv'[j] = layout'.args[j]
        BY <1>2, <2>5, <2>6, <4>1
      <4>4. OnHeap(environ')
        BY <1>2, <1>5
      <4> QED
        BY <1>2, <1>3, <1>5, <1>7, <2>1, <3>2, <4>2, <4>3, <4>4 DEF At, OnHeap
    <3> QED
      BY <3>1, <3>2
  <2>12. Untouched'
    BY <1>2, <2>1 DEF Untouched
  <2> QED
    BY <2>8, <2>9, <2>10, <2>11, <2>12 DEF SptInv
<1>10. CASE ~(i[t] < Len(NSArgv))
  <2>1. Goto(t, "names") /\ NSArgv' = NSArgv /\ i' = i
    BY <1>10 DEF Detach
  <2>2. spt_pc' \in [Threads -> Pcs] /\ spt_pc'[t] = "names" /\ \A u \in Threads : u # t => spt_pc'[u] = spt_pc[u]
    BY <1>1, <2>1 DEF Goto, SptTypeOK, Pcs
  <2>3. OnHeap(NSArgv)
    <3>1. \A j \in 1..Len(NSArgv) : j <= i[t]
      BY <1>5, <1>8, <1>10
    <3> QED
      BY <1>5, <3>1 DEF OnHeap
  <2>4. SptTypeOK'
    BY <1>1, <1>2, <1>3, <2>1, <2>2 DEF SptTypeOK
  <2>5. Mutex'
    BY <1>1, <1>2, <1>4, <2>2 DEF Mutex, Inside, Preparing
  <2>6. StringsKept' /\ Prepared'
    BY <1>1, <1>2, <1>3, <1>6, <2>1 DEF StringsKept, Prepared, Like, OnHeap, Between, SpaceIsBlock
  <2>7. ASSUME NEW u \in Threads PROVE At(u)'
    <3>1. CASE u # t
      BY <1>4, <2>2, <3>1 DEF At, Inside, Preparing
    <3>2. CASE u = t
      BY <1>2, <1>3, <1>5, <1>7, <2>1, <2>2, <2>3, <3>2 DEF At, OnHeap
    <3> QED
      BY <3>1, <3>2
  <2>8. Untouched'
    BY <2>2 DEF Untouched
  <2> QED
    BY <2>4, <2>5, <2>6, <2>7, <2>8 DEF SptInv
<1> QED
  BY <1>9, <1>10

LEMMA StepNames == ASSUME SptInv, NEW t \in Threads, Names(t) PROVE SptInv'
<1>1. SptTypeOK /\ Mutex /\ StringsKept /\ Prepared /\ (\A u \in Threads : At(u)) /\ Untouched
  BY DEF SptInv
<1>2. /\ spt_pc[t] = "names" /\ spt_space_init' = TRUE /\ Goto(t, "format")
      /\ UNCHANGED <<layout, NSArgv, environ, overwritten, title, spt_lock, spt_start,
                     spt_space_len, buf, walk, fmt, i, ret, fast, fast_update>>
  BY DEF Names
<1>3. UNCHANGED <<envp, last>>
  BY <1>2 DEF walk
<1>4. spt_lock = t /\ \A u \in Threads : u # t => spt_pc[u] \notin Inside
  BY <1>1, <1>2, OthersOutside DEF Inside, Preparing
<1>5. ~spt_space_init /\ overwritten = {} /\ OnHeap(NSArgv) /\ OnHeap(environ) /\ SpaceIsBlock
  BY <1>1, <1>2 DEF At, Preparing, Prepared
<1>6. spt_pc' \in [Threads -> Pcs] /\ spt_pc'[t] = "format" /\ \A u \in Threads : u # t => spt_pc'[u] = spt_pc[u]
  BY <1>1, <1>2 DEF Goto, SptTypeOK, Pcs
<1>7. Block' = Block
  BY <1>2 DEF Block, Bytes
<1>8. NSArgv \in Seq(Texts) /\ layout.args \in Seq(Texts) /\ Like(NSArgv, layout.args)
      /\ \A j \in 1..Len(layout.args) : layout.args[j].text # Garbled
  BY <1>1, Originals DEF SptTypeOK, StringsKept
<1>9. Text(layout.args[1]) # Garbled
  BY <1>1, <1>5, <1>8, Originals DEF Text, SptTypeOK
<1>10. Joined(NSArgv) = Line
  <2>1. \A j \in DOMAIN NSArgv : Text(NSArgv[j]) # Garbled
    <3>1. DOMAIN NSArgv = 1..Len(layout.args)
      BY <1>8 DEF Like
    <3> QED
      BY <1>5, <1>8, <3>1, TextIsKept
  <2> QED
    BY <2>1 DEF Joined
<1>11. spt_progname' \in {Null, Prog} /\ obuf' \in {Null, Line, Prog}
  BY <1>9, <1>10 DEF Names
<1>12. SptTypeOK'
  BY <1>1, <1>2, <1>3, <1>6, <1>11 DEF SptTypeOK
<1>13. Mutex'
  BY <1>1, <1>2, <1>4, <1>6 DEF Mutex, Inside, Preparing
<1>14. StringsKept' /\ Prepared'
  BY <1>1, <1>2, <1>5, <1>7, <1>11 DEF StringsKept, Prepared, Like, OnHeap, Between, SpaceIsBlock
<1>15. ASSUME NEW u \in Threads PROVE At(u)'
  BY <1>2, <1>4, <1>6 DEF At, Inside, Preparing
<1>16. Untouched'
  BY <1>2 DEF Untouched
<1> QED
  BY <1>12, <1>13, <1>14, <1>15, <1>16 DEF SptInv

LEMMA StepFormat == ASSUME SptInv, NEW t \in Threads, Format(t) PROVE SptInv'
<1>1. SptTypeOK /\ Mutex /\ StringsKept /\ Prepared /\ (\A u \in Threads : At(u)) /\ Untouched
  BY DEF SptInv
<1>2. spt_pc[t] = "format"
      /\ UNCHANGED <<layout, NSArgv, environ, space, walk, fmt, i, fast, fast_update>>
  BY DEF Format
<1>3. UNCHANGED <<spt_space_init, spt_start, spt_space_len, spt_progname, obuf, envp, last>>
  BY <1>2 DEF space, walk
<1>4. spt_lock = t /\ t # NoThread /\ \A u \in Threads : u # t => spt_pc[u] \notin Inside
  BY <1>1, <1>2, OthersOutside DEF Inside
<1>5. spt_space_init /\ SpaceIsBlock
  BY <1>1, <1>2 DEF At, Prepared
<1>6. Block' = Block
  BY <1>2 DEF Block, Bytes
<1> DEFINE painted == spt_start..(spt_start + spt_space_len - 1)
<1>7. painted \subseteq Block /\ overwritten \subseteq Block /\ Block \subseteq Address
  <2>1. painted \subseteq Block /\ overwritten \subseteq Block
    BY <1>1, <1>5 DEF SpaceIsBlock, Between, StringsKept
  <2>2. Block \subseteq Address
    BY <1>1, BlockIsMemory DEF SptTypeOK
  <2> QED
    BY <2>1, <2>2
<1> HIDE DEF painted
<1>8. /\ overwritten' \in {overwritten, overwritten \union painted}
      /\ title' \in {title, obuf, fmt[t]} /\ buf' \in BOOLEAN /\ ret' \in [Threads -> BOOLEAN]
      /\ \/ Goto(t, "fast") /\ spt_lock' = NoThread
         \/ Goto(t, "fail") /\ spt_lock' = spt_lock
  BY <1>1 DEF Format, SptTypeOK, painted
<1>9. PICK l \in {"fast", "fail"} :
         Goto(t, l) /\ spt_lock' = IF l = "fast" THEN NoThread ELSE spt_lock
  BY <1>8
<1>10. spt_pc' \in [Threads -> Pcs] /\ spt_pc'[t] = l /\ \A u \in Threads : u # t => spt_pc'[u] = spt_pc[u]
  BY <1>1, <1>9 DEF Goto, SptTypeOK, Pcs
<1>11. overwritten' \subseteq Block /\ overwritten' \subseteq Address
  BY <1>7, <1>8
<1>12. SptTypeOK'
  <2>1. title' \in Titles \union {Null, Line, Prog, Garbled}
    BY <1>1, <1>8 DEF SptTypeOK
  <2>2. spt_lock' \in Threads \union {NoThread}
    BY <1>1, <1>9 DEF SptTypeOK
  <2> QED
    BY <1>1, <1>2, <1>3, <1>8, <1>10, <1>11, <2>1, <2>2 DEF SptTypeOK
<1>13. Mutex'
  BY <1>4, <1>9, <1>10, LayoutAssumption DEF Mutex, Inside, Preparing
<1>14. StringsKept' /\ Prepared'
  BY <1>1, <1>2, <1>3, <1>5, <1>6, <1>11
  DEF StringsKept, Prepared, Like, OnHeap, Between, SpaceIsBlock
<1>15. ASSUME NEW u \in Threads PROVE At(u)'
  BY <1>4, <1>9, <1>10 DEF At, Inside, Preparing
<1>16. Untouched'
  BY <1>3, <1>5 DEF Untouched
<1> QED
  BY <1>12, <1>13, <1>14, <1>15, <1>16 DEF SptInv

\* setenv moves a string of environ to the heap, and no thread is at work.
LEMMA StepSetEnv == ASSUME SptInv, SetEnv PROVE SptInv'
<1>1. SptTypeOK /\ Mutex /\ StringsKept /\ Prepared /\ (\A u \in Threads : At(u)) /\ Untouched
  BY DEF SptInv
<1>2. /\ \A u \in Threads : spt_pc[u] = "idle"
      /\ UNCHANGED <<layout, NSArgv, overwritten, title, spt_lock, space, buf, spt_pc, walk, fmt, i,
                     ret, fast, fast_update>>
  BY DEF SetEnv
<1>3. UNCHANGED <<spt_space_init, spt_start, spt_space_len, spt_progname, obuf, envp, last>>
  BY <1>2 DEF space, walk
<1>4. PICK k \in DOMAIN environ : environ' = [environ EXCEPT ![k].at = Heap]
  BY DEF SetEnv
<1> DEFINE s == [environ[k] EXCEPT !.at = Heap]
<1>5. environ \in Seq(Texts) /\ Like(environ, layout.envs) /\ k \in 1..Len(environ)
      /\ environ[k] \in Texts
  BY <1>1, <1>4 DEF SptTypeOK, StringsKept
<1>6. s \in Texts /\ s.at = Heap /\ s.text = environ[k].text
  BY <1>5 DEF Texts, Heap
<1>7. environ' = [environ EXCEPT ![k] = s]
  BY <1>4
<1> HIDE DEF s
<1>8. /\ environ' \in Seq(Texts) /\ Len(environ') = Len(environ) /\ environ'[k] = s
      /\ \A j \in 1..Len(environ) : j # k => environ'[j] = environ[j]
  BY <1>5, <1>6, <1>7
<1>9. Like(environ', layout.envs) /\ (OnHeap(environ) => OnHeap(environ'))
  BY <1>5, <1>6, <1>8 DEF Like, OnHeap
<1>10. Block' = Block
  BY <1>2 DEF Block, Bytes
<1>11. SptTypeOK'
  BY <1>1, <1>2, <1>3, <1>8 DEF SptTypeOK
<1>12. Mutex'
  BY <1>1, <1>2 DEF Mutex
<1>13. StringsKept'
  <2>1. Like(environ', layout'.envs) /\ Like(NSArgv', layout'.args) /\ overwritten' \subseteq Block'
    BY <1>1, <1>2, <1>9, <1>10 DEF StringsKept
  <2> QED
    BY <2>1 DEF StringsKept, Like
<1>14. Prepared'
  <2>1. CASE spt_space_init
    <3>1. OnHeap(environ')
      BY <1>1, <1>9, <2>1 DEF Prepared
    <3> QED
      BY <1>1, <1>2, <1>3, <1>10, <2>1, <3>1 DEF Prepared, OnHeap, SpaceIsBlock, Between
  <2>2. CASE ~spt_space_init
    BY <1>1, <1>2, <1>3, <2>2 DEF Prepared
  <2> QED
    BY <2>1, <2>2
<1>15. ASSUME NEW u \in Threads PROVE At(u)'
  BY <1>2 DEF At, Preparing
<1>16. Untouched'
  BY <1>1, <1>2, <1>3 DEF Untouched
<1> QED
  BY <1>11, <1>12, <1>13, <1>14, <1>15, <1>16 DEF SptInv

--------------------------------------------------------------------------------
(* The invariant and what it gives.                                        *)

\* The process starts with its strings in place, no thread inside.
LEMMA UntitledHolds == ASSUME layout \in Layout, Untitled PROVE SptInv
<1>1. /\ layout \in Layout /\ NSArgv = layout.args /\ environ = layout.envs
      /\ overwritten = {} /\ ~spt_space_init /\ spt_lock = NoThread
      /\ \A t \in Threads : spt_pc[t] = "idle"
  BY DEF Untitled
<1>2. layout.args \in Seq(Texts) /\ layout.envs \in Seq(Texts)
  BY <1>1, Originals
<1>3. SptTypeOK
  <2>1. << >> \in Seq(Texts) /\ Heap \in Nat
    BY DEF Heap
  <2>2. /\ spt_pc \in [Threads -> Pcs] /\ fmt \in [Threads -> Titles \union {Null}]
        /\ i \in [Threads -> Nat] /\ ret \in [Threads -> BOOLEAN]
        /\ fast \in [Threads -> BOOLEAN]
    BY DEF Untitled, Pcs
  <2> QED
    BY <1>1, <1>2, <2>1, <2>2 DEF Untitled, SptTypeOK
<1>4. StringsKept /\ Prepared /\ Untouched
  BY <1>1, LikeItself DEF StringsKept, Prepared, Untouched
<1>5. Mutex /\ \A t \in Threads : At(t)
  BY <1>1, LayoutAssumption DEF Mutex, At, Inside, Preparing
<1> QED
  BY <1>3, <1>4, <1>5 DEF SptInv

LEMMA SptStepHolds == ASSUME SptInv, [SptNext]_sptvars PROVE SptInv'
<1>1. CASE UNCHANGED sptvars
  <2>1. UNCHANGED <<layout, NSArgv, environ, overwritten, title, spt_lock, space, buf, walk, spt_pc,
                    fmt, i, ret, fast, fast_update>>
    BY <1>1 DEF sptvars
  <2>2. UNCHANGED <<spt_space_init, spt_start, spt_space_len, spt_progname, obuf, envp, last>>
    BY <2>1 DEF space, walk
  <2>3. Block' = Block
    BY <2>1 DEF Block, Bytes
  <2>4. SptTypeOK' /\ Mutex' /\ Untouched'
    BY <2>1, <2>2 DEF SptInv, SptTypeOK, Mutex, Untouched
  <2>5. StringsKept' /\ Prepared'
    BY <2>1, <2>2, <2>3
    DEF SptInv, StringsKept, Prepared, Like, OnHeap, Between, SpaceIsBlock
  <2>6. \A t \in Threads : At(t)'
    BY <2>1, AtStays DEF SptInv
  <2> QED
    BY <2>4, <2>5, <2>6 DEF SptInv
<1>2. CASE SetEnv
  BY <1>2, StepSetEnv
<1>3. ASSUME NEW t \in Threads,
             \/ SptCall(t) \/ Lock(t) \/ CopyEnviron(t) \/ Walk(t) \/ DetachFails(t)
             \/ Detach(t) \/ Names(t) \/ Format(t) \/ Fail(t) \/ SetFast(t)
      PROVE  SptInv'
  BY <1>3, StepCall, StepLock, StepCopyEnviron, StepWalk, StepDetachFails, StepDetach,
     StepNames, StepFormat, StepFail, StepSetFast
<1> QED
  BY <1>1, <1>2, <1>3 DEF SptNext

LEMMA SptInvariant == SptSpec => []SptInv
<1>1. SptInit => SptInv
  BY UntitledHolds, LayoutAssumption DEF SptInit
<1>2. SptInv /\ [SptNext]_sptvars => SptInv'
  BY SptStepHolds
<1> QED
  BY <1>1, <1>2, PTL DEF SptSpec

\* A title lies only where nothing is read any more.
LEMMA TextsAreKept == SptInv => TextsStay
<1> SUFFICES ASSUME SptInv PROVE TextsStay
  OBVIOUS
<1>1. SptTypeOK /\ StringsKept /\ Prepared
  BY DEF SptInv
<1>2. layout.args \in Seq(Texts) /\ layout.envs \in Seq(Texts)
  BY <1>1, Originals DEF SptTypeOK
<1>3. overwritten = {} \/ (OnHeap(NSArgv) /\ OnHeap(environ))
  BY <1>1 DEF Prepared
<1>4. /\ DOMAIN NSArgv = 1..Len(layout.args) /\ DOMAIN environ = 1..Len(layout.envs)
      /\ Like(NSArgv, layout.args) /\ Like(environ, layout.envs)
  BY <1>1 DEF SptTypeOK, StringsKept, Like
<1>5. \A j \in DOMAIN NSArgv : Text(NSArgv[j]) = layout.args[j].text
  BY <1>2, <1>3, <1>4, TextIsKept
<1>6. \A j \in DOMAIN environ : Text(environ[j]) = layout.envs[j].text
  BY <1>2, <1>3, <1>4, TextIsKept
<1> QED
  BY <1>1, <1>5, <1>6 DEF TextsStay, StringsKept

\* Only its own Format takes a thread from "format" to "fast".
LEMMA FirstTitleComesBack ==
    ASSUME SptInv, [SptNext]_sptvars PROVE NullRestoresTitle
<1> SUFFICES ASSUME NEW t \in Threads, spt_pc[t] = "format", fmt[t] = Null, ret'[t],
                    spt_pc'[t] = "fast"
             PROVE  title' \in {Line, Prog}
  BY DEF NullRestoresTitle
<1>1. spt_pc \in [Threads -> Pcs] /\ obuf \in {Null, Line, Prog}
  BY DEF SptInv, SptTypeOK, Prepared, At
<1>2. ASSUME NEW u \in Threads, u # t, NEW l, Goto(u, l) PROVE FALSE
  BY <1>1, <1>2 DEF Goto
<1>3. ~UNCHANGED sptvars /\ ~SetEnv
  BY DEF sptvars, SetEnv
<1>4. ~Detach(t) /\ ~Walk(t) /\ ~SptCall(t) /\ ~Lock(t) /\ ~CopyEnviron(t) /\ ~DetachFails(t)
      /\ ~Names(t) /\ ~Fail(t) /\ ~SetFast(t)
  BY DEF Detach, Walk, SptCall, Lock, CopyEnviron, DetachFails, Names, Fail, SetFast
<1>5. ASSUME NEW u \in Threads, u # t,
             \/ SptCall(u) \/ Lock(u) \/ CopyEnviron(u) \/ Walk(u) \/ DetachFails(u)
             \/ Detach(u) \/ Names(u) \/ Format(u) \/ Fail(u) \/ SetFast(u)
      PROVE  FALSE
  <2>1. spt_pc' = spt_pc \/ \E l : Goto(u, l)
    BY <1>5 DEF SptCall, Lock, CopyEnviron, Walk, TakeSpace, DetachFails, Detach, Names, Format,
                Fail, SetFast
  <2> QED
    BY <1>2, <1>5, <2>1
<1>6. Format(t)
  BY <1>3, <1>4, <1>5 DEF SptNext
<1>7. title' = obuf /\ obuf # Null
  <2>1. CASE Goto(t, "fail")
    BY <1>1, <2>1 DEF Goto
  <2>2. CASE ~Goto(t, "fail")
    BY <1>6, <2>2 DEF Format
  <2> QED
    BY <2>1, <2>2
<1> QED
  BY <1>1, <1>7

\* All variables keep their types in every call of setproctitle, for any number
\* of threads and any layout (setproctitle.c lines 91-256).
THEOREM TitleTypeCorrect == SptSpec => []SptTypeOK
<1>1. SptInv => SptTypeOK
  BY DEF SptInv
<1> QED
  BY <1>1, SptInvariant, PTL

--------------------------------------------------------------------------------
(* The scan: what is true throughout.                                      *)

\* The elements can be told apart, and a cluster has characters.
Scannable(av) ==
    /\ av \in Seq(Element)
    /\ \A j \in 1..Len(av) :
          /\ av[j].id \in 1..Len(av) /\ (av[j].kind = "short" => av[j].chars # << >>)
          /\ \A k \in 1..Len(av) : av[j].id = av[k].id => j = k

\* An element that was scanned, and not one of the operands from f to l.
Passed(k, f, l, o) == k \in 1..(f - 1) \/ k \in l..(o - 1)

\* The elements before o were scanned, those from f to l are operands, and both
\* they and the others kept their order; what is behind was not touched.
Arranged(av, f, l, o) ==
    /\ 1 <= f /\ f <= l /\ l <= o /\ o <= Len(orig) + 1
    /\ \A j \in 1..Len(orig) : \E k \in 1..Len(orig) : av[j] = orig[k] /\ (j < o => k < o)
    /\ \A j \in o..Len(orig) : av[j] = orig[j]
    /\ \A j \in f..(l - 1) : av[j].kind = "operand"
    /\ \A j, k \in f..(l - 1) : j < k => Place(av[j]) < Place(av[k])
    /\ \A j, k \in 1..Len(orig) :
          Passed(j, f, l, o) /\ Passed(k, f, l, o) /\ j < k => Place(av[j]) < Place(av[k])

\* What the rounds of an exchange that are left will make of argv.
Rotated(av, b, m, t) ==
    [j \in 1..Len(orig) |->
        IF j \in b..(b + (t - m) - 1) THEN av[j + (m - b)]
        ELSE IF j \in (b + (t - m))..(t - 1) THEN av[j - (t - m)]
        ELSE av[j]]

Scanning ==
    /\ pc \in {"call", "advance", "dashes", "word", "short"} =>
          Arranged(argv, first_nonopt, last_nonopt, optind)
    /\ pc = "skip" => Arranged(argv, first_nonopt, optind, optind)
    /\ pc \in {"exchange", "exchange2"} =>
          /\ bottom <= middle /\ middle <= top /\ top <= optind
          /\ first_nonopt <= last_nonopt /\ last_nonopt <= optind
          /\ Arranged(Rotated(argv, bottom, middle, top),
                      first_nonopt + (optind - last_nonopt), optind, optind)
    /\ pc \in {"word", "short"} => (nextchar = << >> <=> pc = "word")
    /\ nextchar # << >> => pc \in {"call", "short"} /\ optind <= Len(argv)

ScanInv ==
    /\ TypeOK /\ Scannable(argv) /\ Scannable(orig) /\ Len(orig) = Len(argv)
    /\ Scanning

\* A set of numbers has a least one.
LEMMA LeastOf ==
    ASSUME NEW S \in SUBSET Nat, S # {}
    PROVE  Min(S) \in S /\ \A y \in S : Min(S) <= y
<1> DEFINE T == {0..k : k \in S}
           Below == StrictSubsetOrdering(Nat)
<1>1. T \subseteq FiniteSubsetsOf(Nat) /\ T # {}
  <2>1. \A k \in S : 0..k \in SUBSET Nat /\ IsFiniteSet(0..k)
    BY FS_Interval
  <2> QED
    BY <2>1 DEF FiniteSubsetsOf
<1>2. PICK I \in T : \A J \in T : <<J, I>> \notin Below
  <2> HIDE DEF T, Below
  <2>1. IsWellFoundedOn(Below, FiniteSubsetsOf(Nat))
    BY FS_StrictSubsetOrderingWellFounded DEF Below
  <2> QED
    BY <1>1, <2>1, WFMin
<1>3. PICK x \in S : I = 0..x
  BY <1>2
<1>4. ASSUME NEW y \in S PROVE x <= y
  <2>1. <<0..y, 0..x>> \notin Below
    BY <1>2, <1>3
  <2>2. 0..y \in SUBSET Nat /\ 0..x \in SUBSET Nat
    OBVIOUS
  <2>3. CASE y < x
    <3>1. 0..y \subseteq 0..x /\ 0..y # 0..x
      BY <2>3
    <3> QED
      BY <2>1, <2>2, <3>1 DEF StrictSubsetOrdering
  <2> QED
    BY <2>3
<1> QED
  BY <1>4 DEF Min

LEMMA LeastOfTwo ==
    ASSUME NEW x \in Nat, NEW y \in Nat
    PROVE  Min({x, y}) = IF x <= y THEN x ELSE y
<1>1. Min({x, y}) \in {x, y} /\ \A z \in {x, y} : Min({x, y}) <= z
  BY LeastOf
<1> QED
  BY <1>1

LEMMA PlaceIs ==
    ASSUME Scannable(orig), NEW k \in 1..Len(orig) PROVE Place(orig[k]) = k
<1>1. DOMAIN orig = 1..Len(orig)
  BY DEF Scannable
<1>2. \A j \in 1..Len(orig) : orig[j].id = orig[k].id => j = k
  BY DEF Scannable
<1> QED
  BY <1>1, <1>2 DEF Place

\* An element that was scanned comes from before o.
LEMMA PlaceBefore ==
    ASSUME Scannable(orig), NEW av, NEW f, NEW l, NEW o \in Nat, Arranged(av, f, l, o),
           NEW j \in 1..Len(orig)
    PROVE  /\ Place(av[j]) \in 1..Len(orig) /\ av[j] = orig[Place(av[j])]
           /\ j < o => Place(av[j]) < o
           /\ j >= o => Place(av[j]) = j
<1>1. PICK k \in 1..Len(orig) : av[j] = orig[k] /\ (j < o => k < o)
  BY DEF Arranged
<1>2. Place(av[j]) = k
  BY <1>1, PlaceIs
<1>3. ASSUME j >= o PROVE Place(av[j]) = j
  <2>1. Len(orig) \in Nat
    BY DEF Scannable
  <2>2. av[j] = orig[j]
    BY <1>3, <2>1 DEF Arranged
  <2> QED
    BY <2>2, PlaceIs
<1> QED
  BY <1>1, <1>2, <1>3

\* The scan goes on over an option.
LEMMA ArrangedFurther ==
    ASSUME Scannable(orig), NEW av, NEW f \in Nat, NEW l \in Nat, NEW o \in Nat,
           Arranged(av, f, l, o), NEW p \in Nat, o <= p, p <= Len(orig) + 1
    PROVE  Arranged(av, f, l, p)
<1>1. Len(orig) \in Nat
  BY DEF Scannable
<1>2. /\ 1 <= f /\ f <= l /\ l <= o /\ o <= Len(orig) + 1
      /\ \A j \in f..(l - 1) : av[j].kind = "operand"
      /\ \A j, k \in f..(l - 1) : j < k => Place(av[j]) < Place(av[k])
      /\ \A j, k \in 1..Len(orig) :
          Passed(j, f, l, o) /\ Passed(k, f, l, o) /\ j < k => Place(av[j]) < Place(av[k])
  BY DEF Arranged
<1>3. \A j \in 1..Len(orig) :
         /\ Place(av[j]) \in 1..Len(orig) /\ av[j] = orig[Place(av[j])]
         /\ j < o => Place(av[j]) < o
         /\ j >= o => Place(av[j]) = j
  BY PlaceBefore
<1>4. ASSUME NEW j \in 1..Len(orig)
      PROVE  \E k \in 1..Len(orig) : av[j] = orig[k] /\ (j < p => k < p)
  <2>1. j < p => Place(av[j]) < p
    BY <1>1, <1>3
  <2> QED
    BY <1>3, <2>1
<1>5. \A j \in p..Len(orig) : av[j] = orig[j]
  BY <1>1, <1>2, <1>3
<1>6. ASSUME NEW j \in 1..Len(orig), NEW k \in 1..Len(orig),
             Passed(j, f, l, p), Passed(k, f, l, p), j < k
      PROVE  Place(av[j]) < Place(av[k])
  <2>1. CASE k < o
    <3>1. Passed(j, f, l, o) /\ Passed(k, f, l, o)
      BY <1>1, <1>2, <1>6, <2>1 DEF Passed
    <3> QED
      BY <1>2, <1>6, <3>1
  <2>2. CASE k >= o
    BY <1>1, <1>3, <1>6, <2>2
  <2> QED
    BY <1>1, <2>1, <2>2
<1> QED
  BY <1>1, <1>2, <1>4, <1>5, <1>6 DEF Arranged

\* The scan passes over operands.
LEMMA ArrangedOperands ==
    ASSUME Scannable(orig), NEW av, NEW f \in Nat, NEW o \in Nat, Arranged(av, f, o, o),
           NEW p \in Nat, o <= p, p <= Len(orig) + 1,
           \A j \in o..(p - 1) : av[j].kind = "operand"
    PROVE  Arranged(av, f, p, p)
<1>1. Len(orig) \in Nat
  BY DEF Scannable
<1>2. /\ 1 <= f /\ f <= o /\ o <= Len(orig) + 1
      /\ \A j \in f..(o - 1) : av[j].kind = "operand"
      /\ \A j, k \in f..(o - 1) : j < k => Place(av[j]) < Place(av[k])
      /\ \A j, k \in 1..Len(orig) :
          Passed(j, f, o, o) /\ Passed(k, f, o, o) /\ j < k => Place(av[j]) < Place(av[k])
  BY DEF Arranged
<1>3. \A j \in 1..Len(orig) :
         /\ Place(av[j]) \in 1..Len(orig) /\ av[j] = orig[Place(av[j])]
         /\ j < o => Place(av[j]) < o
         /\ j >= o => Place(av[j]) = j
  BY PlaceBefore
<1>4. ASSUME NEW j \in 1..Len(orig)
      PROVE  \E k \in 1..Len(orig) : av[j] = orig[k] /\ (j < p => k < p)
  <2>1. j < p => Place(av[j]) < p
    BY <1>1, <1>3
  <2> QED
    BY <1>3, <2>1
<1>5. \A j \in p..Len(orig) : av[j] = orig[j]
  BY <1>1, <1>2, <1>3
<1>6. \A j \in f..(p - 1) : av[j].kind = "operand"
  BY <1>1, <1>2
<1>7. ASSUME NEW j \in f..(p - 1), NEW k \in f..(p - 1), j < k
      PROVE  Place(av[j]) < Place(av[k])
  <2>1. j \in 1..Len(orig) /\ k \in 1..Len(orig)
    BY <1>1, <1>2
  <2>2. CASE k < o
    BY <1>1, <1>2, <1>7, <2>2
  <2>3. CASE k >= o
    <3>1. Place(av[k]) = k
      BY <1>3, <2>1, <2>3
    <3>2. Place(av[j]) < k
      <4>1. CASE j < o
        BY <1>3, <2>1, <2>3, <4>1
      <4>2. CASE j >= o
        BY <1>3, <1>7, <2>1, <4>2
      <4> QED
        BY <2>1, <4>1, <4>2
    <3> QED
      BY <3>1, <3>2
  <2> QED
    BY <1>1, <2>2, <2>3
<1>8. \A j \in 1..Len(orig) : Passed(j, f, p, p) => Passed(j, f, o, o)
  BY <1>1, <1>2 DEF Passed
<1> QED
  BY <1>1, <1>2, <1>4, <1>5, <1>6, <1>7, <1>8 DEF Arranged

\* No operand was left behind: the next may begin anywhere.
LEMMA ArrangedWithout ==
    ASSUME Scannable(orig), NEW av, NEW f \in Nat, NEW o \in Nat, Arranged(av, f, f, o)
    PROVE  Arranged(av, o, o, o)
<1>1. Len(orig) \in Nat
  BY DEF Scannable
<1>2. \A j \in 1..Len(orig) : Passed(j, o, o, o) => Passed(j, f, f, o)
  BY <1>1 DEF Passed, Arranged
<1> QED
  BY <1>1, <1>2 DEF Arranged

\* Nothing is scanned yet.
LEMMA ArrangedAtFirst == ASSUME Scannable(orig) PROVE Arranged(orig, 1, 1, 1)
  BY DEF Arranged, Passed, Scannable

\* Where an element of the exchanged argv was before.
Origin(j, b, m, t) ==
    IF j \in b..(b + (t - m) - 1) THEN j + (m - b)
    ELSE IF j \in (b + (t - m))..(t - 1) THEN j - (t - m)
    ELSE j

LEMMA RotatedAt ==
    ASSUME Scannable(orig), NEW b \in Nat, NEW m \in Nat, NEW t \in Nat,
           1 <= b, b <= m, m <= t, t <= Len(orig) + 1,
           NEW av, NEW j \in 1..Len(orig)
    PROVE  /\ Origin(j, b, m, t) \in 1..Len(orig)
           /\ Rotated(av, b, m, t)[j] = av[Origin(j, b, m, t)]
<1>1. Len(orig) \in Nat
  BY DEF Scannable
<1>2. Origin(j, b, m, t) \in 1..Len(orig)
  BY <1>1 DEF Origin
<1>3. Rotated(av, b, m, t)[j] = av[Origin(j, b, m, t)]
  BY DEF Rotated, Origin
<1> QED
  BY <1>2, <1>3

\* Once all rounds are made, the options lie before the operands.
LEMMA RotatedIsArranged ==
    ASSUME Scannable(orig), NEW av, NEW f \in Nat, NEW l \in Nat, NEW o \in Nat,
           Arranged(av, f, l, o)
    PROVE  Arranged(Rotated(av, f, l, o), f + (o - l), o, o)
<1> DEFINE r == Rotated(av, f, l, o)
           F == f + (o - l)
           From(j) == Origin(j, f, l, o)
<1>1. Len(orig) \in Nat
  BY DEF Scannable
<1>2. /\ 1 <= f /\ f <= l /\ l <= o /\ o <= Len(orig) + 1
      /\ \A j \in f..(l - 1) : av[j].kind = "operand"
      /\ \A j, k \in f..(l - 1) : j < k => Place(av[j]) < Place(av[k])
      /\ \A j, k \in 1..Len(orig) :
          Passed(j, f, l, o) /\ Passed(k, f, l, o) /\ j < k => Place(av[j]) < Place(av[k])
      /\ \A j \in 1..Len(orig) : \E k \in 1..Len(orig) : av[j] = orig[k] /\ (j < o => k < o)
      /\ \A j \in o..Len(orig) : av[j] = orig[j]
  BY DEF Arranged
<1>a. 1 <= f /\ f <= l /\ l <= o /\ o <= Len(orig) + 1
  BY <1>2
<1>3. F \in Nat /\ 1 <= F /\ F <= o
  BY <1>1, <1>a
<1>4. ASSUME NEW j \in 1..Len(orig)
      PROVE  /\ From(j) \in 1..Len(orig) /\ r[j] = av[From(j)]
             /\ j < o => From(j) < o
             /\ j >= o => From(j) = j
             /\ j \in F..(o - 1) => From(j) = j - (o - l)
             /\ j < F => Passed(From(j), f, l, o)
             /\ \A k \in 1..Len(orig) : j < k /\ k < F => From(j) < From(k)
  <2>1. From(j) \in 1..Len(orig) /\ r[j] = av[From(j)]
    BY <1>a, RotatedAt
  <2>2. /\ j < o => From(j) < o
        /\ j >= o => From(j) = j
        /\ j \in F..(o - 1) => From(j) = j - (o - l)
    BY <1>1, <1>a DEF Origin
  <2>3. j < F => Passed(From(j), f, l, o)
    BY <1>1, <1>a DEF Origin, Passed
  <2>4. \A k \in 1..Len(orig) : j < k /\ k < F => From(j) < From(k)
    BY <1>1, <1>a DEF Origin
  <2> QED
    BY <2>1, <2>2, <2>3, <2>4
<1> HIDE DEF r, From
<1>5. ASSUME NEW j \in 1..Len(orig)
      PROVE  \E k \in 1..Len(orig) : r[j] = orig[k] /\ (j < o => k < o)
  <2>1. PICK k \in 1..Len(orig) : av[From(j)] = orig[k] /\ (From(j) < o => k < o)
    BY <1>2, <1>4
  <2> QED
    BY <1>4, <2>1
<1>6. ASSUME NEW j \in o..Len(orig) PROVE r[j] = orig[j]
  <2>1. j \in 1..Len(orig) /\ j >= o
    BY <1>1, <1>a
  <2> QED
    BY <1>2, <1>4, <2>1
<1>7. ASSUME NEW j \in F..(o - 1)
      PROVE  /\ j \in 1..Len(orig) /\ j - (o - l) \in f..(l - 1) /\ r[j] = av[j - (o - l)]
  <2>1. j \in 1..Len(orig) /\ j - (o - l) \in f..(l - 1)
    BY <1>1, <1>a, <1>3
  <2> QED
    BY <1>4, <2>1
<1>8. \A j \in F..(o - 1) : r[j].kind = "operand"
  BY <1>2, <1>7
<1>9. ASSUME NEW j \in F..(o - 1), NEW k \in F..(o - 1), j < k
      PROVE  Place(r[j]) < Place(r[k])
  <2>1. j - (o - l) < k - (o - l)
    BY <1>2, <1>3, <1>9
  <2> QED
    BY <1>2, <1>7, <2>1
<1>10. ASSUME NEW j \in 1..Len(orig), NEW k \in 1..Len(orig),
              Passed(j, F, o, o), Passed(k, F, o, o), j < k
       PROVE  Place(r[j]) < Place(r[k])
  <2>1. j < F /\ k < F
    BY <1>1, <1>2, <1>3, <1>10 DEF Passed
  <2> QED
    BY <1>2, <1>4, <1>10, <2>1
<1>11. Arranged(r, F, o, o)
  BY <1>1, <1>2, <1>3, <1>5, <1>6, <1>8, <1>9, <1>10 DEF Arranged
<1> QED
  BY <1>11 DEF r

\* With nothing left to exchange, argv is as it has to be.
LEMMA RotatedIsOver ==
    ASSUME Scannable(orig), NEW av \in Seq(Element), Len(av) = Len(orig),
           NEW b \in Nat, NEW m \in Nat, NEW t \in Nat, m = b \/ m = t
    PROVE  Rotated(av, b, m, t) = av
<1>1. \A j \in 1..Len(orig) : Rotated(av, b, m, t)[j] = av[j]
  BY DEF Rotated
<1>2. DOMAIN av = 1..Len(orig) /\ av = [j \in 1..Len(orig) |-> av[j]]
  BY DEF Scannable
<1>3. Rotated(av, b, m, t) = [j \in 1..Len(orig) |-> av[j]]
  BY <1>1 DEF Rotated
<1> QED
  BY <1>2, <1>3

\* One round exchanges as many as the shorter part has, and leaves the rest of
\* the exchange to the next.
LEMMA RotatedLater ==
    ASSUME Scannable(argv), Scannable(orig), Len(argv) = Len(orig),
           NEW b \in Nat, NEW m \in Nat, NEW t \in Nat,
           1 <= b, b < m, m < t, t <= Len(orig) + 1
    PROVE  /\ t - m > m - b =>
                 Rotated(Swapped(b, t - (m - b), m - b), b, m, t - (m - b))
                     = Rotated(argv, b, m, t)
           /\ t - m <= m - b =>
                 Rotated(Swapped(b, m, t - m), b + (t - m), m, t) = Rotated(argv, b, m, t)
<1>1. Len(orig) \in Nat /\ DOMAIN argv = 1..Len(orig)
  BY DEF Scannable
<1>2. ASSUME t - m > m - b
      PROVE  Rotated(Swapped(b, t - (m - b), m - b), b, m, t - (m - b))
                 = Rotated(argv, b, m, t)
  <2> DEFINE len == m - b
             s == Swapped(b, t - len, len)
  <2>1. ASSUME NEW j \in 1..Len(orig)
        PROVE  Rotated(s, b, m, t - len)[j] = Rotated(argv, b, m, t)[j]
    <3>1. \A k \in 1..Len(orig) :
             s[k] = IF k \in b..(b + len - 1) THEN argv[t - len + (k - b)]
                    ELSE IF k \in (t - len)..(t - len + len - 1) THEN argv[b + (k - (t - len))]
                    ELSE argv[k]
      BY <1>1 DEF Swapped
    <3> HIDE DEF s
    <3>2. Origin(j, b, m, t - len) \in 1..Len(orig)
          /\ Rotated(s, b, m, t - len)[j] = s[Origin(j, b, m, t - len)]
      <4>1. t - len \in Nat /\ b <= m /\ m <= t - len /\ t - len <= Len(orig) + 1
        BY <1>1, <1>2
      <4> QED
        BY <4>1, RotatedAt
    <3>3. Rotated(argv, b, m, t)[j] = argv[Origin(j, b, m, t)]
      BY RotatedAt
    <3>4. s[Origin(j, b, m, t - len)] = argv[Origin(j, b, m, t)]
      <4>1. CASE j \in b..(t - len - 1)
        <5>1. Origin(j, b, m, t) = j + (m - b)
          BY <1>1, <1>2, <4>1 DEF Origin
        <5>2. CASE j <= b + (t - len - m) - 1
          <6>1. Origin(j, b, m, t - len) = j + (m - b) /\ j + (m - b) \notin b..(b + len - 1)
                /\ j + (m - b) \notin (t - len)..(t - len + len - 1)
            BY <1>1, <1>2, <4>1, <5>2 DEF Origin
          <6> QED
            BY <3>1, <3>2, <5>1, <6>1
        <5>3. CASE j > b + (t - len - m) - 1
          <6>1. /\ Origin(j, b, m, t - len) = j - (t - len - m)
                /\ j - (t - len - m) \in b..(b + len - 1)
                /\ t - len + (j - (t - len - m) - b) = j + (m - b)
            BY <1>1, <1>2, <4>1, <5>3 DEF Origin
          <6> QED
            BY <3>1, <3>2, <5>1, <6>1
        <5> QED
          BY <1>1, <1>2, <5>2, <5>3
      <4>2. CASE j \in (t - len)..(t - 1)
        <5>1. /\ Origin(j, b, m, t) = j - (t - m) /\ Origin(j, b, m, t - len) = j
              /\ j \notin b..(b + len - 1) /\ j \in (t - len)..(t - len + len - 1)
              /\ b + (j - (t - len)) = j - (t - m)
          BY <1>1, <1>2, <4>2 DEF Origin
        <5> QED
          BY <3>1, <3>2, <5>1
      <4>3. CASE j < b \/ j >= t
        <5>1. Origin(j, b, m, t) = j /\ Origin(j, b, m, t - len) = j
              /\ j \notin b..(b + len - 1) /\ j \notin (t - len)..(t - len + len - 1)
          BY <1>1, <1>2, <4>3 DEF Origin
        <5> QED
          BY <3>1, <3>2, <5>1
      <4> QED
        BY <1>1, <1>2, <4>1, <4>2, <4>3
    <3> QED
      BY <3>2, <3>3, <3>4
  <2> HIDE DEF s
  <2>2. Rotated(s, b, m, t - len) = [j \in 1..Len(orig) |-> Rotated(s, b, m, t - len)[j]]
    BY DEF Rotated
  <2>3. Rotated(argv, b, m, t) = [j \in 1..Len(orig) |-> Rotated(argv, b, m, t)[j]]
    BY DEF Rotated
  <2> QED
    BY <2>1, <2>2, <2>3 DEF s
<1>3. ASSUME t - m <= m - b
      PROVE  Rotated(Swapped(b, m, t - m), b + (t - m), m, t) = Rotated(argv, b, m, t)
  <2> DEFINE len == t - m
             s == Swapped(b, m, len)
  <2>1. ASSUME NEW j \in 1..Len(orig)
        PROVE  Rotated(s, b + len, m, t)[j] = Rotated(argv, b, m, t)[j]
    <3>1. \A k \in 1..Len(orig) :
             s[k] = IF k \in b..(b + len - 1) THEN argv[m + (k - b)]
                    ELSE IF k \in m..(m + len - 1) THEN argv[b + (k - m)]
                    ELSE argv[k]
      BY <1>1 DEF Swapped
    <3> HIDE DEF s
    <3>2. Origin(j, b + len, m, t) \in 1..Len(orig)
          /\ Rotated(s, b + len, m, t)[j] = s[Origin(j, b + len, m, t)]
      <4>1. b + len \in Nat /\ 1 <= b + len /\ b + len <= m /\ m <= t
        BY <1>1, <1>3
      <4> QED
        BY <4>1, RotatedAt
    <3>3. Rotated(argv, b, m, t)[j] = argv[Origin(j, b, m, t)]
      BY RotatedAt
    <3>4. s[Origin(j, b + len, m, t)] = argv[Origin(j, b, m, t)]
      <4>1. CASE j \in b..(b + len - 1)
        <5>1. /\ Origin(j, b, m, t) = j + (m - b) /\ Origin(j, b + len, m, t) = j
              /\ m + (j - b) = j + (m - b)
          BY <1>1, <1>3, <4>1 DEF Origin
        <5> QED
          BY <3>1, <3>2, <4>1, <5>1
      <4>2. CASE j \in (b + len)..(t - 1)
        <5>1. Origin(j, b, m, t) = j - len
          BY <1>1, <1>3, <4>2 DEF Origin
        <5>2. CASE j <= b + len + (t - m) - 1
          <6>1. /\ Origin(j, b + len, m, t) = j + (m - (b + len))
                /\ j + (m - (b + len)) \notin b..(b + len - 1)
                /\ j + (m - (b + len)) \in m..(m + len - 1)
                /\ b + (j + (m - (b + len)) - m) = j - len
            BY <1>1, <1>3, <4>2, <5>2 DEF Origin
          <6> QED
            BY <3>1, <3>2, <5>1, <6>1
        <5>3. CASE j > b + len + (t - m) - 1
          <6>1. /\ Origin(j, b + len, m, t) = j - len
                /\ j - len \notin b..(b + len - 1) /\ j - len \notin m..(m + len - 1)
            BY <1>1, <1>3, <4>2, <5>3 DEF Origin
          <6> QED
            BY <3>1, <3>2, <5>1, <6>1
        <5> QED
          BY <1>1, <1>3, <5>2, <5>3
      <4>3. CASE j < b \/ j >= t
        <5>1. Origin(j, b, m, t) = j /\ Origin(j, b + len, m, t) = j
              /\ j \notin b..(b + len - 1) /\ j \notin m..(m + len - 1)
          BY <1>1, <1>3, <4>3 DEF Origin
        <5> QED
          BY <3>1, <3>2, <5>1
      <4> QED
        BY <1>1, <1>3, <4>1, <4>2, <4>3
    <3> QED
      BY <3>2, <3>3, <3>4
  <2> HIDE DEF s
  <2>2. Rotated(s, b + len, m, t) = [j \in 1..Len(orig) |-> Rotated(s, b + len, m, t)[j]]
    BY DEF Rotated
  <2>3. Rotated(argv, b, m, t) = [j \in 1..Len(orig) |-> Rotated(argv, b, m, t)[j]]
    BY DEF Rotated
  <2> QED
    BY <2>1, <2>2, <2>3 DEF s
<1> QED
  BY <1>2, <1>3

\* A round loses no element.
LEMMA SwappedIsScannable ==
    ASSUME Scannable(argv), NEW k \in Nat, NEW l \in Nat, NEW len \in Nat,
           1 <= k, k + len <= l, l + len <= Len(argv) + 1
    PROVE  Scannable(Swapped(k, l, len)) /\ Len(Swapped(k, l, len)) = Len(argv)
<1> DEFINE n == Len(argv)
           From(j) == IF j \in k..(k + len - 1) THEN l + (j - k)
                      ELSE IF j \in l..(l + len - 1) THEN k + (j - l) ELSE j
           s == Swapped(k, l, len)
<1>1. argv \in Seq(Element) /\ n \in Nat /\ DOMAIN argv = 1..n
      /\ \A j \in 1..n : argv[j] \in Element
  BY DEF Scannable
<1>2. \A j \in 1..n : From(j) \in 1..n
  BY <1>1
<1>3. ASSUME NEW j \in 1..n, NEW h \in 1..n, From(j) = From(h) PROVE j = h
  BY <1>1, <1>3
<1>4. s = [j \in 1..n |-> argv[From(j)]]
  BY <1>1 DEF Swapped
<1> HIDE DEF From, s
<1>5. s \in Seq(Element) /\ Len(s) = n /\ \A j \in 1..n : s[j] = argv[From(j)]
  BY <1>1, <1>2, <1>4
<1>6. Scannable(s)
  <2>1. \A j \in 1..n : s[j].id \in 1..n /\ (s[j].kind = "short" => s[j].chars # << >>)
    BY <1>2, <1>5 DEF Scannable
  <2>2. ASSUME NEW j \in 1..n, NEW h \in 1..n, s[j].id = s[h].id PROVE j = h
    <3>1. From(j) = From(h)
      BY <1>2, <1>5, <2>2, SMTT(30) DEF Scannable
    <3> QED
      BY <1>3, <3>1
  <2> QED
    BY <1>5, <2>1, <2>2 DEF Scannable
<1> QED
  BY <1>5, <1>6 DEF s

--------------------------------------------------------------------------------
(* What a scan returns: sequences.                                         *)

IsSeq(s) == \E S : s \in Seq(S)

LEMMA EqualSeqs ==
    ASSUME NEW s, NEW u, IsSeq(s), IsSeq(u), Len(s) = Len(u), \A j \in 1..Len(s) : s[j] = u[j]
    PROVE  s = u
<1>1. PICK S : s \in Seq(S)
  BY DEF IsSeq
<1>2. PICK U : u \in Seq(U)
  BY DEF IsSeq
<1>3. /\ Len(s) \in Nat /\ s = [j \in 1..Len(s) |-> s[j]]
      /\ u = [j \in 1..Len(u) |-> u[j]]
  BY <1>1, <1>2
<1> QED
  BY <1>3

LEMMA SeqsJoined ==
    ASSUME NEW s, NEW u, IsSeq(s), IsSeq(u)
    PROVE  /\ IsSeq(s \o u) /\ Len(s) \in Nat /\ Len(u) \in Nat
           /\ Len(s \o u) = Len(s) + Len(u)
           /\ \A j \in 1..(Len(s) + Len(u)) :
                 (s \o u)[j] = IF j <= Len(s) THEN s[j] ELSE u[j - Len(s)]
<1>1. PICK S : s \in Seq(S)
  BY DEF IsSeq
<1>2. PICK U : u \in Seq(U)
  BY DEF IsSeq
<1> DEFINE V == S \union U
<1>3. s \in Seq(V) /\ u \in Seq(V)
  BY <1>1, <1>2
<1> HIDE DEF V
<1>4. s \o u \in Seq(V)
  BY <1>3
<1>5. IsSeq(s \o u)
  BY <1>4 DEF IsSeq
<1>6. /\ Len(s) \in Nat /\ Len(u) \in Nat /\ Len(s \o u) = Len(s) + Len(u)
      /\ \A j \in 1..(Len(s) + Len(u)) :
            (s \o u)[j] = IF j <= Len(s) THEN s[j] ELSE u[j - Len(s)]
  BY <1>3
<1> QED
  BY <1>5, <1>6

LEMMA JoinedTwice ==
    ASSUME NEW s, NEW u, NEW v, IsSeq(s), IsSeq(u), IsSeq(v)
    PROVE  (s \o u) \o v = s \o (u \o v)
<1>1. /\ IsSeq(s \o u) /\ IsSeq(u \o v)
      /\ Len(s) \in Nat /\ Len(u) \in Nat /\ Len(v) \in Nat
      /\ Len(s \o u) = Len(s) + Len(u) /\ Len(u \o v) = Len(u) + Len(v)
      /\ \A j \in 1..(Len(s) + Len(u)) :
            (s \o u)[j] = IF j <= Len(s) THEN s[j] ELSE u[j - Len(s)]
      /\ \A j \in 1..(Len(u) + Len(v)) :
            (u \o v)[j] = IF j <= Len(u) THEN u[j] ELSE v[j - Len(u)]
  BY SeqsJoined
<1> DEFINE a == s \o u
           b == u \o v
<1>2. /\ IsSeq(a \o v) /\ Len(a \o v) = Len(a) + Len(v)
      /\ \A j \in 1..(Len(a) + Len(v)) :
            (a \o v)[j] = IF j <= Len(a) THEN a[j] ELSE v[j - Len(a)]
  BY <1>1, SeqsJoined
<1>3. /\ IsSeq(s \o b) /\ Len(s \o b) = Len(s) + Len(b)
      /\ \A j \in 1..(Len(s) + Len(b)) :
            (s \o b)[j] = IF j <= Len(s) THEN s[j] ELSE b[j - Len(s)]
  BY <1>1, SeqsJoined
<1> HIDE DEF a, b
<1>4. Len(a \o v) = Len(s \o b) /\ Len(a \o v) = Len(s) + Len(u) + Len(v)
  BY <1>1, <1>2, <1>3 DEF a, b
<1>5. ASSUME NEW j \in 1..Len(a \o v) PROVE (a \o v)[j] = (s \o b)[j]
  <2>1. CASE j <= Len(s)
    <3>1. (a \o v)[j] = a[j] /\ a[j] = s[j]
      BY <1>1, <1>2, <1>4, <2>1 DEF a
    <3>2. (s \o b)[j] = s[j]
      BY <1>1, <1>3, <1>4, <2>1
    <3> QED
      BY <3>1, <3>2
  <2>2. CASE ~(j <= Len(s)) /\ j <= Len(s) + Len(u)
    <3>1. j - Len(s) \in 1..Len(u)
      BY <1>1, <1>4, <2>2
    <3>2. (a \o v)[j] = a[j] /\ a[j] = u[j - Len(s)]
      BY <1>1, <1>2, <1>4, <2>2 DEF a
    <3>3. (s \o b)[j] = b[j - Len(s)]
      BY <1>1, <1>3, <1>4, <2>2
    <3>4. b[j - Len(s)] = u[j - Len(s)]
      BY <1>1, <3>1 DEF b
    <3> QED
      BY <3>2, <3>3, <3>4
  <2>3. CASE ~(j <= Len(s) + Len(u))
    <3>1. /\ j - Len(s) \in 1..(Len(u) + Len(v)) /\ ~(j - Len(s) <= Len(u))
          /\ (j - Len(s)) - Len(u) = j - (Len(s) + Len(u)) /\ ~(j <= Len(s))
      BY <1>1, <1>4, <2>3
    <3>2. (a \o v)[j] = v[j - (Len(s) + Len(u))]
      BY <1>1, <1>2, <1>4, <2>3 DEF a
    <3>3. (s \o b)[j] = b[j - Len(s)]
      BY <1>1, <1>3, <1>4, <3>1
    <3>4. b[j - Len(s)] = v[(j - Len(s)) - Len(u)]
      BY <1>1, <3>1 DEF b
    <3> QED
      BY <3>1, <3>2, <3>3, <3>4
  <2> QED
    BY <1>1, <1>4, <2>1, <2>2, <2>3
<1>6. a \o v = s \o b
  BY <1>2, <1>3, <1>4, <1>5, EqualSeqs
<1> QED
  BY <1>6 DEF a, b

LEMMA JoinedEmpty ==
    ASSUME NEW s, IsSeq(s)
    PROVE  << >> \o s = s /\ s \o << >> = s /\ IsSeq(<< >>)
<1>1. PICK S : s \in Seq(S)
  BY DEF IsSeq
<1>2. << >> \in Seq(S)
  OBVIOUS
<1> QED
  BY <1>1, <1>2 DEF IsSeq

LEMMA Appended ==
    ASSUME NEW s, IsSeq(s), NEW e
    PROVE  Append(s, e) = s \o <<e>> /\ IsSeq(<<e>>) /\ IsSeq(Append(s, e)) /\ Len(<<e>>) = 1
<1>1. PICK S : s \in Seq(S)
  BY DEF IsSeq
<1> DEFINE V == S \union {e}
<1>2. s \in Seq(V) /\ <<e>> \in Seq(V) /\ e \in V
  BY <1>1
<1> HIDE DEF V
<1>3. Append(s, e) = s \o <<e>> /\ Append(s, e) \in Seq(V)
  BY <1>2
<1> QED
  BY <1>2, <1>3 DEF IsSeq

\* The elements from a to b - 1.
Slice(s, a, b) == SubSeq(s, a, b - 1)

LEMMA Sliced ==
    ASSUME NEW s, IsSeq(s), NEW a \in Nat, NEW b \in Nat, 1 <= a, a <= b, b <= Len(s) + 1
    PROVE  /\ IsSeq(Slice(s, a, b)) /\ Len(Slice(s, a, b)) = b - a
           /\ \A j \in 1..(b - a) : Slice(s, a, b)[j] = s[a + j - 1]
<1>1. PICK S : s \in Seq(S)
  BY DEF IsSeq
<1>2. /\ Slice(s, a, b) \in Seq(S) /\ Len(Slice(s, a, b)) = b - a
  BY <1>1 DEF Slice
<1>3. \A j \in 1..(b - a) : Slice(s, a, b)[j] = s[a + j - 1]
  BY <1>1 DEF Slice
<1> QED
  BY <1>2, <1>3 DEF IsSeq

LEMMA SlicedFromFirst ==
    ASSUME NEW s, IsSeq(s), NEW b \in Nat, 1 <= b, b <= Len(s) + 1
    PROVE  /\ IsSeq(Slice(s, 1, b)) /\ Len(Slice(s, 1, b)) = b - 1
           /\ \A j \in 1..(b - 1) : Slice(s, 1, b)[j] = s[j]
<1>1. PICK one \in Nat : one = 1
  OBVIOUS
<1>2. /\ IsSeq(Slice(s, one, b)) /\ Len(Slice(s, one, b)) = b - one
      /\ \A j \in 1..(b - one) : Slice(s, one, b)[j] = s[one + j - 1]
  BY <1>1, Sliced
<1>3. \A j \in 1..(b - 1) : one + j - 1 = j
  BY <1>1
<1> QED
  BY <1>1, <1>2, <1>3

LEMMA NoSlice ==
    ASSUME NEW s, NEW a \in Nat
    PROVE  Slice(s, a, a) = << >>
  BY DEF Slice

LEMMA SlicesAreSeqs ==
    ASSUME NEW s, IsSeq(s)
    PROVE  \A a, b \in Nat : 1 <= a /\ a <= b /\ b <= Len(s) + 1 =>
              IsSeq(Slice(s, a, b)) /\ Len(Slice(s, a, b)) = b - a
  BY Sliced

\* A slice and the one behind it.
LEMMA SlicesJoined ==
    ASSUME NEW s, IsSeq(s), NEW a \in Nat, NEW b \in Nat, NEW c \in Nat,
           1 <= a, a <= b, b <= c, c <= Len(s) + 1
    PROVE  Slice(s, a, b) \o Slice(s, b, c) = Slice(s, a, c)
<1> DEFINE x == Slice(s, a, b)
           y == Slice(s, b, c)
           z == Slice(s, a, c)
<1>0. Len(s) \in Nat
  BY SeqsJoined
<1>1. /\ IsSeq(x) /\ Len(x) = b - a /\ \A j \in 1..(b - a) : x[j] = s[a + j - 1]
      /\ IsSeq(y) /\ Len(y) = c - b /\ \A j \in 1..(c - b) : y[j] = s[b + j - 1]
      /\ IsSeq(z) /\ Len(z) = c - a /\ \A j \in 1..(c - a) : z[j] = s[a + j - 1]
  <2>1. b <= Len(s) + 1 /\ a <= c /\ 1 <= b
    BY <1>0
  <2> QED
    BY <2>1, Sliced, ZenonT(30)
<1> HIDE DEF x, y, z
<1>2. /\ IsSeq(x \o y) /\ Len(x \o y) = c - a
      /\ \A j \in 1..(c - a) : (x \o y)[j] = IF j <= b - a THEN x[j] ELSE y[j - (b - a)]
  <2>1. /\ IsSeq(x \o y) /\ Len(x \o y) = Len(x) + Len(y)
        /\ \A j \in 1..(Len(x) + Len(y)) :
              (x \o y)[j] = IF j <= Len(x) THEN x[j] ELSE y[j - Len(x)]
    BY <1>1, SeqsJoined
  <2>2. Len(x) + Len(y) = c - a
    BY <1>1
  <2> QED
    BY <1>1, <2>1, <2>2
<1>3. ASSUME NEW j \in 1..(c - a) PROVE (x \o y)[j] = z[j]
  <2>1. CASE j <= b - a
    <3>1. j \in 1..(b - a)
      BY <2>1
    <3> QED
      BY <1>1, <1>2, <2>1, <3>1
  <2>2. CASE ~(j <= b - a)
    <3>1. j - (b - a) \in 1..(c - b) /\ b + (j - (b - a)) - 1 = a + j - 1
      BY <2>2
    <3> QED
      BY <1>1, <1>2, <2>2, <3>1
  <2> QED
    BY <2>1, <2>2
<1>4. x \o y = z
  BY <1>1, <1>2, <1>3, EqualSeqs
<1> QED
  BY <1>4 DEF x, y, z

LEMMA EqualSlices ==
    ASSUME NEW s, NEW u, IsSeq(s), IsSeq(u), NEW a \in Nat, NEW b \in Nat, 1 <= a, a <= b,
           b <= Len(s) + 1, b <= Len(u) + 1, \A j \in a..(b - 1) : s[j] = u[j]
    PROVE  Slice(s, a, b) = Slice(u, a, b)
<1> DEFINE x == Slice(s, a, b)
           y == Slice(u, a, b)
<1>1. /\ IsSeq(x) /\ Len(x) = b - a /\ \A j \in 1..(b - a) : x[j] = s[a + j - 1]
      /\ IsSeq(y) /\ Len(y) = b - a /\ \A j \in 1..(b - a) : y[j] = u[a + j - 1]
  BY Sliced
<1>2. \A j \in 1..(b - a) : a + j - 1 \in a..(b - 1)
  OBVIOUS
<1> HIDE DEF x, y
<1>3. \A j \in 1..(b - a) : x[j] = y[j]
  BY <1>1, <1>2
<1>4. x = y
  BY <1>1, <1>3, EqualSeqs
<1> QED
  BY <1>4 DEF x, y

--------------------------------------------------------------------------------
(* What a scan returns: options.                                           *)

\* A long option that was found does not return "no".
LEMMA FoundIs ==
    ASSUME NEW exact \in SUBSET DOMAIN Long, NEW abbreviated \in SUBSET DOMAIN Long,
           exact \union abbreviated # {}, NEW found,
           found = IF exact # {} THEN Min(exact) ELSE Min(abbreviated)
    PROVE  (IF Long[found].flag THEN "0" ELSE Long[found].val) # "no"
<1>1. DOMAIN Long \in SUBSET Nat /\ \A k \in DOMAIN Long : Long[k].val # "no"
  BY OptionAssumption
<1>2. found \in DOMAIN Long
  <2>1. exact \in SUBSET Nat /\ abbreviated \in SUBSET Nat
    BY <1>1
  <2>2. CASE exact # {}
    <3>1. Min(exact) \in exact
      BY <2>1, <2>2, LeastOf
    <3> QED
      BY <2>2, <3>1
  <2>3. CASE exact = {}
    <3>1. Min(abbreviated) \in abbreviated
      BY <2>1, <2>3, LeastOf
    <3> QED
      BY <2>3, <3>1
  <2> QED
    BY <2>2, <2>3
<1> QED
  BY <1>1, <1>2

\* A long option takes the element it is in, and "no" stands for none.
LEMMA LongOptionTakes ==
    ASSUME NEW av, Len(av) \in Nat, NEW ind \in 1..Len(av), NEW name, NEW value, NEW only
    PROVE  /\ LongOptionResult(av, name, value, ind, only).optind \in ind..(Len(av) + 1)
           /\ LongOptionResult(av, name, value, ind, only).optind = ind <=>
                 LongOptionResult(av, name, value, ind, only).code = "no"
           /\ LongOptionResult(av, name, value, ind, only).code = "no" =>
                 av[ind].kind = "short"
<1> DEFINE r == LongOptionResult(av, name, value, ind, only)
           exact == {k \in DOMAIN Long : Long[k].name = name}
           abbreviated == {k \in DOMAIN Long : IsPrefix(name, Long[k].name)}
           found == IF exact # {} THEN Min(exact) ELSE Min(abbreviated)
           ambiguous == /\ exact = {}
                        /\ \E k \in abbreviated :
                              k # found /\ (only \/ Differ(k, found))
           code == IF Long[found].flag THEN "0" ELSE Long[found].val
           At0(c, arg, k) == [code |-> c, arg |-> arg, optind |-> k]
<1>1. exact \union abbreviated # {} => code # "no"
  <2>1. exact \in SUBSET DOMAIN Long /\ abbreviated \in SUBSET DOMAIN Long
    OBVIOUS
  <2> HIDE DEF exact, abbreviated
  <2> QED
    BY <2>1, FoundIs
<1>2. r = IF exact \union abbreviated = {}
          THEN IF only /\ av[ind].kind = "short" /\ name[1] \in DOMAIN Short
               THEN At0("no", None, ind) ELSE At0("?", None, ind + 1)
          ELSE IF ambiguous THEN At0("?", None, ind + 1)
          ELSE IF value
          THEN IF Long[found].has_arg = "none" THEN At0("?", None, ind + 1)
               ELSE At0(code, <<"value">>, ind + 1)
          ELSE IF Long[found].has_arg # "required" THEN At0(code, None, ind + 1)
          ELSE IF ind + 1 <= Len(av) THEN At0(code, <<"element", av[ind + 1].id>>, ind + 2)
          ELSE At0(Missing, None, ind + 1)
  BY DEF LongOptionResult
<1>3. Missing # "no"
  BY DEF Missing
<1> HIDE DEF r, exact, abbreviated, found, ambiguous, code
<1>4. /\ r.optind \in {ind + 1} \/ (ind + 1 <= Len(av) /\ r.optind = ind + 2) \/ r.code = "no"
      /\ r.code = "no" => r.optind = ind /\ av[ind].kind = "short"
      /\ r.optind = ind => r.code = "no"
  BY <1>1, <1>2, <1>3
<1>5. r.optind \in ind..(Len(av) + 1)
  BY <1>4
<1> QED
  BY <1>4, <1>5 DEF r

\* An option after "--" or -W is one, or unknown.
LEMMA NotOnlyTakes ==
    ASSUME NEW av, Len(av) \in Nat, NEW ind \in 1..Len(av), NEW name, NEW value
    PROVE  LongOptionResult(av, name, value, ind, FALSE).optind \in (ind + 1)..(Len(av) + 1)
<1> DEFINE r == LongOptionResult(av, name, value, ind, FALSE)
<1>1. r.optind \in {ind + 1} \/ (ind + 1 <= Len(av) /\ r.optind = ind + 2)
  BY DEF LongOptionResult
<1> HIDE DEF r
<1>2. r.optind \in (ind + 1)..(Len(av) + 1)
  BY <1>1
<1> QED
  BY <1>2 DEF r

\* It looks at no other element than the one it is in and the one behind it.
LEMMA LongOptionLooksAhead ==
    ASSUME NEW av, NEW bv, Len(av) = Len(bv), NEW ind, av[ind] = bv[ind],
           ind + 1 <= Len(av) => av[ind + 1] = bv[ind + 1],
           NEW name, NEW value, NEW only
    PROVE  LongOptionResult(av, name, value, ind, only)
               = LongOptionResult(bv, name, value, ind, only)
  BY DEF LongOptionResult

LEMMA EndingIs ==
    ASSUME NEW av, Len(av) \in Nat, NEW j \in 1..Len(av), NEW k
    PROVE  Ending(av, j, k).optind \in (j + 1)..(Len(av) + 1)
<1> DEFINE c == av[j].chars[k]
           rest == SubSeq(av[j].chars, k + 1, Len(av[j].chars))
           r == Ending(av, j, k)
           one == LongOptionResult(av, rest, FALSE, j, FALSE)
           two == LongOptionResult(av, Name(av[j + 1]), av[j + 1].value, j + 1, FALSE)
<1>1. \/ r.optind = j + 1
      \/ j # Len(av) /\ r.optind = j + 1 + 1
      \/ r.optind = one.optind
      \/ j # Len(av) /\ r.optind = two.optind
  <2> DEFINE Ends(code, arg, uses) == [code |-> code, arg |-> arg, optind |-> j + 1 + uses]
  <2>1. r = IF Short[c] = "optional"
            THEN Ends(c, IF rest = << >> THEN None ELSE <<"rest", Len(rest)>>, 0)
            ELSE IF rest = << >> /\ j = Len(av) THEN Ends(Missing, None, 0)
            ELSE IF Short[c] = "required"
            THEN IF rest # << >> THEN Ends(c, <<"rest", Len(rest)>>, 0)
                 ELSE Ends(c, <<"element", av[j + 1].id>>, 1)
            ELSE IF rest # << >> THEN one ELSE two
    BY DEF Ending
  <2>2. \A code, arg : Ends(code, arg, 0).optind = j + 1 /\ Ends(code, arg, 1).optind = j + 1 + 1
    OBVIOUS
  <2> HIDE DEF Ends, one, two, rest, c, r
  <2> QED
    BY <2>1, <2>2
<1>2. one.optind \in (j + 1)..(Len(av) + 1)
  BY NotOnlyTakes
<1>3. j # Len(av) => two.optind \in (j + 1)..(Len(av) + 1)
  <2>1. ASSUME j # Len(av) PROVE j + 1 \in 1..Len(av)
    BY <2>1
  <2>2. j # Len(av) => two.optind \in (j + 1 + 1)..(Len(av) + 1)
    BY <2>1, NotOnlyTakes
  <2> HIDE DEF two
  <2> QED
    BY <2>2
<1> HIDE DEF one, two, r
<1>4. r.optind \in (j + 1)..(Len(av) + 1)
  BY <1>1, <1>2, <1>3
<1> QED
  BY <1>4 DEF r

LEMMA PlainReturnsAre ==
    ASSUME NEW chars, NEW m \in Nat
    PROVE  IsSeq(PlainReturns(chars, m)) /\ Len(PlainReturns(chars, m)) = m
<1> DEFINE At1(k) == Result(IF chars[k] \in DOMAIN Short THEN chars[k] ELSE "?", None)
           S == {At1(k) : k \in 1..m}
           s == [k \in 1..m |-> At1(k)]
<1>1. \A k \in 1..m : At1(k) \in S
  OBVIOUS
<1> HIDE DEF At1, S
<1>2. s \in Seq(S) /\ Len(s) = m
  BY <1>1
<1>3. PlainReturns(chars, m) = s
  BY DEF PlainReturns, At1
<1> HIDE DEF s
<1> QED
  BY <1>2, <1>3 DEF IsSeq

\* The first character that is not plain ends a cluster.
LEMMA ClusterIs ==
    ASSUME NEW av, NEW j, Len(av[j].chars) \in Nat
    PROVE  /\ (\A h \in 1..Len(av[j].chars) : Plain(av[j].chars[h])) =>
                 Cluster(av, j) = Taken(PlainReturns(av[j].chars, Len(av[j].chars)), 0)
           /\ \A k \in 1..Len(av[j].chars) :
                 ~Plain(av[j].chars[k]) /\ (\A h \in 1..(k - 1) : Plain(av[j].chars[h])) =>
                    Cluster(av, j)
                       = TakenBy(PlainReturns(av[j].chars, k - 1), Ending(av, j, k), j)
<1> DEFINE chars == av[j].chars
           S == {k \in 1..(Len(chars) + 1) : k > Len(chars) \/ ~Plain(chars[k])}
           cut == Min(S)
<1>1. Cluster(av, j) =
         IF cut > Len(chars) THEN Taken(PlainReturns(chars, cut - 1), 0)
         ELSE TakenBy(PlainReturns(chars, cut - 1), Ending(av, j, cut), j)
  BY DEF Cluster
<1>2. cut \in S /\ \A y \in S : cut <= y
  <2>1. S \in SUBSET Nat /\ Len(chars) + 1 \in S
    OBVIOUS
  <2> HIDE DEF S
  <2> QED
    BY <2>1, LeastOf
<1> HIDE DEF cut
<1>3. ASSUME \A h \in 1..Len(chars) : Plain(chars[h])
      PROVE  Cluster(av, j) = Taken(PlainReturns(chars, Len(chars)), 0)
  <2>1. cut = Len(chars) + 1
    BY <1>2, <1>3
  <2>2. cut > Len(chars) /\ cut - 1 = Len(chars)
    BY <2>1
  <2> QED
    BY <1>1, <2>2
<1>4. ASSUME NEW k \in 1..Len(chars), ~Plain(chars[k]), \A h \in 1..(k - 1) : Plain(chars[h])
      PROVE  Cluster(av, j) = TakenBy(PlainReturns(chars, k - 1), Ending(av, j, k), j)
  <2>1. k \in S
    BY <1>4
  <2>2. cut <= k /\ cut \in 1..Len(chars) /\ ~Plain(chars[cut])
    BY <1>2, <2>1
  <2>3. cut = k
    BY <1>4, <2>2
  <2>4. ~(cut > Len(chars))
    BY <2>2
  <2> QED
    BY <1>1, <2>3, <2>4
<1> QED
  BY <1>3, <1>4

\* An option leaves off before the end of argv.
LEMMA OptionIs ==
    ASSUME NEW av, Scannable(av), NEW j \in 1..Len(av)
    PROVE  Option(av, j).uses \in 0..(Len(av) - j) /\ IsSeq(Option(av, j).returns)
<1>1. Len(av) \in Nat /\ av[j] \in Element
  BY DEF Scannable
<1> DEFINE chars == av[j].chars
<1>2. chars \in Seq(Chars) /\ Len(chars) \in Nat
  BY <1>1 DEF Element
<1>3. \A s : IsSeq(s) => IsSeq(Append(s, Result(s, s)))
  BY Appended
<1>4. ASSUME NEW s, IsSeq(s), NEW r, r.optind \in (j + 1)..(Len(av) + 1),
             Option(av, j) = TakenBy(s, r, j)
      PROVE  Option(av, j).uses \in 0..(Len(av) - j) /\ IsSeq(Option(av, j).returns)
  <2>1. /\ Option(av, j).uses = r.optind - (j + 1)
        /\ Option(av, j).returns = Append(s, Result(r.code, r.arg))
    BY <1>4 DEF TakenBy, Taken
  <2>2. IsSeq(Append(s, Result(r.code, r.arg)))
    BY <1>4, Appended
  <2>3. PICK q : q = r.optind
    OBVIOUS
  <2>4. q - (j + 1) \in 0..(Len(av) - j)
    BY <1>1, <1>4, <2>3
  <2> QED
    BY <2>1, <2>2, <2>3, <2>4
<1>5. ASSUME NEW s, IsSeq(s), Option(av, j) = Taken(s, 0)
      PROVE  Option(av, j).uses \in 0..(Len(av) - j) /\ IsSeq(Option(av, j).returns)
  <2>1. Option(av, j).uses = 0 /\ Option(av, j).returns = s
    BY <1>5 DEF Taken
  <2> QED
    BY <1>1, <1>5, <2>1
<1>6. CASE av[j].kind = "operand"
  <2> DEFINE s == << >>
             e == Result("1", <<"element", av[j].id>>)
  <2>1. IsSeq(<< >>) /\ IsSeq(<<e>>)
    <3>1. << >> \in Seq({1})
      OBVIOUS
    <3>2. IsSeq(<< >>)
      BY <3>1 DEF IsSeq
    <3> QED
      BY <3>2, Appended
  <2>2. Option(av, j) = Taken(<<e>>, 0)
    BY <1>6 DEF Option
  <2> QED
    BY <1>5, <2>1, <2>2
<1>7. CASE av[j].kind # "operand" /\ ReadAsLong(av, j)
  <2>1. Option(av, j) = TakenBy(<< >>, AsLong(av, j), j) /\ AsLong(av, j).code # "no"
    BY <1>7 DEF Option, ReadAsLong
  <2>2. /\ AsLong(av, j).optind \in j..(Len(av) + 1)
        /\ AsLong(av, j).optind = j <=> AsLong(av, j).code = "no"
    BY <1>1, LongOptionTakes DEF AsLong
  <2>3. AsLong(av, j).optind \in (j + 1)..(Len(av) + 1)
    BY <1>1, <2>1, <2>2
  <2>4. << >> \in Seq({1})
    OBVIOUS
  <2> QED
    BY <1>4, <2>1, <2>3, <2>4 DEF IsSeq
<1>8. CASE av[j].kind # "operand" /\ ~ReadAsLong(av, j)
  <2>1. Option(av, j) = Cluster(av, j)
    BY <1>8 DEF Option
  <2>2. CASE \A h \in 1..Len(chars) : Plain(chars[h])
    BY <1>2, <1>5, <2>1, <2>2, ClusterIs, PlainReturnsAre
  <2>3. CASE ~\A h \in 1..Len(chars) : Plain(chars[h])
    <3> DEFINE S == {k \in 1..Len(chars) : ~Plain(chars[k])}
    <3>1. S \in SUBSET Nat /\ S # {}
      BY <2>3
    <3>2. PICK k : k \in S /\ \A y \in S : k <= y
      <4> HIDE DEF S
      <4> QED
        BY <3>1, LeastOf
    <3>3. k \in 1..Len(chars) /\ ~Plain(chars[k]) /\ k - 1 \in Nat
      BY <1>2, <3>2
    <3>4. \A h \in 1..(k - 1) : Plain(chars[h])
      <4>1. ASSUME NEW h \in 1..(k - 1) PROVE h \in 1..Len(chars) /\ ~(k <= h)
        BY <1>2, <3>3
      <4> QED
        BY <3>2, <4>1
    <3>5. Cluster(av, j) = TakenBy(PlainReturns(chars, k - 1), Ending(av, j, k), j)
      BY <1>2, <3>3, <3>4, ClusterIs
    <3> QED
      BY <1>1, <1>4, <2>1, <3>3, <3>5, EndingIs, PlainReturnsAre
  <2> QED
    BY <2>2, <2>3
<1> QED
  BY <1>6, <1>7, <1>8

--------------------------------------------------------------------------------
(* The scan: the steps.                                                    *)

LEMMA ScanIs ==
    ASSUME ScanInv
    PROVE  /\ argv \in Seq(Element) /\ Len(argv) \in Nat /\ Argc \in Nat
           /\ Len(orig) = Len(argv) /\ Argc = Len(argv) + 1
           /\ optind \in 1..Argc /\ first_nonopt \in 1..Argc /\ last_nonopt \in 1..Argc
           /\ bottom \in 1..Argc /\ middle \in 1..Argc /\ top \in 1..Argc
           /\ optind \in Nat /\ first_nonopt \in Nat /\ last_nonopt \in Nat
           /\ bottom \in Nat /\ middle \in Nat /\ top \in Nat
           /\ nextchar \in Seq(Chars)
           /\ Scannable(argv) /\ Scannable(orig)
           /\ \A j \in 1..Len(argv) : argv[j] \in Element
  BY DEF ScanInv, TypeOK, Argc

LEMMA SegmentIs ==
    ASSUME ScanInv
    PROVE  /\ bottom \in Nat /\ middle \in Nat /\ top \in Nat /\ Len(argv) \in Nat
           /\ 1 <= bottom /\ top <= Len(argv) + 1 /\ Len(orig) = Len(argv)
<1>1. /\ bottom \in 1..(Len(argv) + 1) /\ middle \in 1..(Len(argv) + 1)
      /\ top \in 1..(Len(argv) + 1) /\ Len(argv) \in Nat /\ Len(orig) = Len(argv)
  BY DEF ScanInv, TypeOK, Argc
<1> QED
  BY <1>1

\* What a step has to show of where the scan is.
LEMMA ScanningThen ==
    ASSUME orig' = orig,
           pc' \in {"call", "advance", "dashes", "word", "short"} =>
              Arranged(argv', first_nonopt', last_nonopt', optind'),
           pc' = "skip" => Arranged(argv', first_nonopt', optind', optind'),
           pc' \in {"exchange", "exchange2"} =>
              /\ bottom' <= middle' /\ middle' <= top' /\ top' <= optind'
              /\ first_nonopt' <= last_nonopt' /\ last_nonopt' <= optind'
              /\ Arranged(Rotated(argv', bottom', middle', top'),
                          first_nonopt' + (optind' - last_nonopt'), optind', optind'),
           pc' \in {"word", "short"} => (nextchar' = << >> <=> pc' = "word"),
           nextchar' # << >> => pc' \in {"call", "short"} /\ optind' <= Len(argv')
    PROVE  Scanning'
<1>1. \A e : Place(e)' = Place(e)
  BY DEF Place
<1>2. Arranged(argv', first_nonopt', last_nonopt', optind')
         => Arranged(argv, first_nonopt, last_nonopt, optind)'
  BY <1>1 DEF Arranged, Passed
<1>3. Arranged(argv', first_nonopt', optind', optind')
         => Arranged(argv, first_nonopt, optind, optind)'
  BY <1>1 DEF Arranged, Passed
<1>4. Rotated(argv, bottom, middle, top)' = Rotated(argv', bottom', middle', top')
  BY DEF Rotated
<1>5. Arranged(Rotated(argv', bottom', middle', top'),
               first_nonopt' + (optind' - last_nonopt'), optind', optind')
         => Arranged(Rotated(argv, bottom, middle, top),
                     first_nonopt + (optind - last_nonopt), optind, optind)'
  BY <1>1, <1>4, SMTT(30), SMTT(30) DEF Arranged, Passed
<1> QED
  BY <1>2, <1>3, <1>5 DEF Scanning

LEMMA StepScanCall == ASSUME ScanInv, Call PROVE ScanInv'
<1>1. /\ pc = "call" /\ pc' \in {"short", "advance"} /\ (pc' = "short" <=> nextchar # << >>)
      /\ UNCHANGED <<argv, optind, nextchar, ordering, long_only, bottom, middle, top, orig,
                     scans>>
  BY DEF Call, mode, segment, history
<1>2. Arranged(argv, first_nonopt, last_nonopt, optind)
  BY <1>1 DEF ScanInv, Scanning
<1>3. first_nonopt <= optind /\ last_nonopt <= optind
  BY <1>2, ScanIs DEF Arranged
<1>4. first_nonopt' = first_nonopt /\ last_nonopt' = last_nonopt
  BY <1>3, ScanIs, LeastOfTwo DEF Call
<1>5. TypeOK' /\ Scannable(argv)' /\ Scannable(orig)' /\ Len(orig') = Len(argv')
  BY <1>1, <1>4 DEF ScanInv, TypeOK, Argc, Scannable
<1>6. Scanning'
  <2>1. nextchar' # << >> => pc' = "short" /\ optind' <= Len(argv')
    BY <1>1 DEF ScanInv, Scanning
  <2>2. Arranged(argv', first_nonopt', last_nonopt', optind')
    BY <1>1, <1>2, <1>4
  <2> QED
    BY <1>1, <2>1, <2>2, ScanningThen
<1> QED
  BY <1>5, <1>6 DEF ScanInv

LEMMA StepAdvance == ASSUME ScanInv, Advance PROVE ScanInv'
<1>1. /\ pc = "advance" /\ nextchar = << >>
      /\ UNCHANGED <<argv, optind, last_nonopt, nextchar, ordering, long_only, orig, scans>>
  BY DEF Advance, mode, history, ScanInv, Scanning
<1>2. Arranged(argv, first_nonopt, last_nonopt, optind)
  BY <1>1 DEF ScanInv, Scanning
<1>3. /\ 1 <= first_nonopt /\ first_nonopt <= last_nonopt /\ last_nonopt <= optind
  BY <1>2 DEF Arranged
<1>4. Scannable(argv)' /\ Scannable(orig)' /\ Len(orig') = Len(argv')
  BY <1>1 DEF ScanInv, Scannable
<1>5. CASE ordering # "PERMUTE"
  <2>1. pc' = "dashes" /\ UNCHANGED <<first_nonopt, bottom, middle, top>>
    BY <1>5 DEF Advance, segment
  <2>2. TypeOK'
    BY <1>1, <2>1 DEF ScanInv, TypeOK, Argc
  <2>3. Scanning'
    BY <1>1, <1>2, <2>1, ScanningThen
  <2> QED
    BY <1>4, <2>2, <2>3 DEF ScanInv
<1>6. CASE ordering = "PERMUTE" /\ first_nonopt # last_nonopt /\ last_nonopt # optind
  <2>1. /\ pc' = "exchange" /\ UNCHANGED first_nonopt
        /\ bottom' = first_nonopt /\ middle' = last_nonopt /\ top' = optind
    BY <1>1, <1>6 DEF Advance, BeginExchange
  <2>2. TypeOK'
    BY <1>1, <2>1 DEF ScanInv, TypeOK, Argc
  <2>3. Arranged(Rotated(argv, first_nonopt, last_nonopt, optind),
                 first_nonopt + (optind - last_nonopt), optind, optind)
    BY <1>2, ScanIs, RotatedIsArranged
  <2>4. Scanning'
    <3>1. top' <= optind' /\ bottom' <= middle' /\ middle' <= top'
      BY <1>1, <1>3, <2>1, ScanIs
    <3>2. first_nonopt' <= last_nonopt' /\ last_nonopt' <= optind'
      BY <1>1, <1>3, <2>1
    <3>3. Arranged(Rotated(argv', bottom', middle', top'),
                   first_nonopt' + (optind' - last_nonopt'), optind', optind')
      BY <1>1, <2>1, <2>3
    <3> QED
      BY <1>1, <2>1, <3>1, <3>2, <3>3, ScanningThen
  <2> QED
    BY <1>4, <2>2, <2>4 DEF ScanInv
<1>7. CASE ordering = "PERMUTE" /\ ~(first_nonopt # last_nonopt /\ last_nonopt # optind)
  <2>1. /\ pc' = "skip" /\ UNCHANGED <<bottom, middle, top>>
        /\ first_nonopt' = IF last_nonopt # optind THEN optind ELSE first_nonopt
    BY <1>7 DEF Advance, segment
  <2>2. Arranged(argv, first_nonopt', optind, optind)
    <3>1. CASE last_nonopt = optind
      BY <1>2, <2>1, <3>1
    <3>2. CASE last_nonopt # optind
      BY <1>2, <1>7, <2>1, <3>2, ScanIs, ArrangedWithout
    <3> QED
      BY <3>1, <3>2
  <2>3. TypeOK'
    BY <1>1, <2>1 DEF ScanInv, TypeOK, Argc
  <2>4. Scanning'
    BY <1>1, <2>1, <2>2, ScanningThen
  <2> QED
    BY <1>4, <2>3, <2>4 DEF ScanInv
<1> QED
  BY <1>5, <1>6, <1>7

LEMMA ExchangeRound ==
    ASSUME ScanInv, Exchange, top > middle, middle > bottom
    PROVE  Rotated(argv', bottom', middle, top') = Rotated(argv, bottom, middle, top)
<1>1. top <= Len(orig) + 1 /\ 1 <= bottom
  BY SegmentIs
<1>2. CASE top - middle > middle - bottom
  <2>1. /\ argv' = Swapped(bottom, top - (middle - bottom), middle - bottom)
        /\ top' = top - (middle - bottom) /\ bottom' = bottom
    BY <1>2 DEF Exchange
  <2> QED
    BY <1>1, <1>2, <2>1, ScanIs, RotatedLater
<1>3. CASE ~(top - middle > middle - bottom)
  <2>1. /\ argv' = Swapped(bottom, middle, top - middle)
        /\ bottom' = bottom + (top - middle) /\ top' = top
    BY <1>3 DEF Exchange
  <2>2. top - middle <= middle - bottom
    BY <1>3, SegmentIs
  <2> QED
    BY <1>1, <2>1, <2>2, ScanIs, RotatedLater
<1> QED
  BY <1>2, <1>3

LEMMA StepExchange == ASSUME ScanInv, Exchange PROVE ScanInv'
<1>1. /\ pc \in {"exchange", "exchange2"} /\ nextchar = << >>
      /\ UNCHANGED <<optind, nextchar, ordering, long_only, orig, scans>>
  BY DEF Exchange, mode, history, ScanInv, Scanning
<1> DEFINE Goal == Rotated(argv, bottom, middle, top)
           first == first_nonopt + (optind - last_nonopt)
<1>2. /\ bottom <= middle /\ middle <= top /\ top <= optind
      /\ first_nonopt <= last_nonopt /\ last_nonopt <= optind
      /\ Arranged(Goal, first, optind, optind)
  BY <1>1 DEF ScanInv, Scanning
<1>3. top <= Len(orig) + 1 /\ 1 <= bottom
  BY SegmentIs
<1>4. CASE top > middle /\ middle > bottom
  <2>1. UNCHANGED <<middle, first_nonopt, last_nonopt, pc>>
    BY <1>4 DEF Exchange
  <2>2. /\ Scannable(argv') /\ Len(argv') = Len(argv)
        /\ bottom' \in 1..Argc /\ top' \in 1..Argc
        /\ bottom' <= middle /\ middle <= top' /\ top' <= optind
    <3>1. CASE top - middle > middle - bottom
      <4>1. /\ argv' = Swapped(bottom, top - (middle - bottom), middle - bottom)
            /\ top' = top - (middle - bottom) /\ bottom' = bottom
        BY <1>4, <3>1 DEF Exchange
      <4>2. /\ top' \in Nat /\ middle <= top' /\ top' <= top
            /\ middle - bottom \in Nat /\ bottom + (middle - bottom) <= top'
            /\ top' + (middle - bottom) <= Len(argv) + 1
        <5> HIDE DEF Goal, first
        <5> QED
          BY <1>4, <3>1, <4>1, SegmentIs, SMTT(30)
      <4>3. Scannable(argv') /\ Len(argv') = Len(argv)
        BY <1>3, <4>1, <4>2, ScanIs, SwappedIsScannable, ZenonT(30)
      <4>4. bottom' \in 1..Argc /\ top' \in 1..Argc /\ bottom' <= middle /\ top' <= optind
        <5>1. top <= optind /\ bottom <= middle
          BY <1>2
        <5>2. /\ Argc \in Nat /\ optind \in 1..Argc /\ optind \in Nat /\ bottom \in 1..Argc
              /\ middle \in 1..Argc /\ middle \in Nat /\ top \in Nat
          BY ScanIs
        <5> HIDE DEF Argc
        <5>3. top' \in 1..Argc /\ top' <= optind
          BY <4>2, <5>1, <5>2
        <5> QED
          BY <4>1, <5>1, <5>2, <5>3
      <4> QED
        BY <4>2, <4>3, <4>4
    <3>2. CASE ~(top - middle > middle - bottom)
      <4>1. /\ argv' = Swapped(bottom, middle, top - middle)
            /\ bottom' = bottom + (top - middle) /\ top' = top
        BY <1>4, <3>2 DEF Exchange
      <4>2. top - middle <= middle - bottom
        BY <3>2, SegmentIs
      <4>3. /\ bottom' \in Nat /\ 1 <= bottom' /\ bottom' <= middle
            /\ top - middle \in Nat /\ bottom + (top - middle) <= middle
            /\ middle + (top - middle) <= Len(argv) + 1
        <5> HIDE DEF Goal, first
        <5> QED
          BY <1>4, <4>1, <4>2, SegmentIs, SMTT(30)
      <4>4. Scannable(argv') /\ Len(argv') = Len(argv)
        BY <1>3, <4>1, <4>3, ScanIs, SwappedIsScannable, ZenonT(30)
      <4>5. bottom' \in 1..Argc /\ top' \in 1..Argc
        BY <4>1, <4>3, ScanIs
      <4> QED
        BY <1>2, <4>1, <4>3, <4>4, <4>5
    <3> QED
      BY <3>1, <3>2
  <2>3. TypeOK'
    BY <1>1, <2>1, <2>2 DEF ScanInv, TypeOK, Argc, Scannable
  <2>4. Scanning'
    BY <1>1, <1>2, <1>4, <2>1, <2>2, ExchangeRound, ScanningThen
  <2>5. Scannable(argv)' /\ Scannable(orig)' /\ Len(orig') = Len(argv')
    BY <1>1, <2>2 DEF ScanInv, Scannable
  <2> QED
    BY <2>3, <2>4, <2>5 DEF ScanInv
<1>5. CASE ~(top > middle /\ middle > bottom)
  <2>1. /\ first_nonopt' = first /\ last_nonopt' = optind
        /\ pc' = IF pc = "exchange" THEN "skip" ELSE "end"
        /\ UNCHANGED <<argv, bottom, middle, top>>
    BY <1>5 DEF Exchange, segment
  <2>2. middle = bottom \/ middle = top
    BY <1>2, <1>5, ScanIs
  <2>3. Goal = argv
    BY <2>2, ScanIs, RotatedIsOver
  <2>4. Arranged(argv, first, optind, optind)
    BY <1>2, <2>3
  <2>5. first \in 1..Argc
    BY <1>2, <2>4, ScanIs DEF Arranged
  <2>6. TypeOK'
    BY <1>1, <2>1, <2>5 DEF ScanInv, TypeOK, Argc
  <2>7. Scanning'
    BY <1>1, <2>1, <2>4, ScanningThen
  <2>8. Scannable(argv)' /\ Scannable(orig)' /\ Len(orig') = Len(argv')
    BY <1>1, <2>1 DEF ScanInv, Scannable
  <2> QED
    BY <2>6, <2>7, <2>8 DEF ScanInv
<1> QED
  BY <1>4, <1>5

LEMMA SkipIs ==
    ASSUME ScanInv, Skip
    PROVE  /\ optind' \in Nat /\ optind <= optind' /\ optind' <= Argc
           /\ \A j \in optind..(optind' - 1) : argv[j].kind = "operand"
           /\ optind' = Argc \/ argv[optind'].kind # "operand"
<1> DEFINE S == {k \in optind..Argc : k = Argc \/ ~Operand(k)}
<1>1. /\ optind \in Nat /\ Argc \in Nat /\ optind <= Argc
  BY ScanIs
<1> HIDE DEF Argc
<1>2. S \in SUBSET Nat /\ Argc \in S
  BY <1>1
<1>3. optind' = Min(S)
  BY DEF Skip
<1> HIDE DEF S
<1>4. optind' \in S /\ \A y \in S : optind' <= y
  BY <1>2, <1>3, LeastOf
<1>5. PICK next : next = optind'
  OBVIOUS
<1>6. next \in Nat /\ optind <= next /\ next <= Argc /\ (next = Argc \/ ~Operand(next))
  BY <1>1, <1>4, <1>5 DEF S
<1>7. ASSUME NEW j \in optind..(next - 1) PROVE argv[j].kind = "operand"
  <2>1. ASSUME NEW a \in Nat, NEW b \in Nat, NEW k \in a..(b - 1)
        PROVE  k \in Nat /\ a <= k /\ k < b
    OBVIOUS
  <2>2. j \in Nat /\ optind <= j /\ j < next
    BY <1>1, <1>6, <2>1
  <2>3. j \in optind..Argc /\ j # Argc /\ ~(next <= j)
    BY <1>1, <1>6, <2>2
  <2> QED
    BY <1>4, <1>5, <2>3 DEF S, Operand
<1> QED
  BY <1>5, <1>6, <1>7 DEF Operand

LEMMA StepSkip == ASSUME ScanInv, Skip PROVE ScanInv'
<1>1. /\ pc = "skip" /\ pc' = "dashes" /\ nextchar = << >>
      /\ last_nonopt' = optind'
      /\ UNCHANGED <<argv, first_nonopt, nextchar, ordering, long_only, bottom, middle, top,
                     orig, scans>>
  BY DEF Skip, mode, segment, history, ScanInv, Scanning
<1>2. Arranged(argv, first_nonopt, optind, optind)
  BY <1>1 DEF ScanInv, Scanning
<1>3. /\ optind \in Nat /\ Argc \in Nat /\ optind <= Argc /\ Argc = Len(orig) + 1
      /\ optind \in 1..Argc
  BY ScanIs
<1>4. /\ optind' \in Nat /\ optind <= optind' /\ optind' <= Argc
      /\ \A j \in optind..(optind' - 1) : argv[j].kind = "operand"
  BY SkipIs
<1>5. optind' \in 1..Argc
  <2> HIDE DEF Argc
  <2> QED
    BY <1>3, <1>4
<1>6. Arranged(argv, first_nonopt, optind', optind')
  BY <1>2, <1>3, <1>4, ScanIs, ArrangedOperands
<1>7. TypeOK'
  BY <1>1, <1>5 DEF ScanInv, TypeOK, Argc
<1>8. Scanning'
  BY <1>1, <1>6, ScanningThen
<1>9. Scannable(argv)' /\ Scannable(orig)' /\ Len(orig') = Len(argv')
  BY <1>1 DEF ScanInv, Scannable
<1> QED
  BY <1>7, <1>8, <1>9 DEF ScanInv

LEMMA StepDashes == ASSUME ScanInv, Dashes PROVE ScanInv'
<1>1. /\ pc = "dashes" /\ nextchar = << >>
      /\ UNCHANGED <<argv, last_nonopt, nextchar, ordering, long_only, orig, scans>>
  BY DEF Dashes, mode, history, ScanInv, Scanning
<1>2. Arranged(argv, first_nonopt, last_nonopt, optind)
  BY <1>1 DEF ScanInv, Scanning
<1>3. /\ 1 <= first_nonopt /\ first_nonopt <= last_nonopt /\ last_nonopt <= optind
  BY <1>2 DEF Arranged
<1>4. Scannable(argv)' /\ Scannable(orig)' /\ Len(orig') = Len(argv')
  BY <1>1 DEF ScanInv, Scannable
<1>5. CASE ~(optind # Argc /\ argv[optind].kind = "dashes")
  <2>1. pc' = "word" /\ UNCHANGED <<optind, first_nonopt, bottom, middle, top>>
    BY <1>5 DEF Dashes, segment
  <2>2. TypeOK'
    BY <1>1, <2>1 DEF ScanInv, TypeOK, Argc
  <2>3. Scanning'
    BY <1>1, <1>2, <2>1, ScanningThen
  <2> QED
    BY <1>4, <2>2, <2>3 DEF ScanInv
<1>6. CASE optind # Argc /\ argv[optind].kind = "dashes"
  <2>1. /\ optind' = optind + 1 /\ optind' \in 1..Argc /\ optind' \in Nat /\ optind <= optind'
        /\ optind' <= Len(orig) + 1
    BY <1>6, ScanIs DEF Dashes
  <2>2. CASE first_nonopt # last_nonopt /\ last_nonopt # optind'
    <3>1. /\ pc' = "exchange2" /\ UNCHANGED first_nonopt
          /\ bottom' = first_nonopt /\ middle' = last_nonopt /\ top' = optind'
      BY <1>6, <2>2 DEF Dashes, BeginExchange
    <3>2. TypeOK'
      BY <1>1, <2>1, <3>1 DEF ScanInv, TypeOK, Argc
    <3>3. Arranged(argv, first_nonopt, last_nonopt, optind')
      BY <1>2, <2>1, ScanIs, ArrangedFurther
    <3>4. Arranged(Rotated(argv, first_nonopt, last_nonopt, optind'),
                   first_nonopt + (optind' - last_nonopt), optind', optind')
      BY <2>1, <3>3, ScanIs, RotatedIsArranged
    <3>5. last_nonopt <= optind' /\ optind' <= optind'
      BY <3>3, <2>1 DEF Arranged
    <3>6. Scanning'
      BY <1>1, <1>3, <3>1, <3>4, <3>5, ScanningThen
    <3> QED
      BY <1>4, <3>2, <3>6 DEF ScanInv
  <2>3. CASE ~(first_nonopt # last_nonopt /\ last_nonopt # optind')
    <3>1. /\ pc' = "end" /\ UNCHANGED <<bottom, middle, top>>
          /\ first_nonopt' = IF first_nonopt = last_nonopt THEN optind' ELSE first_nonopt
      BY <1>6, <2>3 DEF Dashes, segment
    <3>2. TypeOK'
      BY <1>1, <2>1, <3>1 DEF ScanInv, TypeOK, Argc
    <3>3. Scanning'
      BY <1>1, <3>1, ScanningThen
    <3> QED
      BY <1>4, <3>2, <3>3 DEF ScanInv
  <2> QED
    BY <2>2, <2>3
<1> QED
  BY <1>5, <1>6

LEMMA StepEnd == ASSUME ScanInv, End PROVE ScanInv'
<1>1. /\ pc = "end" /\ pc' = "done" /\ nextchar = << >> /\ last_nonopt' = Argc
      /\ optind' \in {first_nonopt, Argc}
      /\ UNCHANGED <<argv, first_nonopt, nextchar, ordering, long_only, bottom, middle, top,
                     orig, scans>>
  BY DEF End, Finish, mode, segment, history, ScanInv, Scanning
<1>2. Argc \in 1..Argc
  BY ScanIs
<1>3. TypeOK'
  BY <1>1, <1>2 DEF ScanInv, TypeOK, Argc
<1>4. Scanning'
  BY <1>1, ScanningThen
<1>5. Scannable(argv)' /\ Scannable(orig)' /\ Len(orig') = Len(argv')
  BY <1>1 DEF ScanInv, Scannable
<1> QED
  BY <1>3, <1>4, <1>5 DEF ScanInv

\* After an option: the scan stands behind what it took.
LEMMA StepReturn ==
    ASSUME ScanInv, pc \in {"word", "short"}, optind <= Len(argv),
           pc' = "call", optind' \in optind..Argc, nextchar' \in Seq(Chars),
           nextchar' # << >> => optind' <= Len(argv),
           UNCHANGED <<argv, first_nonopt, last_nonopt, ordering, long_only, bottom, middle,
                       top, orig, scans>>
    PROVE  ScanInv'
<1>1. Arranged(argv, first_nonopt, last_nonopt, optind)
  BY DEF ScanInv, Scanning
<1>2. /\ optind' \in Nat /\ optind <= optind' /\ optind' \in 1..Argc
      /\ optind' <= Len(orig) + 1
  BY ScanIs
<1>3. Arranged(argv, first_nonopt, last_nonopt, optind')
  BY <1>1, <1>2, ScanIs, ArrangedFurther
<1>4. TypeOK'
  BY <1>2 DEF ScanInv, TypeOK, Argc
<1>5. Scanning'
  BY <1>3, ScanningThen
<1>6. Scannable(argv)' /\ Scannable(orig)' /\ Len(orig') = Len(argv')
  BY DEF ScanInv, Scannable
<1> QED
  BY <1>4, <1>5, <1>6 DEF ScanInv

LEMMA StepWord == ASSUME ScanInv, Word PROVE ScanInv'
<1>1. /\ pc = "word" /\ nextchar = << >>
      /\ UNCHANGED <<argv, first_nonopt, last_nonopt, ordering, long_only, bottom, middle, top,
                     orig, scans>>
  BY DEF Word, mode, segment, history, ScanInv, Scanning
<1>2. Arranged(argv, first_nonopt, last_nonopt, optind)
  BY <1>1 DEF ScanInv, Scanning
<1>3. Scannable(argv)' /\ Scannable(orig)' /\ Len(orig') = Len(argv')
  BY <1>1 DEF ScanInv, Scannable
<1>4. CASE pc' = "done" /\ nextchar' = nextchar /\ optind' \in {optind, first_nonopt}
  <2>1. TypeOK'
    BY <1>1, <1>4 DEF ScanInv, TypeOK, Argc
  <2>2. Scanning'
    BY <1>1, <1>4, ScanningThen
  <2> QED
    BY <1>3, <2>1, <2>2 DEF ScanInv
<1>5. CASE optind = Argc
  BY <1>1, <1>4, <1>5 DEF Word, Finish
<1>6. CASE optind # Argc
  <2>1. /\ optind \in 1..Len(argv) /\ optind <= Len(argv) /\ Argc = Len(argv) + 1
        /\ Len(argv) \in Nat /\ argv[optind] \in Element
    BY <1>6, ScanIs
  <2> DEFINE element == argv[optind]
             Result1(long) ==
                 LongOptionResult(argv, element.chars, element.value, optind, long)
  <2>2. \A long : Result1(long).optind \in optind..Argc
    BY <2>1, LongOptionTakes
  <2> HIDE DEF Result1, Argc
  <2>3. \/ pc' = "done" /\ nextchar' = nextchar /\ optind' = optind
        \/ pc' = "call" /\ nextchar' = nextchar /\ optind' = optind + 1
        \/ \E long : pc' = "call" /\ nextchar' = nextchar /\ optind' = Result1(long).optind
        \/ /\ pc' = "short" /\ nextchar' = element.chars /\ optind' = optind
           /\ element.kind = "short"
    BY <1>6 DEF Word, Found, Return, Result1
  <2>4. CASE pc' = "call" /\ nextchar' = nextchar /\ optind' \in optind..Argc
    BY <1>1, <2>1, <2>4, ScanIs, StepReturn
  <2>5. CASE /\ pc' = "short" /\ nextchar' = element.chars /\ optind' = optind
             /\ element.kind = "short"
    <3>1. nextchar' \in Seq(Chars) /\ nextchar' # << >>
      BY <2>1, <2>5, ScanIs DEF Scannable, Element
    <3>2. TypeOK'
      BY <1>1, <2>5, <3>1 DEF ScanInv, TypeOK, Argc
    <3>3. Scanning'
      BY <1>1, <1>2, <2>1, <2>5, <3>1, ScanningThen
    <3> QED
      BY <1>3, <3>2, <3>3 DEF ScanInv
  <2>6. optind + 1 \in optind..Argc
    BY <2>1
  <2> QED
    BY <1>4, <2>2, <2>3, <2>4, <2>5, <2>6
<1> QED
  BY <1>5, <1>6

LEMMA StepShortOption == ASSUME ScanInv, ShortOption PROVE ScanInv'
<1>1. /\ pc = "short" /\ nextchar # << >> /\ pc' = "call"
      /\ UNCHANGED <<argv, first_nonopt, last_nonopt, ordering, long_only, bottom, middle, top,
                     orig, scans>>
  BY DEF ShortOption, Found, Return, mode, segment, history, ScanInv, Scanning
<1>2. optind <= Len(argv) /\ optind \in 1..Len(argv) /\ Argc = Len(argv) + 1
      /\ Len(argv) \in Nat
  BY <1>1, ScanIs DEF ScanInv, Scanning
<1> DEFINE rest == Tail(nextchar)
           next == IF rest = << >> THEN optind + 1 ELSE optind
<1>3. rest \in Seq(Chars) /\ << >> \in Seq(Chars)
  BY <1>1, ScanIs
<1>4. next \in optind..Argc /\ (rest # << >> => next = optind)
  BY <1>2
<1>5. \A name, value : next # Argc =>
         LongOptionResult(argv, name, value, next, FALSE).optind \in optind..Argc
  <2> HIDE DEF next, Argc
  <2>1. ASSUME NEW name, NEW value, next # Argc
        PROVE  LongOptionResult(argv, name, value, next, FALSE).optind \in optind..Argc
    <3>1. next \in 1..Len(argv)
      BY <1>2, <1>4, <2>1
    <3> DEFINE r == LongOptionResult(argv, name, value, next, FALSE).optind
    <3>2. r \in next..(Len(argv) + 1)
      BY <1>2, <3>1, LongOptionTakes
    <3> HIDE DEF r
    <3>3. r \in optind..Argc
      BY <1>2, <1>4, <3>1, <3>2
    <3> QED
      BY <3>3 DEF r
  <2> QED
    BY <2>1
<1>6. optind + 1 \in optind..Argc /\ optind # Argc
      /\ (next # Argc => next + 1 \in optind..Argc)
  BY <1>2, <1>4
<1> HIDE DEF next, rest, Argc
<1>7. /\ nextchar' \in {rest, << >>} /\ (nextchar' = rest /\ rest # << >> => optind' = next)
      /\ \/ optind' \in {next, optind + 1}
         \/ next # Argc /\ optind' = next + 1
         \/ \E name, value : optind' = LongOptionResult(argv, name, value, next, FALSE).optind
                             /\ next # Argc
  <2> DEFINE c == Head(nextchar)
             takes == IF c \in DOMAIN Short THEN Short[c] ELSE "unknown"
  <2>1. CASE takes \in {"unknown", "none"} /\ optind' = next /\ nextchar' = rest
    BY <2>1
  <2>2. CASE optind' = optind + 1 /\ nextchar' = << >>
    BY <2>2
  <2>3. CASE optind' \in {next} /\ nextchar' = << >>
    BY <2>3
  <2>4. CASE next # Argc /\ optind' = next + 1 /\ nextchar' = << >>
    BY <2>4
  <2>5. CASE /\ nextchar' = << >>
             /\ \E name, value :
                   /\ optind' = LongOptionResult(argv, name, value, next, FALSE).optind
                   /\ next # Argc
    BY <2>5
  <2>6. rest # << >> => next # Argc
    BY <1>4, <1>6
  <2> QED
    BY <2>1, <2>2, <2>3, <2>4, <2>5, <2>6 DEF ShortOption, Found, Return, rest, next
<1>8. nextchar' # << >> => optind' <= Len(argv)
  BY <1>2, <1>4, <1>7
<1>9. optind' \in optind..Argc
  BY <1>4, <1>5, <1>6, <1>7
<1>10. nextchar' \in Seq(Chars)
  BY <1>3, <1>7
<1> QED
  BY <1>1, <1>2, <1>8, <1>9, <1>10, StepReturn

\* What the scan has left is scanned as a command line of its own.
LEMMA StepScanAgain == ASSUME ScanInv, ScanAgain PROVE ScanInv'
<1>1. /\ pc' = "call" /\ nextchar' = << >> /\ scans < MaxScans /\ scans' = scans + 1
      /\ optind' = 1 /\ first_nonopt' = 1 /\ last_nonopt' = 1 /\ orig' = argv
      /\ UNCHANGED <<argv, ordering, long_only, bottom, middle, top>>
  BY DEF ScanAgain, mode, segment
<1>2. Scannable(argv)' /\ Scannable(orig)' /\ Len(orig') = Len(argv')
  BY <1>1 DEF ScanInv, Scannable
<1>3. TypeOK'
  <2>1. << >> \in Seq(Chars) /\ 1 \in 1..Argc
    BY ScanIs
  <2>2. scans + 1 \in 0..MaxScans
    BY <1>1, OptionAssumption DEF ScanInv, TypeOK
  <2> QED
    BY <1>1, <2>1, <2>2 DEF ScanInv, TypeOK, Argc
<1>4. Scanning'
  <2>1. Arranged(argv, 1, 1, 1)'
    BY <1>1, ScanIs DEF Arranged, Passed
  <2>2. Arranged(argv, first_nonopt, last_nonopt, optind)'
    BY <1>1, <2>1 DEF Arranged, Passed
  <2> QED
    BY <1>1, <2>2 DEF Scanning
<1> QED
  BY <1>2, <1>3, <1>4 DEF ScanInv

LEMMA InitScan == Init => ScanInv
<1> SUFFICES ASSUME Init PROVE ScanInv
  OBVIOUS
<1>1. /\ argv \in CommandLines /\ orig = argv /\ nextchar = << >> /\ pc = "call" /\ scans = 0
      /\ optind = 1 /\ first_nonopt = 1 /\ last_nonopt = 1
      /\ bottom = 1 /\ middle = 1 /\ top = 1
      /\ ordering \in Orderings /\ long_only \in BOOLEAN
  BY DEF Init
<1>2. /\ argv \in Seq(Element)
      /\ \A j \in DOMAIN argv :
            argv[j].id = j /\ (argv[j].kind = "short" => argv[j].chars # << >>)
  BY <1>1, OptionAssumption
<1>3. Scannable(argv) /\ Scannable(orig)
  BY <1>1, <1>2 DEF Scannable
<1>4. TypeOK
  <2>1. << >> \in Seq(Chars) /\ 1 \in 1..Argc /\ 0 \in 0..MaxScans
    BY <1>2, OptionAssumption DEF Argc
  <2> QED
    BY <1>1, <1>2, <2>1 DEF TypeOK
<1>5. Arranged(argv, first_nonopt, last_nonopt, optind)
  BY <1>1, <1>3, ArrangedAtFirst
<1>6. Scanning
  BY <1>1, <1>5 DEF Scanning
<1> QED
  BY <1>1, <1>3, <1>4, <1>6 DEF ScanInv

LEMMA ScanStepHolds == ASSUME ScanInv, [Next]_vars PROVE ScanInv'
<1>1. CASE UNCHANGED vars
  <2>1. /\ UNCHANGED <<argv, optind, first_nonopt, last_nonopt, nextchar, ordering, long_only,
                       pc, bottom, middle, top, orig, scans>>
    BY <1>1 DEF vars, mode, segment, history
  <2>2. TypeOK' /\ Scannable(argv)' /\ Scannable(orig)' /\ Len(orig') = Len(argv')
    BY <2>1 DEF ScanInv, TypeOK, Argc, Scannable
  <2>3. Scanning'
    <3>1. Scanning
      BY DEF ScanInv
    <3>2. \A e : Place(e)' = Place(e)
      BY <2>1 DEF Place
    <3>3. Rotated(argv, bottom, middle, top)' = Rotated(argv, bottom, middle, top)
      BY <2>1 DEF Rotated
    <3> QED
      BY <2>1, <3>1, ScanningThen DEF Scanning
  <2> QED
    BY <2>2, <2>3 DEF ScanInv
<1> QED
  BY <1>1, StepScanCall, StepAdvance, StepExchange, StepSkip, StepDashes, StepEnd, StepWord,
     StepShortOption, StepScanAgain DEF Next

LEMMA SliceIs ==
    ASSUME NEW s \in Seq(Element), NEW a \in Nat, NEW b \in Nat,
           1 <= a, a <= b, b <= Len(s) + 1
    PROVE  /\ SubSeq(s, a, b - 1) \in Seq(Element) /\ Len(SubSeq(s, a, b - 1)) = b - a
           /\ DOMAIN SubSeq(s, a, b - 1) = 1..(b - a)
           /\ \A j \in 1..(b - a) : SubSeq(s, a, b - 1)[j] = s[a + j - 1]
<1>1. Len(s) \in Nat /\ \A j \in 1..Len(s) : s[j] \in Element
  OBVIOUS
<1>2. SubSeq(s, a, b - 1) = [j \in 1..(b - a) |-> s[a + j - 1]]
  BY <1>1
<1>3. \A j \in 1..(b - a) : a + j - 1 \in 1..Len(s)
  BY <1>1
<1> QED
  BY <1>1, <1>2, <1>3

LEMMA Together ==
    ASSUME NEW S, NEW s \in Seq(S), NEW u \in Seq(S)
    PROVE  DOMAIN (s \o u) = 1..(Len(s) + Len(u))
  OBVIOUS

LEMMA OrdersHold == ScanInv => OrdersKept
<1> SUFFICES ASSUME ScanInv, pc = "call" PROVE OrdersKept
  BY DEF OrdersKept
<1> DEFINE f == first_nonopt
           l == last_nonopt
           o == optind
           passed == SubSeq(argv, f, l - 1)
           before == SubSeq(argv, 1, f - 1)
           after == SubSeq(argv, l, o - 1)
<1>1. Arranged(argv, f, l, o)
  BY DEF ScanInv, Scanning
<1>2. /\ argv \in Seq(Element) /\ orig \in Seq(Element) /\ Len(orig) = Len(argv)
      /\ Len(argv) \in Nat /\ f \in Nat /\ l \in Nat /\ o \in Nat
      /\ 1 <= f /\ f <= l /\ l <= o /\ o <= Len(argv) + 1
  BY <1>1, ScanIs DEF Arranged, Scannable
<1>3. InOrder(passed)
  <2>1. /\ DOMAIN passed = 1..(l - f)
        /\ \A j \in 1..(l - f) : passed[j] = argv[f + j - 1]
    BY <1>2, SliceIs
  <2>2. ASSUME NEW j \in 1..(l - f), NEW k \in 1..(l - f), j < k
        PROVE  Place(argv[f + j - 1]) < Place(argv[f + k - 1])
    <3>1. /\ f + j - 1 \in f..(l - 1) /\ f + k - 1 \in f..(l - 1)
          /\ f + j - 1 < f + k - 1
      BY <1>2, <2>2
    <3>2. \A p, q \in f..(l - 1) : p < q => Place(argv[p]) < Place(argv[q])
      BY <1>1 DEF Arranged
    <3> QED
      BY <3>1, <3>2
  <2> HIDE DEF passed
  <2> QED
    BY <2>1, <2>2 DEF InOrder
<1>4. InOrder(before \o after)
  <2>1. /\ before \in Seq(Element) /\ Len(before) = f - 1
        /\ \A j \in 1..(f - 1) : before[j] = argv[j]
    BY <1>2, SliceIs
  <2>2. /\ after \in Seq(Element) /\ Len(after) = o - l
        /\ \A j \in 1..(o - l) : after[j] = argv[l + j - 1]
    BY <1>2, SliceIs
  <2> HIDE DEF before, after
  <2> DEFINE n == (f - 1) + (o - l)
             From(j) == IF j < f THEN j ELSE j - f + l
  <2>3. DOMAIN (before \o after) = 1..n
    <3>1. DOMAIN (before \o after) = 1..(Len(before) + Len(after))
      BY <2>1, <2>2, Together
    <3> QED
      BY <2>1, <2>2, <3>1
  <2>4. ASSUME NEW j \in 1..n PROVE (before \o after)[j] = argv[From(j)]
    <3>1. CASE j < f
      <4>1. j \in 1..(f - 1)
        BY <1>2, <3>1
      <4> QED
        BY <1>2, <2>1, <2>2, <3>1, <4>1
    <3>2. CASE ~(j < f)
      <4>1. j - (f - 1) \in 1..(o - l) /\ l + (j - (f - 1)) - 1 = j - f + l
        BY <1>2, <3>2
      <4>2. (before \o after)[j] = after[j - (f - 1)]
        BY <1>2, <2>1, <2>2, <3>2
      <4> QED
        BY <2>2, <3>2, <4>1, <4>2
    <3> QED
      BY <3>1, <3>2
  <2>5. ASSUME NEW j \in 1..n, NEW k \in 1..n, j < k
        PROVE  Place(argv[From(j)]) < Place(argv[From(k)])
    <3>1. /\ From(j) \in 1..Len(orig) /\ From(k) \in 1..Len(orig) /\ From(j) < From(k)
          /\ Passed(From(j), f, l, o) /\ Passed(From(k), f, l, o)
      BY <1>2, <2>5 DEF Passed
    <3>2. \A p, q \in 1..Len(orig) :
             Passed(p, f, l, o) /\ Passed(q, f, l, o) /\ p < q => Place(argv[p]) < Place(argv[q])
      BY <1>1 DEF Arranged
    <3> HIDE DEF From
    <3> QED
      BY <3>1, <3>2
  <2> HIDE DEF From, n
  <2> QED
    BY <2>3, <2>4, <2>5 DEF InOrder
<1>5. \A k \in f..(l - 1) : argv[k].kind = "operand"
  BY <1>1 DEF Arranged
<1>6. SubSeq(argv, o, Len(argv)) = SubSeq(orig, o, Len(argv))
  <2>1. \A j \in o..Len(argv) : argv[j] = orig[j]
    BY <1>1, <1>2 DEF Arranged
  <2>2. /\ SubSeq(argv, o, Len(argv)) = [j \in 1..(Len(argv) - o + 1) |-> argv[o + j - 1]]
        /\ SubSeq(orig, o, Len(argv)) = [j \in 1..(Len(argv) - o + 1) |-> orig[o + j - 1]]
    BY <1>2
  <2>3. \A j \in 1..(Len(argv) - o + 1) : o + j - 1 \in o..Len(argv)
    BY <1>2
  <2> QED
    BY <2>1, <2>2, <2>3
<1> QED
  BY <1>2, <1>3, <1>4, <1>5, <1>6 DEF OrdersKept

\* The scan's own variables stay within their ranges, optind and the ends of the
\* operands within argv and of the exchange as well (getopt.c lines 117-170,
\* 485-540).
THEOREM ScanTypeCorrect == Spec => []TypeOK
<1>1. ScanInv /\ [Next]_vars => ScanInv'
  BY ScanStepHolds
<1>2. ScanInv => TypeOK
  BY DEF ScanInv
<1> QED
  BY InitScan, <1>1, <1>2, PTL DEF Spec

--------------------------------------------------------------------------------
(* What a scan comes to, index by index.                                   *)

LEMMA OutcomeLooksAhead ==
    ASSUME NEW av, Scannable(av), NEW j \in 1..(Len(av) + 2), NEW f, NEW g,
           \A k \in (j + 1)..(Len(av) + 2) : f[k] = g[k]
    PROVE  Outcome(av, j, f) = Outcome(av, j, g)
<1>1. Len(av) \in Nat
  BY DEF Scannable
<1>2. CASE j > Len(av)
  BY <1>2 DEF Outcome
<1>3. CASE ~(j > Len(av))
  <2>1. j \in 1..Len(av) /\ j + 1 \in (j + 1)..(Len(av) + 2)
    BY <1>1, <1>3
  <2>2. PICK uses : uses = Option(av, j).uses
    OBVIOUS
  <2>3. uses \in 0..(Len(av) - j)
    BY <2>1, <2>2, OptionIs
  <2>4. j + 1 + uses \in (j + 1)..(Len(av) + 2)
    BY <1>1, <2>1, <2>3
  <2>5. f[j + 1] = g[j + 1] /\ f[j + 1 + Option(av, j).uses] = g[j + 1 + Option(av, j).uses]
    BY <2>1, <2>2, <2>4
  <2>6. Before(av, j, Option(av, j), f) = Before(av, j, Option(av, j), g)
    BY <2>5 DEF Before
  <2> QED
    BY <2>5, <2>6 DEF Outcome
<1> QED
  BY <1>2, <1>3

\* Induction up to n, for the numbers of a set.
LEMMA UpTo ==
    ASSUME NEW n \in Nat, NEW P \in SUBSET Nat, 0 \in P,
           \A k \in 0..n : (k \in P /\ k < n) => k + 1 \in P
    PROVE  0..n \subseteq P
<1> DEFINE Bad == {m \in 0..n : m \notin P}
<1>1. ASSUME Bad # {} PROVE FALSE
  <2>1. Bad \in SUBSET Nat
    OBVIOUS
  <2>2. PICK m \in Bad : \A l \in Bad : m <= l
    <3> HIDE DEF Bad
    <3> QED
      BY <1>1, <2>1, LeastOf
  <2>3. m \in 0..n /\ m \notin P /\ m # 0
    OBVIOUS
  <2>4. m - 1 \in 0..n /\ m - 1 < n /\ ~(m <= m - 1)
    BY <2>3
  <2>5. m - 1 \notin Bad
    <3> HIDE DEF Bad
    <3> QED
      BY <2>2, <2>4
  <2>6. m - 1 \in P
    BY <2>4, <2>5
  <2>7. (m - 1) + 1 \in P
    BY <2>4, <2>6
  <2> QED
    BY <2>3, <2>7
<1> QED
  BY <1>1

LEMMA OutcomesExist ==
    ASSUME NEW av, Scannable(av)
    PROVE  \E f : f = [j \in 1..(Len(av) + 2) |-> Outcome(av, j, f)]
<1> DEFINE n == Len(av) + 2
           Good(f, m) == /\ f = [k \in 1..n |-> f[k]]
                         /\ \A j \in 1..n : j > n - m => f[j] = Outcome(av, j, f)
           P == {m \in 0..n : \E f : Good(f, m)}
<1>1. n \in Nat
  BY DEF Scannable
<1>2. 0 \in P
  <2> DEFINE f == [k \in 1..n |-> 0]
  <2>1. f = [k \in 1..n |-> f[k]]
    OBVIOUS
  <2>2. \A j \in 1..n : ~(j > n - 0)
    BY <1>1
  <2> HIDE DEF n, f
  <2>3. Good(f, 0)
    BY <2>1, <2>2
  <2> QED
    BY <1>1, <2>3
<1>3. ASSUME NEW m \in 0..n, m \in P, m < n PROVE m + 1 \in P
  <2>1. PICK f : Good(f, m)
    BY <1>3
  <2>2. n - m \in 1..n /\ m + 1 \in 0..n /\ n - (m + 1) = (n - m) - 1
    BY <1>1, <1>3
  <2>3. PICK h : h = n - m
    OBVIOUS
  <2> DEFINE g == [k \in 1..n |-> IF k = h THEN Outcome(av, h, f) ELSE f[k]]
  <2>4. g = [k \in 1..n |-> g[k]]
    OBVIOUS
  <2>5. \A k \in (h + 1)..n : g[k] = f[k]
    BY <1>1, <2>2, <2>3
  <2>6. ASSUME NEW j \in 1..n, j > h - 1 PROVE g[j] = Outcome(av, j, g)
    <3>1. \A k \in (j + 1)..n : f[k] = g[k]
      <4>1. ASSUME NEW k \in (j + 1)..n PROVE k \in (h + 1)..n
        BY <1>1, <2>2, <2>3, <2>6
      <4> HIDE DEF g, n
      <4> QED
        BY <2>5, <4>1
    <3> HIDE DEF g
    <3>2. Outcome(av, j, f) = Outcome(av, j, g)
      BY <3>1, OutcomeLooksAhead
    <3> USE DEF g
    <3>3. CASE j = h
      <4>1. g[j] = Outcome(av, h, f)
        BY <3>3
      <4> HIDE DEF g
      <4> QED
        BY <3>2, <3>3, <4>1
    <3>4. CASE j # h
      <4>1. g[j] = f[j]
        BY <3>4
      <4>2. j > n - m
        BY <1>1, <2>2, <2>3, <2>6, <3>4
      <4>3. f[j] = Outcome(av, j, f)
        BY <2>1, <4>2
      <4> HIDE DEF g
      <4> QED
        BY <3>2, <4>1, <4>3
    <3> QED
      BY <3>3, <3>4
  <2> HIDE DEF g
  <2>7. Good(g, m + 1)
    BY <2>2, <2>3, <2>4, <2>6
  <2> QED
    BY <2>2, <2>7
<1>4. 0..n \subseteq P
  <2>1. P \in SUBSET Nat
    OBVIOUS
  <2> HIDE DEF P, n
  <2> QED
    BY <1>1, <1>2, <1>3, <2>1, UpTo
<1>5. PICK f : Good(f, n)
  BY <1>1, <1>4
<1>6. \A j \in 1..n : j > n - n
  BY <1>1
<1>7. f = [j \in 1..n |-> Outcome(av, j, f)]
  <2>1. \A j \in 1..n : f[j] = Outcome(av, j, f)
    BY <1>5, <1>6
  <2> HIDE DEF n
  <2> QED
    BY <1>5, <2>1
<1> QED
  BY <1>7

LEMMA OutcomesAre ==
    ASSUME NEW av, Scannable(av), NEW j \in 1..(Len(av) + 2)
    PROVE  Outcomes(av)[j] = Outcome(av, j, Outcomes(av))
<1>1. PICK g : g = CHOOSE scan : scan = [k \in 1..(Len(av) + 2) |-> Outcome(av, k, scan)]
  OBVIOUS
<1>2. g = [k \in 1..(Len(av) + 2) |-> Outcome(av, k, g)]
  BY <1>1, OutcomesExist
<1>3. Outcomes(av) = g
  BY <1>1 DEF Outcomes
<1>4. g[j] = Outcome(av, j, g)
  BY <1>2
<1> QED
  BY <1>3, <1>4

Whole(r) ==
    \E a, b, c : /\ IsSeq(a) /\ IsSeq(b) /\ IsSeq(c)
                 /\ r = [returns |-> a, front |-> b, back |-> c]

LEMMA WholeIs ==
    ASSUME NEW r, Whole(r)
    PROVE  IsSeq(r.returns) /\ IsSeq(r.front) /\ IsSeq(r.back)
  BY DEF Whole

LEMMA OutcomeIsWhole ==
    ASSUME NEW av, Scannable(av), NEW j \in 1..(Len(av) + 2), NEW scan,
           \A k \in (j + 1)..(Len(av) + 2) : Whole(scan[k])
    PROVE  Whole(Outcome(av, j, scan))
<1>1. Len(av) \in Nat /\ av \in Seq(Element) /\ IsSeq(av)
  BY DEF Scannable, IsSeq
<1>2. << >> \in Seq({1}) /\ IsSeq(<< >>)
  <2>1. << >> \in Seq({1})
    OBVIOUS
  <2> QED
    BY <2>1 DEF IsSeq
<1>3. CASE j > Len(av)
  BY <1>2, <1>3 DEF Outcome, Whole
<1>4. CASE ~(j > Len(av))
  <2>1. j \in 1..Len(av) /\ j + 1 \in (j + 1)..(Len(av) + 2) /\ j \in Nat
    BY <1>1, <1>4
  <2>2. IsSeq(<<av[j]>>) /\ IsSeq(SubSeq(av, j, Len(av)))
        /\ IsSeq(SubSeq(av, j + 1, Len(av)))
    <3>1. Len(av) + 1 \in Nat /\ (Len(av) + 1) - 1 = Len(av) /\ j + 1 \in Nat
          /\ 1 <= j /\ 1 <= j + 1 /\ j <= Len(av) + 1 /\ j + 1 <= Len(av) + 1
      BY <1>1, <2>1
    <3>2. \A a \in Nat : 1 <= a /\ a <= Len(av) + 1 =>
             IsSeq(SubSeq(av, a, (Len(av) + 1) - 1))
      BY <1>1, <3>1, SlicesAreSeqs DEF Slice
    <3> QED
      BY <1>2, <3>1, <3>2, Appended
  <2>3. CASE av[j].kind = "dashes"
    BY <1>2, <1>4, <2>2, <2>3 DEF Outcome, Whole
  <2>4. CASE av[j].kind = "operand" /\ ordering = "REQUIRE_ORDER"
    BY <1>2, <1>4, <2>2, <2>4 DEF Outcome, Whole
  <2>5. CASE av[j].kind = "operand" /\ ordering = "PERMUTE"
    <3>1. PICK t : t = scan[j + 1]
      OBVIOUS
    <3>2. IsSeq(t.returns) /\ IsSeq(t.front) /\ IsSeq(t.back)
      BY <2>1, <3>1, WholeIs
    <3>3. Outcome(av, j, scan) = [returns |-> t.returns, front |-> t.front,
                                  back |-> <<av[j]>> \o t.back]
      BY <1>4, <2>5, <3>1 DEF Outcome
    <3>4. IsSeq(<<av[j]>> \o t.back)
      BY <2>2, <3>2, SeqsJoined
    <3> QED
      BY <3>2, <3>3, <3>4 DEF Whole
  <2>6. CASE ~(av[j].kind = "dashes")
             /\ ~(av[j].kind = "operand" /\ ordering \in {"REQUIRE_ORDER", "PERMUTE"})
    <3>1. PICK o : o = Option(av, j)
      OBVIOUS
    <3>2. o.uses \in 0..(Len(av) - j) /\ IsSeq(o.returns)
      BY <2>1, <3>1, OptionIs
    <3>3. Outcome(av, j, scan) = Before(av, j, o, scan)
      BY <1>4, <2>6, <3>1 DEF Outcome
    <3>4. j + 1 + o.uses \in (j + 1)..(Len(av) + 2)
      BY <1>1, <2>1, <3>2
    <3>5. PICK t : t = scan[j + 1 + o.uses]
      OBVIOUS
    <3>6. IsSeq(t.returns) /\ IsSeq(t.front) /\ IsSeq(t.back)
      BY <3>4, <3>5, WholeIs
    <3>7. IsSeq(SubSeq(av, j, j + o.uses))
      <4>1. PICK u \in Nat : u = o.uses
        BY <3>2
      <4>2. /\ j + u + 1 \in Nat /\ (j + u + 1) - 1 = j + u /\ 1 <= j /\ j <= j + u + 1
            /\ j + u + 1 <= Len(av) + 1
        BY <1>1, <2>1, <3>2, <4>1
      <4>3. IsSeq(Slice(av, j, j + u + 1))
        BY <1>1, <2>1, <4>2, SlicesAreSeqs
      <4> QED
        BY <4>1, <4>2, <4>3 DEF Slice
    <3>8. Before(av, j, o, scan) = [returns |-> o.returns \o t.returns,
                                    front |-> SubSeq(av, j, j + o.uses) \o t.front,
                                    back |-> t.back]
      BY <3>5 DEF Before
    <3>9. IsSeq(o.returns \o t.returns) /\ IsSeq(SubSeq(av, j, j + o.uses) \o t.front)
      BY <3>2, <3>6, <3>7, SeqsJoined
    <3> QED
      BY <3>3, <3>6, <3>8, <3>9 DEF Whole
  <2> QED
    BY <2>3, <2>4, <2>5, <2>6
<1> QED
  BY <1>3, <1>4

LEMMA OutcomesAreWhole ==
    ASSUME NEW av, Scannable(av), NEW j \in 1..(Len(av) + 2)
    PROVE  Whole(Outcomes(av)[j])
<1> DEFINE n == Len(av) + 2
           O == Outcomes(av)
           P == {m \in 0..n : \A k \in 1..n : k > n - m => Whole(O[k])}
<1>1. n \in Nat
  BY DEF Scannable
<1>2. \A k \in 1..n : O[k] = Outcome(av, k, O)
  BY OutcomesAre
<1>3. 0 \in P
  <2>1. \A k \in 1..n : ~(k > n - 0)
    BY <1>1
  <2> HIDE DEF n, O
  <2> QED
    BY <1>1, <2>1
<1>4. ASSUME NEW m \in 0..n, m \in P, m < n PROVE m + 1 \in P
  <2>1. m + 1 \in 0..n
    BY <1>1, <1>4
  <2>2. ASSUME NEW k \in 1..n, k > n - (m + 1) PROVE Whole(O[k])
    <3>1. CASE k > n - m
      BY <1>4, <3>1
    <3>2. CASE ~(k > n - m)
      <4>1. ASSUME NEW h \in (k + 1)..n PROVE h \in 1..n /\ h > n - m
        BY <1>1, <1>4, <2>2
      <4> HIDE DEF O
      <4>2. \A h \in (k + 1)..n : Whole(O[h])
        BY <1>4, <4>1
      <4> QED
        BY <1>2, <4>2, OutcomeIsWhole
    <3> QED
      BY <3>1, <3>2
  <2> QED
    BY <2>1, <2>2
<1>5. 0..n \subseteq P
  <2>1. P \in SUBSET Nat
    OBVIOUS
  <2> HIDE DEF P, n
  <2> QED
    BY <1>1, <1>3, <1>4, <2>1, UpTo
<1>6. n \in 0..n /\ j \in 1..n /\ j > n - n
  <2>1. j \in 1..n
    OBVIOUS
  <2> HIDE DEF n
  <2> QED
    BY <1>1, <2>1
<1>7. n \in P
  <2> HIDE DEF n, P
  <2> QED
    BY <1>5, <1>6
<1> HIDE DEF n
<1> QED
  BY <1>6, <1>7

--------------------------------------------------------------------------------
(* What a scan returns: what is true throughout.                           *)

\* What was scanned, without the operands from f to l.
Ahead(av, f, l, o) == Slice(av, 1, f) \o Slice(av, l, o)

\* What was returned and what was passed over is the beginning of what the scan
\* comes to.
Right(av, f, l, o, given) ==
    LET whole == Reference(orig)
        rest == Outcomes(orig)[o]
    IN  /\ whole.returns = given \o rest.returns
        /\ whole.front = Ahead(av, f, l, o) \o rest.front
        /\ whole.back = Slice(av, f, l) \o rest.back

\* The scan has come to its end; the operands begin at f.
Over(av, f, given) ==
    /\ Reference(orig).returns = given
    /\ Reference(orig).front = Slice(av, 1, f)
    /\ Reference(orig).back = Slice(av, f, Len(orig) + 1)

LEMMA AheadIs ==
    ASSUME NEW av, IsSeq(av), NEW f \in Nat, NEW l \in Nat, NEW o \in Nat,
           1 <= f, f <= l, l <= o, o <= Len(av) + 1
    PROVE  /\ IsSeq(Ahead(av, f, l, o)) /\ IsSeq(Slice(av, f, l))
           /\ Len(Ahead(av, f, l, o)) = (f - 1) + (o - l)
           /\ Ahead(av, f, f, o) = Slice(av, 1, o)
           /\ Ahead(av, f, o, o) = Slice(av, 1, f)
<1>1. /\ 1 \in Nat /\ 1 <= l /\ l <= Len(av) + 1 /\ f <= o /\ f <= Len(av) + 1 /\ 1 <= o
      /\ Len(av) \in Nat
  BY SeqsJoined
<1>2. /\ IsSeq(Slice(av, 1, f)) /\ IsSeq(Slice(av, l, o))
      /\ IsSeq(Slice(av, f, l))
      /\ Len(Slice(av, 1, f)) = f - 1 /\ Len(Slice(av, l, o)) = o - l
  <2>1. IsSeq(Slice(av, 1, f))
    BY <1>1, SlicesAreSeqs
  <2>2. IsSeq(Slice(av, l, o))
    BY <1>1, SlicesAreSeqs
  <2>3. IsSeq(Slice(av, f, l))
    BY <1>1, SlicesAreSeqs
  <2>4. Len(Slice(av, 1, f)) = f - 1
    BY <1>1, SlicesAreSeqs
  <2>5. Len(Slice(av, l, o)) = o - l
    BY <1>1, SlicesAreSeqs
  <2> QED
    BY <2>1, <2>2, <2>3, <2>4, <2>5
<1>3. /\ IsSeq(Ahead(av, f, l, o))
      /\ Len(Ahead(av, f, l, o)) = Len(Slice(av, 1, f)) + Len(Slice(av, l, o))
  BY <1>2, SeqsJoined DEF Ahead
<1>4. Slice(av, 1, f) \o Slice(av, f, o) = Slice(av, 1, o)
  BY <1>1, SlicesJoined
<1>5. Slice(av, 1, f) \o Slice(av, o, o) = Slice(av, 1, f)
  BY <1>2, NoSlice, JoinedEmpty
<1> QED
  BY <1>2, <1>3, <1>4, <1>5 DEF Ahead

\* Places in av, one behind the other.
Within(av, f, l, o, p) ==
    /\ IsSeq(av) /\ f \in Nat /\ l \in Nat /\ o \in Nat /\ p \in Nat
    /\ 1 <= f /\ f <= l /\ l <= o /\ o <= p /\ p <= Len(av) + 1

LEMMA AheadFurther ==
    ASSUME NEW av, NEW f, NEW l, NEW o, NEW p, Within(av, f, l, o, p)
    PROVE  Ahead(av, f, l, p) = Ahead(av, f, l, o) \o Slice(av, o, p)
<1> USE DEF Within
<1>1. /\ 1 \in Nat /\ 1 <= l /\ o <= Len(av) + 1 /\ f <= Len(av) + 1 /\ 1 <= o
      /\ Len(av) \in Nat
  BY SeqsJoined
<1>2. IsSeq(Slice(av, 1, f)) /\ IsSeq(Slice(av, l, o)) /\ IsSeq(Slice(av, o, p))
  <2>1. IsSeq(Slice(av, 1, f))
    BY <1>1, SlicesAreSeqs
  <2>2. IsSeq(Slice(av, l, o))
    BY <1>1, SlicesAreSeqs
  <2>3. IsSeq(Slice(av, o, p))
    BY <1>1, SlicesAreSeqs
  <2> QED
    BY <2>1, <2>2, <2>3
<1>3. Slice(av, l, o) \o Slice(av, o, p) = Slice(av, l, p)
  BY <1>1, SlicesJoined
<1>4. (Slice(av, 1, f) \o Slice(av, l, o)) \o Slice(av, o, p)
         = Slice(av, 1, f) \o (Slice(av, l, o) \o Slice(av, o, p))
  <2> DEFINE x == Slice(av, 1, f)
             y == Slice(av, l, o)
             z == Slice(av, o, p)
  <2> HIDE DEF x, y, z
  <2>1. IsSeq(x) /\ IsSeq(y) /\ IsSeq(z)
    BY <1>2 DEF x, y, z
  <2>2. (x \o y) \o z = x \o (y \o z)
    BY <2>1, JoinedTwice
  <2> QED
    BY <2>2 DEF x, y, z
<1> QED
  BY <1>3, <1>4 DEF Ahead

\* The exchange puts the operands behind the options that followed them.
LEMMA RotatedSlices ==
    ASSUME NEW av, IsSeq(av), Len(av) = Len(orig),
           NEW f \in Nat, NEW l \in Nat, NEW o \in Nat,
           1 <= f, f <= l, l <= o, o <= Len(orig) + 1,
           NEW first, first = f + (o - l)
    PROVE  /\ IsSeq(Rotated(av, f, l, o)) /\ Len(Rotated(av, f, l, o)) = Len(orig)
           /\ Slice(Rotated(av, f, l, o), 1, first) = Ahead(av, f, l, o)
           /\ Slice(Rotated(av, f, l, o), first, o) = Slice(av, f, l)
           /\ \A p \in Nat : o <= p /\ p <= Len(orig) + 1 =>
                 Slice(Rotated(av, f, l, o), o, p) = Slice(av, o, p)
<1> DEFINE n == Len(orig)
           r == Rotated(av, f, l, o)
           x == Slice(av, 1, f)
           y == Slice(av, l, o)
           z == Slice(av, f, l)
<1>1. n \in Nat /\ first \in Nat /\ 1 <= first /\ first <= o /\ f <= first
  BY SeqsJoined
<1>2. \A j \in 1..n : r[j] = IF j \in f..(f + (o - l) - 1) THEN av[j + (l - f)]
                             ELSE IF j \in (f + (o - l))..(o - 1) THEN av[j - (o - l)]
                             ELSE av[j]
  BY DEF Rotated
<1>3. IsSeq(r) /\ Len(r) = n
  <2> DEFINE e(j) == IF j \in f..(f + (o - l) - 1) THEN av[j + (l - f)]
                     ELSE IF j \in (f + (o - l))..(o - 1) THEN av[j - (o - l)]
                     ELSE av[j]
             S == {e(j) : j \in 1..n}
             s == [j \in 1..n |-> e(j)]
  <2>1. r = s
    BY DEF Rotated
  <2>2. \A j \in 1..n : e(j) \in S
    OBVIOUS
  <2> HIDE DEF e, S, r, n
  <2>3. s \in Seq(S) /\ Len(s) = n
    BY <1>1, <2>2
  <2> QED
    BY <2>1, <2>3 DEF IsSeq
<1>4. /\ IsSeq(x) /\ Len(x) = f - 1 /\ \A j \in 1..(f - 1) : x[j] = av[1 + j - 1]
      /\ IsSeq(y) /\ Len(y) = o - l /\ \A j \in 1..(o - l) : y[j] = av[l + j - 1]
      /\ IsSeq(z) /\ Len(z) = l - f /\ \A j \in 1..(l - f) : z[j] = av[f + j - 1]
  <2>1. 1 \in Nat /\ 1 <= l /\ l <= Len(av) + 1 /\ f <= Len(av) + 1 /\ o <= Len(av) + 1
    BY <1>1
  <2> HIDE DEF n
  <2>2. IsSeq(x) /\ Len(x) = f - 1 /\ \A j \in 1..(f - 1) : x[j] = av[1 + j - 1]
    <3>1. IsSeq(x) /\ Len(x) = f - 1 /\ \A j \in 1..(f - 1) : x[j] = av[j]
      BY <2>1, SlicedFromFirst
    <3>2. \A j \in 1..(f - 1) : 1 + j - 1 = j
      OBVIOUS
    <3> QED
      BY <3>1, <3>2
  <2>3. IsSeq(y) /\ Len(y) = o - l /\ \A j \in 1..(o - l) : y[j] = av[l + j - 1]
    BY <2>1, Sliced
  <2>4. IsSeq(z) /\ Len(z) = l - f /\ \A j \in 1..(l - f) : z[j] = av[f + j - 1]
    BY <2>1, Sliced
  <2> QED
    BY <2>2, <2>3, <2>4
<1>5. /\ IsSeq(x \o y) /\ Len(x \o y) = (f - 1) + (o - l)
      /\ \A j \in 1..((f - 1) + (o - l)) :
            (x \o y)[j] = IF j <= f - 1 THEN x[j] ELSE y[j - (f - 1)]
  <2> HIDE DEF x, y
  <2>1. /\ IsSeq(x \o y) /\ Len(x \o y) = Len(x) + Len(y)
        /\ \A j \in 1..(Len(x) + Len(y)) :
              (x \o y)[j] = IF j <= Len(x) THEN x[j] ELSE y[j - Len(x)]
    BY <1>4, SeqsJoined
  <2> QED
    BY <1>4, <2>1
<1> HIDE DEF n, r, x, y, z
<1>6. /\ 1 \in Nat /\ 1 <= first /\ first <= Len(r) + 1 /\ o <= Len(r) + 1 /\ 1 <= o
  BY <1>1, <1>3 DEF n
<1>7. Slice(r, 1, first) = x \o y
  <2> DEFINE u == Slice(r, 1, first)
  <2>1. IsSeq(u) /\ Len(u) = first - 1 /\ \A j \in 1..(first - 1) : u[j] = r[j]
    <3>1. first \in Nat /\ 1 <= first /\ first <= Len(r) + 1 /\ IsSeq(r)
      BY <1>1, <1>3, <1>6
    <3> QED
      BY <3>1, SlicedFromFirst
  <2> HIDE DEF u
  <2>2. ASSUME NEW j \in 1..(first - 1) PROVE u[j] = (x \o y)[j]
    <3>1. j \in 1..n /\ 1 + j - 1 = j /\ j \in 1..((f - 1) + (o - l))
      BY <1>1, <1>6 DEF n
    <3>2. u[j] = r[j]
      BY <2>1, <3>1
    <3>3. CASE j <= f - 1
      <4>1. j \in 1..(f - 1) /\ ~(j \in f..(f + (o - l) - 1)) /\ ~(j \in (f + (o - l))..(o - 1))
        BY <1>1, <3>1, <3>3
      <4>2. r[j] = av[j]
        BY <1>2, <3>1, <4>1
      <4> QED
        BY <1>4, <1>5, <3>1, <3>2, <3>3, <4>1, <4>2
    <3>4. CASE ~(j <= f - 1)
      <4>1. j - (f - 1) \in 1..(o - l) /\ j \in f..(f + (o - l) - 1)
            /\ l + (j - (f - 1)) - 1 = j + (l - f)
        BY <1>1, <3>1, <3>4
      <4>2. r[j] = av[j + (l - f)]
        BY <1>2, <3>1, <4>1
      <4>3. (x \o y)[j] = y[j - (f - 1)] /\ y[j - (f - 1)] = av[l + (j - (f - 1)) - 1]
        BY <1>4, <1>5, <3>1, <3>4, <4>1
      <4> QED
        BY <3>2, <4>1, <4>2, <4>3
    <3> QED
      BY <3>3, <3>4
  <2>3. Len(x \o y) = first - 1
    BY <1>5
  <2>4. u = x \o y
    BY <1>5, <2>1, <2>2, <2>3, EqualSeqs
  <2> QED
    BY <2>4 DEF u
<1>8. Slice(r, first, o) = z
  <2> DEFINE u == Slice(r, first, o)
  <2>1. IsSeq(u) /\ Len(u) = o - first /\ \A j \in 1..(o - first) : u[j] = r[first + j - 1]
    <3>1. PICK a \in Nat : a = first
      BY <1>1
    <3>2. 1 <= a /\ a <= o /\ o <= Len(r) + 1 /\ IsSeq(r)
      BY <1>1, <1>3, <1>6, <3>1
    <3>3. /\ IsSeq(Slice(r, a, o)) /\ Len(Slice(r, a, o)) = o - a
          /\ \A j \in 1..(o - a) : Slice(r, a, o)[j] = r[a + j - 1]
      BY ONLY <3>1, <3>2, Sliced, o \in Nat
    <3> QED
      BY <3>1, <3>3
  <2> HIDE DEF u
  <2>2. o - first = l - f
    OBVIOUS
  <2>3. ASSUME NEW j \in 1..(l - f) PROVE u[j] = z[j]
    <3>1. PICK k : k = first + j - 1
      OBVIOUS
    <3>2. /\ k \in 1..n /\ ~(k \in f..(f + (o - l) - 1)) /\ k \in (f + (o - l))..(o - 1)
          /\ k - (o - l) = f + j - 1
      BY <1>1, <1>6, <3>1 DEF n
    <3>3. r[k] = av[k - (o - l)]
      BY <1>2, <3>2
    <3> QED
      BY <1>4, <2>1, <2>2, <3>1, <3>2, <3>3
  <2>4. u = z
    BY <1>4, <2>1, <2>2, <2>3, EqualSeqs
  <2> QED
    BY <2>4 DEF u
<1>9. ASSUME NEW p \in Nat, o <= p, p <= Len(orig) + 1
      PROVE  Slice(r, o, p) = Slice(av, o, p)
  <2>1. ASSUME NEW j \in o..(p - 1) PROVE r[j] = av[j]
    <3>1. j \in 1..n /\ ~(j \in f..(f + (o - l) - 1)) /\ ~(j \in (f + (o - l))..(o - 1))
      BY <1>1, <1>6, <1>9, <2>1 DEF n
    <3> QED
      BY <1>2, <3>1
  <2>2. p <= Len(r) + 1 /\ p <= Len(av) + 1
    BY <1>3, <1>9 DEF n
  <2> QED
    BY <1>3, <1>6, <1>9, <2>1, <2>2, EqualSlices
<1> QED
  BY <1>3, <1>7, <1>8, <1>9 DEF n, r, x, y, z, Ahead

\* No operand was left behind: the next may begin anywhere.
LEMMA RightWithout ==
    ASSUME NEW av, IsSeq(av), NEW f \in Nat, NEW o \in Nat,
           1 <= f, f <= o, o <= Len(av) + 1, NEW given, Right(av, f, f, o, given)
    PROVE  Right(av, o, o, o, given)
<1>1. Ahead(av, f, f, o) = Slice(av, 1, o)
  BY AheadIs
<1>2. Ahead(av, o, o, o) = Slice(av, 1, o)
  <2>1. 1 <= o
    OBVIOUS
  <2> QED
    BY <2>1, AheadIs
<1>3. Slice(av, f, f) = << >> /\ Slice(av, o, o) = << >>
  BY NoSlice
<1> QED
  BY <1>1, <1>2, <1>3 DEF Right

\* The scan goes on over an option.
LEMMA RightFurther ==
    ASSUME Scannable(orig), NEW av, IsSeq(av), Len(av) = Len(orig),
           NEW f \in Nat, NEW l \in Nat, NEW o \in Nat, 1 <= f, f <= l, l <= o, o <= Len(orig),
           \A j \in o..Len(orig) : av[j] = orig[j],
           NEW given, IsSeq(given), Right(av, f, l, o, given),
           orig[o].kind # "dashes",
           orig[o].kind = "operand" => ordering \notin {"REQUIRE_ORDER", "PERMUTE"},
           NEW p \in Nat, p = o + 1 + Option(orig, o).uses,
           NEW more, more = given \o Option(orig, o).returns
    PROVE  Right(av, f, l, p, more)
<1>1. Len(orig) \in Nat /\ IsSeq(orig) /\ o \in 1..Len(orig) /\ o \in 1..(Len(orig) + 2)
  BY DEF Scannable, IsSeq
<1>2. PICK option : option = Option(orig, o)
  OBVIOUS
<1>3. option.uses \in 0..(Len(orig) - o) /\ IsSeq(option.returns)
  BY <1>1, <1>2, OptionIs
<1>4. PICK u \in Nat : u = option.uses
  BY <1>3
<1>5. /\ p = o + 1 + u /\ o <= p /\ p <= Len(orig) + 1 /\ p \in 1..(Len(orig) + 2)
      /\ p - 1 = o + u
  BY <1>1, <1>2, <1>3, <1>4, SMTT(30)
<1>6. PICK then : then = Outcomes(orig)[p]
  OBVIOUS
<1>7. IsSeq(then.returns) /\ IsSeq(then.front) /\ IsSeq(then.back)
  BY <1>5, <1>6, OutcomesAreWhole, WholeIs
<1>8. /\ Outcomes(orig)[o].returns = option.returns \o then.returns
      /\ Outcomes(orig)[o].front = Slice(orig, o, p) \o then.front
      /\ Outcomes(orig)[o].back = then.back
  <2>1. Outcomes(orig)[o] = Before(orig, o, option, Outcomes(orig))
    <3>1. Outcomes(orig)[o] = Outcome(orig, o, Outcomes(orig))
      BY <1>1, OutcomesAre
    <3>2. ~(o > Len(orig))
      BY <1>1
    <3> QED
      BY <1>2, <3>1, <3>2 DEF Outcome
  <2>2. Outcomes(orig)[o + 1 + option.uses] = then
    BY <1>4, <1>5, <1>6
  <2>3. SubSeq(orig, o, o + option.uses) = Slice(orig, o, p)
    BY <1>4, <1>5 DEF Slice
  <2>4. PICK O : O = Outcomes(orig)
    OBVIOUS
  <2>5. /\ Before(orig, o, option, O).returns
              = option.returns \o O[o + 1 + option.uses].returns
        /\ Before(orig, o, option, O).front
              = SubSeq(orig, o, o + option.uses) \o O[o + 1 + option.uses].front
        /\ Before(orig, o, option, O).back = O[o + 1 + option.uses].back
    BY DEF Before
  <2> QED
    BY <2>1, <2>2, <2>3, <2>4, <2>5
<1>9. PICK whole, rest : whole = Reference(orig) /\ rest = Outcomes(orig)[o]
  OBVIOUS
<1>10. PICK given1, after1, after2, after3 :
          /\ given1 = option.returns /\ after1 = then.returns
          /\ after2 = then.front /\ after3 = then.back
  OBVIOUS
<1>11. /\ whole.returns = given \o (given1 \o after1)
       /\ whole.front = Ahead(av, f, l, o) \o (Slice(orig, o, p) \o after2)
       /\ whole.back = Slice(av, f, l) \o after3
  <2>1. /\ rest.returns = given1 \o after1 /\ rest.front = Slice(orig, o, p) \o after2
        /\ rest.back = after3
    BY <1>8, <1>9, <1>10
  <2>2. /\ whole.returns = given \o rest.returns
        /\ whole.front = Ahead(av, f, l, o) \o rest.front
        /\ whole.back = Slice(av, f, l) \o rest.back
    BY <1>9 DEF Right
  <2> QED
    BY <2>1, <2>2
<1>12. IsSeq(given) /\ IsSeq(given1) /\ IsSeq(after1) /\ IsSeq(after2)
  BY <1>3, <1>7, <1>10
<1>13. given \o (given1 \o after1) = more \o after1
  <2>1. (given \o given1) \o after1 = given \o (given1 \o after1)
    BY ONLY <1>12, JoinedTwice
  <2>2. more = given \o given1
    BY <1>2, <1>10
  <2> QED
    BY <2>1, <2>2
<1>14. Ahead(av, f, l, o) \o (Slice(orig, o, p) \o after2) = Ahead(av, f, l, p) \o after2
  <2>1. Slice(orig, o, p) = Slice(av, o, p)
    <3>1. \A j \in o..(p - 1) : j \in o..Len(orig)
      BY <1>1, <1>5
    <3>2. \A j \in o..(p - 1) : orig[j] = av[j]
      BY <3>1
    <3>3. 1 <= o /\ o <= p /\ p <= Len(orig) + 1 /\ p <= Len(av) + 1
      BY <1>1, <1>5
    <3> QED
      BY <1>1, <3>2, <3>3, EqualSlices, SMTT(30)
  <2>2. o <= p /\ p <= Len(av) + 1 /\ o <= Len(av) + 1 /\ 1 <= o
    BY <1>1, <1>5
  <2>3. PICK a, b, c : /\ a = Ahead(av, f, l, o) /\ b = Slice(av, o, p)
                       /\ c = Ahead(av, f, l, p)
    OBVIOUS
  <2>4. c = a \o b
    <3>1. Within(av, f, l, o, p)
      BY <2>2 DEF Within
    <3>2. Ahead(av, f, l, p) = Ahead(av, f, l, o) \o Slice(av, o, p)
      BY ONLY <3>1, AheadFurther
    <3> QED
      BY <2>3, <3>2
  <2>5. IsSeq(a) /\ IsSeq(b)
    BY <2>2, <2>3, AheadIs, Sliced
  <2>6. (a \o b) \o after2 = a \o (b \o after2)
    BY ONLY <1>12, <2>5, JoinedTwice, SMTT(30)
  <2> QED
    BY <2>1, <2>3, <2>4, <2>6
<1> QED
  BY <1>6, <1>9, <1>10, <1>11, <1>13, <1>14 DEF Right

\* The scan passes over operands.
LEMMA RightOperand ==
    ASSUME Scannable(orig), NEW av, IsSeq(av), Len(av) = Len(orig),
           NEW f \in Nat, NEW o \in Nat, 1 <= f, f <= o, o <= Len(orig),
           av[o] = orig[o], NEW given, Right(av, f, o, o, given),
           orig[o].kind = "operand", ordering = "PERMUTE"
    PROVE  Right(av, f, o + 1, o + 1, given)
<1>1. /\ Len(orig) \in Nat /\ IsSeq(orig) /\ o \in 1..(Len(orig) + 2) /\ 1 <= o
      /\ o + 1 \in 1..(Len(orig) + 2) /\ o + 1 \in Nat /\ (o + 1) - 1 = o
  BY DEF Scannable, IsSeq
<1>2. PICK then : then = Outcomes(orig)[o + 1]
  OBVIOUS
<1>3. IsSeq(then.returns) /\ IsSeq(then.front) /\ IsSeq(then.back)
  BY <1>1, <1>2, OutcomesAreWhole, WholeIs
<1>4. Outcomes(orig)[o] = [returns |-> then.returns, front |-> then.front,
                           back |-> <<av[o]>> \o then.back]
  <2>1. Outcomes(orig)[o] = Outcome(orig, o, Outcomes(orig))
    BY <1>1, OutcomesAre
  <2>2. ~(o > Len(orig))
    BY <1>1
  <2> QED
    BY <1>2, <2>1, <2>2 DEF Outcome
<1>5. PICK whole, rest, after :
         whole = Reference(orig) /\ rest = Outcomes(orig)[o] /\ after = then.back
  OBVIOUS
<1>6. /\ whole.returns = given \o then.returns
      /\ whole.front = Ahead(av, f, o, o) \o then.front
      /\ whole.back = Slice(av, f, o) \o (<<av[o]>> \o after)
  <2>1. /\ rest.returns = then.returns /\ rest.front = then.front
        /\ rest.back = <<av[o]>> \o after
    BY <1>4, <1>5
  <2>2. /\ whole.returns = given \o rest.returns
        /\ whole.front = Ahead(av, f, o, o) \o rest.front
        /\ whole.back = Slice(av, f, o) \o rest.back
    BY <1>5 DEF Right
  <2> QED
    BY <2>1, <2>2
<1>7. Ahead(av, f, o, o) = Slice(av, 1, f)
  <2>1. o <= Len(av) + 1
    BY <1>1
  <2> QED
    BY <2>1, AheadIs
<1>8. Ahead(av, f, o + 1, o + 1) = Slice(av, 1, f)
  <2>1. f <= o + 1 /\ o + 1 <= Len(av) + 1 /\ o + 1 <= o + 1
    BY <1>1
  <2> QED
    BY <1>1, <2>1, AheadIs
<1>9. Slice(av, f, o) \o (<<av[o]>> \o after)
         = Slice(av, f, (o + 1)) \o after
  <2> DEFINE a == Slice(av, f, o)
             b == Slice(av, o, (o + 1))
  <2>1. /\ f <= o /\ o <= o + 1 /\ o <= Len(av) + 1 /\ o + 1 <= Len(av) + 1 /\ (o + 1) - o = 1
    BY <1>1
  <2>2. IsSeq(a) /\ IsSeq(b) /\ Len(b) = 1 /\ b[1] = av[o]
    <3>1. IsSeq(a)
      BY <2>1, Sliced
    <3>2. /\ IsSeq(b) /\ Len(b) = (o + 1) - o
          /\ \A j \in 1..((o + 1) - o) : b[j] = av[o + j - 1]
      <4>1. PICK p \in Nat : p = o + 1
        BY <1>1
      <4>2. 1 <= o /\ o <= p /\ p <= Len(av) + 1
        BY <1>1, <2>1, <4>1
      <4>3. /\ IsSeq(Slice(av, o, p)) /\ Len(Slice(av, o, p)) = p - o
            /\ \A j \in 1..(p - o) : Slice(av, o, p)[j] = av[o + j - 1]
        BY <4>2, Sliced
      <4> QED
        BY <4>1, <4>3
    <3>3. 1 \in 1..((o + 1) - o) /\ o + 1 - 1 = o
      BY <2>1
    <3> HIDE DEF b
    <3> QED
      BY <2>1, <3>1, <3>2, <3>3
  <2>3. a \o b = Slice(av, f, (o + 1))
    BY <1>1, <2>1, SlicesJoined
  <2> HIDE DEF a, b
  <2>4. b = <<av[o]>>
    <3>1. IsSeq(<<av[o]>>) /\ Len(<<av[o]>>) = 1 /\ <<av[o]>>[1] = av[o]
      BY JoinedEmpty, Appended, <1>3
    <3>2. \A j \in 1..1 : j = 1
      OBVIOUS
    <3> QED
      BY <2>2, <3>1, <3>2, EqualSeqs
  <2>5. IsSeq(a) /\ IsSeq(b) /\ IsSeq(after)
    BY <1>3, <1>5, <2>2
  <2>6. (a \o b) \o after = a \o (b \o after)
    BY ONLY <2>5, JoinedTwice
  <2> QED
    BY <2>3, <2>4, <2>6 DEF a
<1> QED
  BY <1>2, <1>5, <1>6, <1>7, <1>8, <1>9 DEF Right

LEMMA RightOperands ==
    ASSUME Scannable(orig), NEW av, IsSeq(av), Len(av) = Len(orig),
           NEW f \in Nat, NEW o \in Nat, NEW p \in Nat,
           1 <= f, f <= o, o <= p, p <= Len(orig) + 1,
           \A j \in o..(p - 1) : av[j] = orig[j] /\ av[j].kind = "operand",
           ordering = "PERMUTE", NEW given, Right(av, f, o, o, given)
    PROVE  Right(av, f, p, p, given)
<1> DEFINE P == {m \in 0..(p - o) : Right(av, f, o + m, o + m, given)}
<1>1. p - o \in Nat /\ Len(orig) \in Nat
  BY DEF Scannable
<1>2. 0 \in P
  <2>1. o + 0 = o /\ 0 \in 0..(p - o)
    BY <1>1
  <2> QED
    BY <2>1
<1>3. ASSUME NEW m \in 0..(p - o), m \in P, m < p - o PROVE m + 1 \in P
  <2>1. PICK k : k = o + m
    OBVIOUS
  <2>2. /\ k \in Nat /\ f <= k /\ k <= Len(orig) /\ k \in o..(p - 1) /\ m + 1 \in 0..(p - o)
        /\ k + 1 = o + (m + 1)
    BY <1>1, <1>3, <2>1
  <2>3. Right(av, f, k, k, given)
    BY <1>3, <2>1
  <2>4. Right(av, f, k + 1, k + 1, given)
    BY <2>2, <2>3, RightOperand
  <2> QED
    BY <2>2, <2>4
<1>4. 0..(p - o) \subseteq P
  <2>1. P \in SUBSET Nat
    OBVIOUS
  <2> HIDE DEF P
  <2> QED
    BY <1>1, <1>2, <1>3, <2>1, UpTo
<1>5. p - o \in P /\ o + (p - o) = p
  BY <1>1, <1>4
<1> QED
  BY <1>5

\* The exchange moves the operands behind what was scanned.
LEMMA RightRotated ==
    ASSUME Scannable(orig), NEW av, IsSeq(av), Len(av) = Len(orig),
           NEW f \in Nat, NEW l \in Nat, NEW o \in Nat,
           1 <= f, f <= l, l <= o, o <= Len(orig) + 1,
           NEW given, Right(av, f, l, o, given), NEW first, first = f + (o - l)
    PROVE  Right(Rotated(av, f, l, o), first, o, o, given)
<1>1. PICK r : r = Rotated(av, f, l, o)
  OBVIOUS
<1>2. /\ IsSeq(r) /\ Len(r) = Len(orig) /\ Slice(r, 1, first) = Ahead(av, f, l, o)
      /\ Slice(r, first, o) = Slice(av, f, l)
  BY <1>1, RotatedSlices
<1>3. first \in Nat /\ 1 <= first /\ first <= o /\ o <= o /\ o <= Len(r) + 1
  BY <1>2
<1>4. Ahead(r, first, o, o) = Slice(r, 1, first)
  BY <1>2, <1>3, AheadIs
<1> QED
  BY <1>1, <1>2, <1>4 DEF Right

\* What ends a scan at p, the operands from f to l among what was scanned.
Ended(av, f, l, p, given) ==
    /\ Reference(orig).returns = given
    /\ Reference(orig).front = Ahead(av, f, l, p)
    /\ Reference(orig).back = Slice(av, f, l) \o Slice(av, p, Len(orig) + 1)

LEMMA EndedRotated ==
    ASSUME Scannable(orig), NEW av, IsSeq(av), Len(av) = Len(orig),
           NEW f \in Nat, NEW l \in Nat, NEW p \in Nat,
           1 <= f, f <= l, l <= p, p <= Len(orig) + 1,
           NEW given, Ended(av, f, l, p, given), NEW first, first = f + (p - l)
    PROVE  Over(Rotated(av, f, l, p), first, given)
<1>1. PICK r : r = Rotated(av, f, l, p)
  OBVIOUS
<1>2. PICK n \in Nat : n = Len(orig) + 1
  BY DEF Scannable
<1>3. first \in Nat /\ 1 <= first /\ first <= p
  OBVIOUS
<1>4. /\ IsSeq(r) /\ Len(r) = Len(orig) /\ Slice(r, 1, first) = Ahead(av, f, l, p)
      /\ Slice(r, first, p) = Slice(av, f, l)
  BY <1>1, RotatedSlices
<1>5. Slice(r, p, n) = Slice(av, p, n)
  BY <1>1, <1>2, RotatedSlices
<1>6. Slice(r, first, p) \o Slice(r, p, n) = Slice(r, first, n)
  <2>1. PICK a \in Nat : a = first
    BY <1>3
  <2>2. IsSeq(r) /\ 1 <= a /\ a <= p /\ p <= n /\ n <= Len(r) + 1 /\ p \in Nat /\ n \in Nat
    BY <1>2, <1>3, <1>4, <2>1
  <2>3. Slice(r, a, p) \o Slice(r, p, n) = Slice(r, a, n)
    BY ONLY <2>1, <2>2, SlicesJoined
  <2> QED
    BY <2>1, <2>3
<1> QED
  BY <1>1, <1>2, <1>4, <1>5, <1>6 DEF Ended, Over

LEMMA EndedWithout ==
    ASSUME Scannable(orig), NEW av, IsSeq(av), Len(av) = Len(orig),
           NEW f \in Nat, NEW p \in Nat, 1 <= f, f <= p, p <= Len(orig) + 1,
           NEW given, Ended(av, f, f, p, given)
    PROVE  Over(av, p, given)
<1>1. PICK n \in Nat : n = Len(orig) + 1
  BY DEF Scannable
<1>2. 1 <= p /\ p <= n /\ n <= Len(av) + 1
  BY <1>1
<1>3. Ahead(av, f, f, p) = Slice(av, 1, p)
  BY AheadIs
<1>4. Slice(av, f, f) = << >>
  BY NoSlice
<1>5. IsSeq(Slice(av, p, n))
  BY <1>1, <1>2, SlicesAreSeqs
<1>6. << >> \o Slice(av, p, n) = Slice(av, p, n)
  BY ONLY <1>5, JoinedEmpty
<1> QED
  BY <1>1, <1>3, <1>4, <1>6 DEF Ended, Over

LEMMA EndedBehind ==
    ASSUME Scannable(orig), NEW av, IsSeq(av), Len(av) = Len(orig),
           NEW f \in Nat, NEW p \in Nat, 1 <= f, f <= p, p <= Len(orig) + 1,
           NEW given, Ended(av, f, p, p, given)
    PROVE  Over(av, f, given)
<1>1. PICK n \in Nat : n = Len(orig) + 1
  BY DEF Scannable
<1>2. 1 <= p /\ p <= n /\ n <= Len(av) + 1 /\ p <= p
  BY <1>1
<1>3. Ahead(av, f, p, p) = Slice(av, 1, f)
  BY <1>2, AheadIs
<1>4. Slice(av, f, p) \o Slice(av, p, n) = Slice(av, f, n)
  BY <1>1, <1>2, SlicesJoined
<1> QED
  BY <1>1, <1>3, <1>4 DEF Ended, Over

LEMMA RightAtEnd ==
    ASSUME Scannable(orig), NEW av, IsSeq(av), Len(av) = Len(orig),
           NEW f \in Nat, NEW l \in Nat, NEW o \in Nat, 1 <= f, f <= l, l <= o,
           o = Len(orig) + 1, NEW given, IsSeq(given), Right(av, f, l, o, given)
    PROVE  Ended(av, f, l, o, given)
<1>1. o \in 1..(Len(orig) + 2) /\ o > Len(orig)
  BY DEF Scannable
<1>2. Outcomes(orig)[o] = [returns |-> << >>, front |-> << >>, back |-> << >>]
  <2>1. Outcomes(orig)[o] = Outcome(orig, o, Outcomes(orig))
    BY <1>1, OutcomesAre
  <2> QED
    BY <1>1, <2>1 DEF Outcome
<1>3. /\ Reference(orig).returns = given \o << >>
      /\ Reference(orig).front = Ahead(av, f, l, o) \o << >>
      /\ Reference(orig).back = Slice(av, f, l) \o << >>
  <2>1. PICK rest : rest = Outcomes(orig)[o]
    OBVIOUS
  <2>2. rest.returns = << >> /\ rest.front = << >> /\ rest.back = << >>
    BY <1>2, <2>1
  <2>3. /\ Reference(orig).returns = given \o rest.returns
        /\ Reference(orig).front = Ahead(av, f, l, o) \o rest.front
        /\ Reference(orig).back = Slice(av, f, l) \o rest.back
    BY <2>1 DEF Right
  <2> QED
    BY <2>2, <2>3
<1>4. given \o << >> = given
  BY JoinedEmpty
<1>5. IsSeq(Ahead(av, f, l, o)) /\ IsSeq(Slice(av, f, l))
  <2>1. o <= Len(av) + 1
    BY <1>1
  <2> QED
    BY <2>1, AheadIs
<1>6. /\ Ahead(av, f, l, o) \o << >> = Ahead(av, f, l, o)
  BY <1>5, JoinedEmpty
<1>7. Slice(av, o, o) = << >>
  BY NoSlice
<1> QED
  BY <1>3, <1>4, <1>6, <1>7 DEF Ended

LEMMA RightAtDashes ==
    ASSUME Scannable(orig), NEW av, IsSeq(av), Len(av) = Len(orig),
           NEW f \in Nat, NEW l \in Nat, NEW o \in Nat, 1 <= f, f <= l, l <= o,
           o <= Len(orig), \A j \in o..Len(orig) : av[j] = orig[j],
           NEW given, IsSeq(given), Right(av, f, l, o, given), orig[o].kind = "dashes",
           NEW p \in Nat, p = o + 1
    PROVE  Ended(av, f, l, p, given)
<1>1. /\ Len(orig) \in Nat /\ IsSeq(orig) /\ o \in 1..(Len(orig) + 2) /\ ~(o > Len(orig))
      /\ o \in o..Len(orig) /\ 1 <= o /\ 1 <= p /\ o <= p /\ p <= Len(orig) + 1
  BY DEF Scannable, IsSeq
<1>2. PICK n \in Nat : n = Len(orig) + 1
  BY <1>1
<1>3. Outcomes(orig)[o] = [returns |-> << >>, front |-> <<orig[o]>>,
                           back |-> Slice(orig, p, n)]
  <2>1. Outcomes(orig)[o] = Outcome(orig, o, Outcomes(orig))
    BY <1>1, OutcomesAre
  <2>2. SubSeq(orig, o + 1, Len(orig)) = Slice(orig, p, n)
    <3>1. n - 1 = Len(orig)
      BY <1>1, <1>2
    <3> QED
      BY <3>1 DEF Slice
  <2> QED
    BY <1>1, <2>1, <2>2 DEF Outcome
<1>4. /\ Reference(orig).returns = given \o << >>
      /\ Reference(orig).front = Ahead(av, f, l, o) \o <<orig[o]>>
      /\ Reference(orig).back = Slice(av, f, l) \o Slice(orig, p, n)
  <2>1. PICK rest : rest = Outcomes(orig)[o]
    OBVIOUS
  <2>2. rest.returns = << >> /\ rest.front = <<orig[o]>> /\ rest.back = Slice(orig, p, n)
    BY <1>3, <2>1
  <2>3. /\ Reference(orig).returns = given \o rest.returns
        /\ Reference(orig).front = Ahead(av, f, l, o) \o rest.front
        /\ Reference(orig).back = Slice(av, f, l) \o rest.back
    BY <2>1 DEF Right
  <2> QED
    BY <2>2, <2>3
<1>5. given \o << >> = given
  BY JoinedEmpty
<1>6. <<orig[o]>> = Slice(av, o, p)
  <2>1. /\ IsSeq(Slice(av, o, p)) /\ Len(Slice(av, o, p)) = p - o
        /\ \A j \in 1..(p - o) : Slice(av, o, p)[j] = av[o + j - 1]
    <3>1. /\ IsSeq(av) /\ o \in Nat /\ p \in Nat /\ 1 <= o /\ o <= p
          /\ p <= Len(av) + 1
      BY <1>1
    <3> QED
      BY ONLY <3>1, Sliced
  <2>2. p - o = 1 /\ o + 1 - 1 = o /\ 1 \in 1..1
    OBVIOUS
  <2>3. Len(Slice(av, o, p)) = 1 /\ Slice(av, o, p)[1] = orig[o]
    BY <1>1, <2>1, <2>2
  <2>4. IsSeq(<<orig[o]>>) /\ Len(<<orig[o]>>) = 1 /\ <<orig[o]>>[1] = orig[o]
    BY Appended
  <2>5. \A j \in 1..1 : j = 1
    OBVIOUS
  <2> QED
    BY <2>1, <2>3, <2>4, <2>5, EqualSeqs
<1>7. Ahead(av, f, l, p) = Ahead(av, f, l, o) \o Slice(av, o, p)
  <2>1. Within(av, f, l, o, p)
    BY <1>1 DEF Within
  <2> QED
    BY ONLY <2>1, AheadFurther
<1>8. Slice(orig, p, n) = Slice(av, p, n)
  <2>1. \A j \in p..(n - 1) : orig[j] = av[j]
    <3>1. \A j \in p..(n - 1) : j \in o..Len(orig)
      BY <1>1, <1>2
    <3> QED
      BY <3>1
  <2>2. /\ IsSeq(orig) /\ IsSeq(av) /\ p \in Nat /\ n \in Nat
        /\ 1 <= p /\ p <= n /\ n <= Len(orig) + 1 /\ n <= Len(av) + 1
    BY <1>1, <1>2
  <2> QED
    BY ONLY <2>1, <2>2, EqualSlices
<1> QED
  BY <1>2, <1>4, <1>5, <1>6, <1>7, <1>8 DEF Ended

LEMMA RightAtOperand ==
    ASSUME Scannable(orig), NEW av, IsSeq(av), Len(av) = Len(orig),
           NEW f \in Nat, NEW l \in Nat, NEW o \in Nat, 1 <= f, f <= l, l <= o,
           o <= Len(orig), \A j \in o..Len(orig) : av[j] = orig[j],
           NEW given, IsSeq(given), Right(av, f, l, o, given), orig[o].kind = "operand",
           ordering = "REQUIRE_ORDER"
    PROVE  Ended(av, f, l, o, given)
<1>1. /\ Len(orig) \in Nat /\ IsSeq(orig) /\ o \in 1..(Len(orig) + 2) /\ ~(o > Len(orig))
      /\ 1 <= o /\ o <= Len(av) + 1
  BY DEF Scannable, IsSeq
<1>2. PICK n \in Nat : n = Len(orig) + 1
  BY <1>1
<1>3. Outcomes(orig)[o] = [returns |-> << >>, front |-> << >>, back |-> Slice(orig, o, n)]
  <2>1. Outcomes(orig)[o] = Outcome(orig, o, Outcomes(orig))
    BY <1>1, OutcomesAre
  <2>2. SubSeq(orig, o, Len(orig)) = Slice(orig, o, n)
    <3>1. n - 1 = Len(orig)
      BY <1>1, <1>2
    <3> QED
      BY <3>1 DEF Slice
  <2> QED
    BY <1>1, <2>1, <2>2 DEF Outcome
<1>4. /\ Reference(orig).returns = given \o << >>
      /\ Reference(orig).front = Ahead(av, f, l, o) \o << >>
      /\ Reference(orig).back = Slice(av, f, l) \o Slice(orig, o, n)
  <2>1. PICK rest : rest = Outcomes(orig)[o]
    OBVIOUS
  <2>2. rest.returns = << >> /\ rest.front = << >> /\ rest.back = Slice(orig, o, n)
    BY <1>3, <2>1
  <2>3. /\ Reference(orig).returns = given \o rest.returns
        /\ Reference(orig).front = Ahead(av, f, l, o) \o rest.front
        /\ Reference(orig).back = Slice(av, f, l) \o rest.back
    BY <2>1 DEF Right
  <2> QED
    BY <2>2, <2>3
<1>5. given \o << >> = given
  BY JoinedEmpty
<1>6. Ahead(av, f, l, o) \o << >> = Ahead(av, f, l, o)
  <2>1. IsSeq(Ahead(av, f, l, o))
    BY <1>1, AheadIs
  <2> QED
    BY <2>1, JoinedEmpty
<1>7. Slice(orig, o, n) = Slice(av, o, n)
  <2>1. \A j \in o..(n - 1) : orig[j] = av[j]
    <3>1. \A j \in o..(n - 1) : j \in o..Len(orig)
      BY <1>1, <1>2
    <3> QED
      BY <3>1
  <2>2. 1 <= o /\ o <= n /\ n <= Len(orig) + 1 /\ n <= Len(av) + 1
    BY <1>1, <1>2
  <2> QED
    BY <1>1, <2>1, <2>2, EqualSlices, ZenonT(30)
<1> QED
  BY <1>2, <1>4, <1>5, <1>6, <1>7 DEF Ended

\* Nothing is scanned yet.
LEMMA RightAtFirst == Scannable(orig) => Right(orig, 1, 1, 1, << >>)
<1> SUFFICES ASSUME Scannable(orig) PROVE Right(orig, 1, 1, 1, << >>)
  OBVIOUS
<1>1. PICK whole : whole = Outcomes(orig)[1]
  OBVIOUS
<1>2. IsSeq(whole.returns) /\ IsSeq(whole.front) /\ IsSeq(whole.back)
  <2>1. 1 \in 1..(Len(orig) + 2)
    BY DEF Scannable
  <2> QED
    BY <1>1, <2>1, OutcomesAreWhole, WholeIs
<1>3. Slice(orig, 1, 1) = << >>
  BY NoSlice
<1>4. Ahead(orig, 1, 1, 1) = << >>
  <2>1. << >> \o << >> = << >>
    OBVIOUS
  <2> QED
    BY <1>3, <2>1 DEF Ahead
<1>5. /\ << >> \o whole.returns = whole.returns /\ << >> \o whole.front = whole.front
      /\ << >> \o whole.back = whole.back
  BY <1>2, JoinedEmpty
<1>6. Reference(orig) = whole
  BY <1>1 DEF Reference
<1> QED
  BY <1>1, <1>3, <1>4, <1>5, <1>6 DEF Right

\* A step that keeps to its command line leaves what it comes to alone.
LEMMA OutcomesStay ==
    ASSUME orig' = orig, ordering' = ordering, long_only' = long_only
    PROVE  Outcomes(orig)' = Outcomes(orig)
<1>1. ASSUME NEW j PROVE Option(orig, j)' = Option(orig, j)
  <2>1. AsLong(orig, j)' = AsLong(orig, j)
    BY DEF AsLong
  <2>2. ReadAsLong(orig, j)' = ReadAsLong(orig, j)
    BY <2>1 DEF ReadAsLong
  <2> QED
    BY <2>1, <2>2 DEF Option
<1>2. ASSUME NEW j, NEW scan PROVE Outcome(orig, j, scan)' = Outcome(orig, j, scan)
  <2>1. Option(orig, j)' = Option(orig, j)
    BY <1>1
  <2> QED
    BY <2>1 DEF Outcome, Before
<1>3. Outcomes(orig)' = CHOOSE scan : scan = [j \in 1..(Len(orig) + 2) |-> Outcome(orig, j, scan)]
  BY <1>2 DEF Outcomes
<1> QED
  BY <1>3 DEF Outcomes

--------------------------------------------------------------------------------
(* What a scan returns: the steps.                                         *)

\* The scan is at the k-th character of a cluster.
InCluster(k, given) ==
    LET chars == orig[optind].chars IN
    /\ k \in 1..Len(chars) /\ nextchar = SubSeq(chars, k, Len(chars))
    /\ \A h \in 1..(k - 1) : Plain(chars[h])
    /\ IsSeq(given) /\ returns = given \o PlainReturns(chars, k - 1)
    /\ Right(argv, first_nonopt, last_nonopt, optind, given)

RightInv ==
    /\ IsSeq(returns)
    /\ ordering # "PERMUTE" /\ pc \notin {"end", "done"} => first_nonopt = last_nonopt
    /\ pc \in {"call", "advance", "dashes", "word"} /\ nextchar = << >> =>
          Right(argv, first_nonopt, last_nonopt, optind, returns)
    /\ pc \in {"dashes", "word"} /\ ordering = "PERMUTE" =>
          last_nonopt = optind /\ (optind = Argc \/ ~Operand(optind))
    /\ pc = "word" => optind = Argc \/ argv[optind].kind # "dashes"
    /\ pc = "skip" =>
          ordering = "PERMUTE" /\ Right(argv, first_nonopt, optind, optind, returns)
    /\ pc = "exchange" =>
          /\ ordering = "PERMUTE"
          /\ Right(Rotated(argv, bottom, middle, top),
                   first_nonopt + (optind - last_nonopt), optind, optind, returns)
    /\ pc = "exchange2" =>
          Over(Rotated(argv, bottom, middle, top), first_nonopt + (optind - last_nonopt),
               returns)
    /\ pc = "end" => Over(argv, first_nonopt, returns)
    /\ pc = "done" => Over(argv, optind, returns)
    /\ pc \in {"call", "short"} /\ nextchar # << >> =>
          /\ orig[optind].kind = "short" /\ ~ReadAsLong(orig, optind)
          /\ \E k, given : InCluster(k, given)

\* What a step has to show of it.
LEMMA RightThen ==
    ASSUME orig' = orig, ordering' = ordering, long_only' = long_only,
           Len(argv') = Len(argv), IsSeq(returns'),
           ordering # "PERMUTE" /\ pc' \notin {"end", "done"} => first_nonopt' = last_nonopt',
           pc' \in {"call", "advance", "dashes", "word"} /\ nextchar' = << >> =>
              Right(argv', first_nonopt', last_nonopt', optind', returns'),
           pc' \in {"dashes", "word"} /\ ordering = "PERMUTE" =>
              /\ last_nonopt' = optind'
              /\ optind' = Len(argv) + 1 \/ argv'[optind'].kind # "operand",
           pc' = "word" => optind' = Len(argv) + 1 \/ argv'[optind'].kind # "dashes",
           pc' = "skip" =>
              ordering = "PERMUTE" /\ Right(argv', first_nonopt', optind', optind', returns'),
           pc' = "exchange" =>
              /\ ordering = "PERMUTE"
              /\ Right(Rotated(argv', bottom', middle', top'),
                       first_nonopt' + (optind' - last_nonopt'), optind', optind', returns'),
           pc' = "exchange2" =>
              Over(Rotated(argv', bottom', middle', top'),
                   first_nonopt' + (optind' - last_nonopt'), returns'),
           pc' = "end" => Over(argv', first_nonopt', returns'),
           pc' = "done" => Over(argv', optind', returns'),
           pc' \in {"call", "short"} /\ nextchar' # << >> =>
              /\ orig[optind'].kind = "short" /\ ~ReadAsLong(orig, optind')
              /\ \E k, given :
                    /\ k \in 1..Len(orig[optind'].chars)
                    /\ nextchar' = SubSeq(orig[optind'].chars, k, Len(orig[optind'].chars))
                    /\ \A h \in 1..(k - 1) : Plain(orig[optind'].chars[h])
                    /\ IsSeq(given)
                    /\ returns' = given \o PlainReturns(orig[optind'].chars, k - 1)
                    /\ Right(argv', first_nonopt', last_nonopt', optind', given)
    PROVE  RightInv'
<1>1. Outcomes(orig)' = Outcomes(orig) /\ Reference(orig)' = Reference(orig)
  BY OutcomesStay DEF Reference
<1>2. Rotated(argv, bottom, middle, top)' = Rotated(argv', bottom', middle', top')
  BY DEF Rotated
<1>3. /\ Right(argv', first_nonopt', last_nonopt', optind', returns')
           => Right(argv, first_nonopt, last_nonopt, optind, returns)'
      /\ Right(argv', first_nonopt', optind', optind', returns')
           => Right(argv, first_nonopt, optind, optind, returns)'
  BY <1>1 DEF Right
<1>4. Right(Rotated(argv', bottom', middle', top'),
            first_nonopt' + (optind' - last_nonopt'), optind', optind', returns')
        => Right(Rotated(argv, bottom, middle, top),
                 first_nonopt + (optind - last_nonopt), optind, optind, returns)'
  BY <1>1, <1>2 DEF Right
<1>5. /\ Over(Rotated(argv', bottom', middle', top'),
              first_nonopt' + (optind' - last_nonopt'), returns')
           => Over(Rotated(argv, bottom, middle, top),
                   first_nonopt + (optind - last_nonopt), returns)'
      /\ Over(argv', first_nonopt', returns') => Over(argv, first_nonopt, returns)'
      /\ Over(argv', optind', returns') => Over(argv, optind, returns)'
  BY <1>1, <1>2 DEF Over
<1>6. ReadAsLong(orig, optind') => ReadAsLong(orig, optind)'
  BY DEF ReadAsLong, AsLong
<1>7. ReadAsLong(orig, optind)' => ReadAsLong(orig, optind')
  BY DEF ReadAsLong, AsLong
<1>8. ASSUME NEW k, NEW given,
             /\ k \in 1..Len(orig[optind'].chars)
             /\ nextchar' = SubSeq(orig[optind'].chars, k, Len(orig[optind'].chars))
             /\ \A h \in 1..(k - 1) : Plain(orig[optind'].chars[h])
             /\ IsSeq(given)
             /\ returns' = given \o PlainReturns(orig[optind'].chars, k - 1)
             /\ Right(argv', first_nonopt', last_nonopt', optind', given)
      PROVE  InCluster(k, given)'
  <2>1. Right(argv, first_nonopt, last_nonopt, optind, given)'
    BY <1>1, <1>8 DEF Right
  <2> QED
    BY <1>8, <2>1 DEF InCluster
<1>9. optind' = Len(argv) + 1 => (optind = Argc)'
  BY DEF Argc
<1>10. argv'[optind'].kind # "operand" => (~Operand(optind))'
  BY DEF Operand
<1>11. /\ IsSeq(returns)'
       /\ ordering' # "PERMUTE" /\ pc' \notin {"end", "done"} => first_nonopt' = last_nonopt'
       /\ pc' \in {"dashes", "word"} /\ ordering' = "PERMUTE" =>
             last_nonopt' = optind' /\ (optind = Argc \/ ~Operand(optind))'
       /\ pc' = "word" => (optind = Argc)' \/ argv'[optind'].kind # "dashes"
  <2>1. IsSeq(returns)'
    BY DEF IsSeq
  <2> QED
    BY <1>9, <1>10, <2>1
<1>12. pc' \in {"call", "short"} /\ nextchar' # << >> =>
          /\ orig'[optind'].kind = "short" /\ ~ReadAsLong(orig, optind)'
          /\ (\E k, given : InCluster(k, given))'
  BY <1>7, <1>8
<1> QED
  BY <1>3, <1>4, <1>5, <1>11, <1>12 DEF RightInv

LEMMA StandsAt ==
    ASSUME ScanInv, pc \in {"call", "advance", "dashes", "word", "short"}
    PROVE  /\ Scannable(orig) /\ IsSeq(argv) /\ Len(argv) = Len(orig) /\ Len(orig) \in Nat
           /\ first_nonopt \in Nat /\ last_nonopt \in Nat /\ optind \in Nat
           /\ 1 <= first_nonopt /\ first_nonopt <= last_nonopt /\ last_nonopt <= optind
           /\ optind <= Len(orig) + 1 /\ Argc = Len(orig) + 1
           /\ \A j \in optind..Len(orig) : argv[j] = orig[j]
<1>1. Arranged(argv, first_nonopt, last_nonopt, optind)
  BY DEF ScanInv, Scanning
<1>2. IsSeq(argv)
  BY ScanIs DEF IsSeq
<1> QED
  BY <1>1, <1>2, ScanIs DEF Arranged

LEMMA RightCall == ASSUME ScanInv, RightInv, Call PROVE RightInv'
<1>1. /\ pc = "call" /\ pc' \in {"short", "advance"} /\ (pc' = "short" <=> nextchar # << >>)
      /\ UNCHANGED <<argv, optind, nextchar, ordering, long_only, orig, returns>>
  BY DEF Call, mode, segment, history
<1>2. first_nonopt' = first_nonopt /\ last_nonopt' = last_nonopt
  <2>1. first_nonopt <= optind /\ last_nonopt <= optind
    BY <1>1, StandsAt
  <2> QED
    BY <2>1, ScanIs, LeastOfTwo DEF Call
<1>3. ordering # "PERMUTE" => first_nonopt = last_nonopt
  BY <1>1 DEF RightInv
<1>4. IsSeq(returns')
  BY <1>1 DEF RightInv
<1>5. CASE nextchar = << >>
  <2>1. Right(argv, first_nonopt, last_nonopt, optind, returns)
    BY <1>1, <1>5 DEF RightInv
  <2>2. pc' = "advance" /\ nextchar' = << >>
    BY <1>1, <1>5
  <2> QED
    BY <1>1, <1>2, <1>3, <1>4, <2>1, <2>2, RightThen
<1>6. CASE nextchar # << >>
  <2>1. /\ orig[optind].kind = "short" /\ ~ReadAsLong(orig, optind)
        /\ \E k, given : InCluster(k, given)
    BY <1>1, <1>6 DEF RightInv
  <2>2. pc' = "short" /\ nextchar' # << >>
    BY <1>1, <1>6
  <2>3. orig[optind'].kind = "short" /\ ~ReadAsLong(orig, optind')
    BY <1>1, <2>1
  <2>4. \E k, given :
           /\ k \in 1..Len(orig[optind'].chars)
           /\ nextchar' = SubSeq(orig[optind'].chars, k, Len(orig[optind'].chars))
           /\ \A h \in 1..(k - 1) : Plain(orig[optind'].chars[h])
           /\ IsSeq(given)
           /\ returns' = given \o PlainReturns(orig[optind'].chars, k - 1)
           /\ Right(argv', first_nonopt', last_nonopt', optind', given)
    BY <1>1, <1>2, <2>1 DEF InCluster
  <2> QED
    BY <1>1, <1>2, <1>3, <1>4, <2>2, <2>3, <2>4, RightThen
<1> QED
  BY <1>5, <1>6

LEMMA RightAdvance == ASSUME ScanInv, RightInv, Advance PROVE RightInv'
<1>1. /\ pc = "advance" /\ nextchar = << >>
      /\ UNCHANGED <<argv, optind, last_nonopt, nextchar, ordering, long_only, orig, returns>>
  BY DEF Advance, mode, history, ScanInv, Scanning
<1>2. Right(argv, first_nonopt, last_nonopt, optind, returns)
  BY <1>1 DEF RightInv
<1>3. /\ IsSeq(returns) /\ IsSeq(returns') /\ Len(argv') = Len(argv) /\ nextchar' = << >>
      /\ ordering # "PERMUTE" => first_nonopt = last_nonopt
  BY <1>1 DEF RightInv
<1>4. /\ Scannable(orig) /\ IsSeq(argv) /\ Len(argv) = Len(orig) /\ Len(orig) \in Nat
      /\ first_nonopt \in Nat /\ last_nonopt \in Nat /\ optind \in Nat
      /\ 1 <= first_nonopt /\ first_nonopt <= last_nonopt /\ last_nonopt <= optind
      /\ optind <= Len(orig) + 1
  BY <1>1, StandsAt
<1>5. CASE ordering # "PERMUTE"
  <2>1. pc' = "dashes" /\ UNCHANGED first_nonopt
    BY <1>5 DEF Advance
  <2>2. Right(argv', first_nonopt', last_nonopt', optind', returns')
    BY <1>1, <1>2, <2>1
  <2> QED
    BY <1>1, <1>3, <1>5, <2>1, <2>2, RightThen
<1>6. CASE ordering = "PERMUTE" /\ first_nonopt # last_nonopt /\ last_nonopt # optind
  <2>1. /\ pc' = "exchange" /\ UNCHANGED first_nonopt
        /\ bottom' = first_nonopt /\ middle' = last_nonopt /\ top' = optind
    BY <1>1, <1>6 DEF Advance, BeginExchange
  <2>2. Right(Rotated(argv, first_nonopt, last_nonopt, optind),
              first_nonopt + (optind - last_nonopt), optind, optind, returns)
    BY <1>2, <1>4, RightRotated
  <2>3. Right(Rotated(argv', bottom', middle', top'),
              first_nonopt' + (optind' - last_nonopt'), optind', optind', returns')
    BY <1>1, <2>1, <2>2
  <2> QED
    BY <1>1, <1>3, <1>6, <2>1, <2>3, RightThen
<1>7. CASE ordering = "PERMUTE" /\ ~(first_nonopt # last_nonopt /\ last_nonopt # optind)
  <2>1. pc' = "skip" /\ first_nonopt' = IF last_nonopt # optind THEN optind ELSE first_nonopt
    BY <1>7 DEF Advance
  <2>2. Right(argv, first_nonopt', optind, optind, returns)
    <3>1. CASE last_nonopt = optind
      BY <1>2, <2>1, <3>1
    <3>2. CASE last_nonopt # optind
      <4>1. first_nonopt <= optind /\ optind <= Len(argv) + 1
        BY <1>4
      <4>2. Right(argv, first_nonopt, first_nonopt, optind, returns)
        BY <1>2, <1>7, <3>2
      <4>3. Right(argv, optind, optind, optind, returns)
        BY <1>4, <4>1, <4>2, RightWithout
      <4> QED
        BY <2>1, <3>2, <4>3
    <3> QED
      BY <3>1, <3>2
  <2>3. Right(argv', first_nonopt', optind', optind', returns')
    BY <1>1, <2>2
  <2> QED
    BY <1>1, <1>3, <1>7, <2>1, <2>3, RightThen
<1> QED
  BY <1>5, <1>6, <1>7

LEMMA RightExchange == ASSUME ScanInv, RightInv, Exchange PROVE RightInv'
<1>1. /\ pc \in {"exchange", "exchange2"} /\ nextchar = << >>
      /\ UNCHANGED <<optind, nextchar, ordering, long_only, orig, returns>>
  BY DEF Exchange, mode, history, ScanInv, Scanning
<1>2. IsSeq(returns) /\ (ordering # "PERMUTE" => first_nonopt = last_nonopt)
  BY <1>1 DEF RightInv
<1>3. Len(argv') = Len(argv)
  BY <1>1, StepExchange, ScanIs DEF ScanInv
<1> DEFINE Goal == Rotated(argv, bottom, middle, top)
           first == first_nonopt + (optind - last_nonopt)
<1>4. /\ pc = "exchange" => ordering = "PERMUTE" /\ Right(Goal, first, optind, optind, returns)
      /\ pc = "exchange2" => Over(Goal, first, returns)
  BY DEF RightInv
<1>5. CASE top > middle /\ middle > bottom
  <2>1. UNCHANGED <<middle, first_nonopt, last_nonopt, pc>>
    BY <1>5 DEF Exchange
  <2>2. Rotated(argv', bottom', middle', top') = Goal
    BY <1>5, <2>1, ExchangeRound
  <2>3. first_nonopt' + (optind' - last_nonopt') = first
    BY <1>1, <2>1
  <2> HIDE DEF Goal, first
  <2>4. /\ pc' = "exchange" =>
              /\ ordering = "PERMUTE"
              /\ Right(Rotated(argv', bottom', middle', top'),
                       first_nonopt' + (optind' - last_nonopt'), optind', optind', returns')
        /\ pc' = "exchange2" =>
              Over(Rotated(argv', bottom', middle', top'),
                   first_nonopt' + (optind' - last_nonopt'), returns')
    BY <1>1, <1>4, <2>1, <2>2, <2>3
  <2> QED
    BY <1>1, <1>2, <1>3, <2>1, <2>4, RightThen
<1>6. CASE ~(top > middle /\ middle > bottom)
  <2>1. /\ first_nonopt' = first /\ last_nonopt' = optind
        /\ pc' = IF pc = "exchange" THEN "skip" ELSE "end"
        /\ argv' = argv
    BY <1>6 DEF Exchange, segment
  <2>2. middle = bottom \/ middle = top
    <3>1. bottom <= middle /\ middle <= top
      BY <1>1 DEF ScanInv, Scanning
    <3> QED
      BY <1>6, <3>1, ScanIs
  <2>3. Goal = argv
    BY <2>2, ScanIs, RotatedIsOver
  <2> HIDE DEF Goal, first
  <2>4. /\ pc' = "skip" =>
              ordering = "PERMUTE" /\ Right(argv', first_nonopt', optind', optind', returns')
        /\ pc' = "end" => Over(argv', first_nonopt', returns')
    BY <1>1, <1>4, <2>1, <2>3
  <2>5. pc' = "skip" => ordering = "PERMUTE"
    BY <2>4
  <2>6. pc' \in {"skip", "end"}
    BY <2>1
  <2> QED
    BY <1>1, <1>2, <1>3, <2>4, <2>5, <2>6, RightThen
<1> QED
  BY <1>5, <1>6

LEMMA RightSkip == ASSUME ScanInv, RightInv, Skip PROVE RightInv'
<1>1. /\ pc = "skip" /\ pc' = "dashes" /\ nextchar = << >> /\ last_nonopt' = optind'
      /\ UNCHANGED <<argv, first_nonopt, nextchar, ordering, long_only, orig, returns>>
  BY DEF Skip, mode, segment, history, ScanInv, Scanning
<1>2. ordering = "PERMUTE" /\ Right(argv, first_nonopt, optind, optind, returns)
  BY <1>1 DEF RightInv
<1>3. Arranged(argv, first_nonopt, optind, optind)
  BY <1>1 DEF ScanInv, Scanning
<1>4. /\ Scannable(orig) /\ IsSeq(argv) /\ Len(argv) = Len(orig) /\ Len(orig) \in Nat
      /\ first_nonopt \in Nat /\ optind \in Nat /\ Argc = Len(orig) + 1
      /\ 1 <= first_nonopt /\ first_nonopt <= optind
      /\ \A j \in optind..Len(orig) : argv[j] = orig[j]
  BY <1>3, ScanIs DEF Arranged, IsSeq
<1>5. PICK next \in Nat : next = optind'
  BY SkipIs
<1>6. /\ optind <= next /\ next <= Len(orig) + 1
      /\ \A j \in optind..(next - 1) : argv[j].kind = "operand"
      /\ next = Len(argv) + 1 \/ argv[next].kind # "operand"
  BY <1>4, <1>5, SkipIs
<1>7. \A j \in optind..(next - 1) : argv[j] = orig[j] /\ argv[j].kind = "operand"
  <2>1. \A j \in optind..(next - 1) : j \in optind..Len(orig)
    BY <1>4, <1>6
  <2> QED
    BY <1>4, <1>6, <2>1
<1>8. Right(argv, first_nonopt, next, next, returns)
  BY <1>2, <1>4, <1>6, <1>7, RightOperands
<1>9. IsSeq(returns')
  BY <1>1 DEF RightInv
<1>10. Right(argv', first_nonopt', last_nonopt', optind', returns')
  BY <1>1, <1>5, <1>8
<1>11. optind' = Len(argv) + 1 \/ argv'[optind'].kind # "operand"
  BY <1>1, <1>5, <1>6
<1> QED
  BY <1>1, <1>2, <1>9, <1>10, <1>11, RightThen

LEMMA RightDashes == ASSUME ScanInv, RightInv, Dashes PROVE RightInv'
<1>1. /\ pc = "dashes" /\ nextchar = << >>
      /\ UNCHANGED <<argv, last_nonopt, nextchar, ordering, long_only, orig, returns>>
  BY DEF Dashes, mode, history, ScanInv, Scanning
<1>2. /\ Right(argv, first_nonopt, last_nonopt, optind, returns)
      /\ ordering = "PERMUTE" =>
            last_nonopt = optind /\ (optind = Argc \/ argv[optind].kind # "operand")
  BY <1>1 DEF RightInv, Operand
<1>3. /\ IsSeq(returns) /\ IsSeq(returns') /\ Len(argv') = Len(argv) /\ nextchar' = << >>
      /\ ordering # "PERMUTE" => first_nonopt = last_nonopt
  BY <1>1 DEF RightInv
<1>4. /\ Scannable(orig) /\ IsSeq(argv) /\ Len(argv) = Len(orig) /\ Len(orig) \in Nat
      /\ first_nonopt \in Nat /\ last_nonopt \in Nat /\ optind \in Nat
      /\ 1 <= first_nonopt /\ first_nonopt <= last_nonopt /\ last_nonopt <= optind
      /\ optind <= Len(orig) + 1 /\ Argc = Len(orig) + 1
      /\ \A j \in optind..Len(orig) : argv[j] = orig[j]
  BY <1>1, StandsAt
<1>5. CASE ~(optind # Argc /\ argv[optind].kind = "dashes")
  <2>1. pc' = "word" /\ UNCHANGED <<optind, first_nonopt>>
    BY <1>5 DEF Dashes
  <2>2. Right(argv', first_nonopt', last_nonopt', optind', returns')
    BY <1>1, <1>2, <2>1
  <2>3. /\ optind' = Len(argv) + 1 \/ argv'[optind'].kind # "dashes"
        /\ ordering = "PERMUTE" =>
              /\ last_nonopt' = optind'
              /\ optind' = Len(argv) + 1 \/ argv'[optind'].kind # "operand"
    BY <1>1, <1>2, <1>4, <1>5, <2>1
  <2>4. ordering # "PERMUTE" => first_nonopt' = last_nonopt'
    BY <1>1, <1>3, <2>1
  <2> QED
    BY <1>1, <1>3, <2>1, <2>2, <2>3, <2>4, RightThen
<1>6. CASE optind # Argc /\ argv[optind].kind = "dashes"
  <2>1. PICK p \in Nat : p = optind + 1
    BY <1>4
  <2>2. /\ optind' = p /\ optind <= Len(orig) /\ p <= Len(orig) + 1 /\ last_nonopt <= p
        /\ first_nonopt <= p /\ last_nonopt # p /\ orig[optind].kind = "dashes"
    BY <1>4, <1>6, <2>1 DEF Dashes
  <2>3. Ended(argv, first_nonopt, last_nonopt, p, returns)
    BY <1>2, <1>3, <1>4, <2>1, <2>2, RightAtDashes
  <2>4. CASE first_nonopt # last_nonopt
    <3>1. /\ pc' = "exchange2" /\ UNCHANGED first_nonopt
          /\ bottom' = first_nonopt /\ middle' = last_nonopt /\ top' = optind'
      BY <1>6, <2>2, <2>4 DEF Dashes, BeginExchange
    <3>2. Over(Rotated(argv, first_nonopt, last_nonopt, p), first_nonopt + (p - last_nonopt),
               returns)
      BY <1>4, <2>2, <2>3, EndedRotated
    <3>3. Over(Rotated(argv', bottom', middle', top'),
               first_nonopt' + (optind' - last_nonopt'), returns')
      BY <1>1, <2>2, <3>1, <3>2
    <3>4. ordering = "PERMUTE"
      BY <1>3, <2>4
    <3> QED
      BY <1>1, <1>3, <3>1, <3>3, <3>4, RightThen
  <2>5. CASE first_nonopt = last_nonopt
    <3>1. pc' = "end" /\ first_nonopt' = optind'
      BY <1>6, <2>2, <2>5 DEF Dashes
    <3>2. Ended(argv, first_nonopt, first_nonopt, p, returns)
      BY <2>3, <2>5
    <3>3. Over(argv, p, returns)
      BY <1>4, <2>2, <3>2, EndedWithout
    <3>4. Over(argv', first_nonopt', returns')
      BY <1>1, <2>2, <3>1, <3>3
    <3> QED
      BY <1>1, <1>3, <3>1, <3>4, RightThen
  <2> QED
    BY <2>4, <2>5
<1> QED
  BY <1>5, <1>6

LEMMA RightEnd == ASSUME ScanInv, RightInv, End PROVE RightInv'
<1>1. /\ pc = "end" /\ pc' = "done" /\ nextchar = << >> /\ last_nonopt' = Argc
      /\ optind' = IF first_nonopt # Argc THEN first_nonopt ELSE Argc
      /\ UNCHANGED <<argv, first_nonopt, nextchar, ordering, long_only, orig, returns>>
  BY DEF End, Finish, mode, segment, history, ScanInv, Scanning
<1>2. Over(argv, first_nonopt, returns)
  BY <1>1 DEF RightInv
<1>3. IsSeq(returns')
  BY <1>1 DEF RightInv
<1>4. optind' = first_nonopt
  BY <1>1
<1>5. Over(argv', optind', returns')
  BY <1>1, <1>2, <1>4
<1> QED
  BY <1>1, <1>3, <1>5, RightThen

\* What an option returns is what the scan returns next.
LEMMA RightReturn ==
    ASSUME ScanInv, RightInv, pc \in {"word", "short"}, optind <= Len(argv), pc' = "call",
           UNCHANGED <<argv, first_nonopt, last_nonopt, ordering, long_only, orig>>,
           orig[optind].kind # "dashes",
           orig[optind].kind = "operand" => ordering \notin {"REQUIRE_ORDER", "PERMUTE"},
           NEW given, IsSeq(given), Right(argv, first_nonopt, last_nonopt, optind, given),
           returns' = given \o Option(orig, optind).returns,
           optind' = optind + 1 + Option(orig, optind).uses, nextchar' = << >>
    PROVE  RightInv'
<1>1. /\ Scannable(orig) /\ IsSeq(argv) /\ Len(argv) = Len(orig) /\ Len(orig) \in Nat
      /\ first_nonopt \in Nat /\ last_nonopt \in Nat /\ optind \in Nat
      /\ 1 <= first_nonopt /\ first_nonopt <= last_nonopt /\ last_nonopt <= optind
      /\ optind <= Len(orig) + 1 /\ Argc = Len(orig) + 1
      /\ \A j \in optind..Len(orig) : argv[j] = orig[j]
  BY StandsAt
<1>2. optind \in 1..Len(orig) /\ optind <= Len(orig)
  BY <1>1
<1>3. Option(orig, optind).uses \in 0..(Len(orig) - optind)
      /\ IsSeq(Option(orig, optind).returns)
  BY <1>1, <1>2, OptionIs
<1>4. PICK p \in Nat : p = optind'
  BY <1>1, <1>3
<1>5. PICK more : more = returns'
  OBVIOUS
<1>6. Right(argv, first_nonopt, last_nonopt, p, more)
  BY <1>1, <1>2, <1>4, <1>5, RightFurther
<1>7. IsSeq(returns')
  BY <1>3, SeqsJoined
<1>8. ordering # "PERMUTE" => first_nonopt' = last_nonopt'
  BY DEF RightInv
<1>9. Right(argv', first_nonopt', last_nonopt', optind', returns')
  BY <1>4, <1>5, <1>6
<1> QED
  BY <1>7, <1>8, <1>9, RightThen

\* The option that an element returns: its last result, behind the plain ones.
LEMMA RightTaken ==
    ASSUME ScanInv, RightInv, pc \in {"word", "short"}, optind <= Len(argv), pc' = "call",
           UNCHANGED <<argv, first_nonopt, last_nonopt, ordering, long_only, orig>>,
           orig[optind].kind \notin {"dashes", "operand"},
           NEW given, IsSeq(given), Right(argv, first_nonopt, last_nonopt, optind, given),
           NEW plain, IsSeq(plain), returns = given \o plain,
           NEW r, r.optind \in Nat, Option(orig, optind) = TakenBy(plain, r, optind),
           returns' = Append(returns, Result(r.code, r.arg)), optind' = r.optind,
           nextchar' = << >>
    PROVE  RightInv'
<1>1. PICK e : e = Result(r.code, r.arg)
  OBVIOUS
<1>2. Option(orig, optind).returns = Append(plain, e)
      /\ Option(orig, optind).uses = r.optind - (optind + 1)
  BY <1>1 DEF TakenBy, Taken
<1>3. returns' = given \o Append(plain, e)
  <2>1. Append(plain, e) = plain \o <<e>> /\ IsSeq(<<e>>)
    BY Appended
  <2>2. Append(returns, e) = returns \o <<e>>
    BY Appended DEF RightInv
  <2>3. PICK u : u = <<e>>
    OBVIOUS
  <2>4. IsSeq(given) /\ IsSeq(plain) /\ IsSeq(u)
    BY <2>1, <2>3
  <2>5. (given \o plain) \o u = given \o (plain \o u)
    BY ONLY <2>4, JoinedTwice
  <2> QED
    BY <1>1, <2>1, <2>2, <2>3, <2>5
<1>4. optind' = optind + 1 + Option(orig, optind).uses
  <2>1. PICK a \in Nat, b \in Nat : a = r.optind /\ b = optind
    BY ScanIs
  <2>2. a = b + 1 + (a - (b + 1))
    OBVIOUS
  <2> QED
    BY <1>2, <2>1, <2>2
<1>5. returns' = given \o Option(orig, optind).returns
  BY <1>2, <1>3
<1> QED
  BY <1>4, <1>5, RightReturn

LEMMA RightLong ==
    ASSUME ScanInv, RightInv, pc = "word", optind <= Len(argv), pc' = "call",
           UNCHANGED <<argv, first_nonopt, last_nonopt, ordering, long_only, orig>>,
           orig[optind].kind \notin {"dashes", "operand"}, ReadAsLong(orig, optind),
           Found(AsLong(orig, optind)), nextchar = << >>, nextchar' = << >>
    PROVE  RightInv'
<1>1. /\ IsSeq(returns) /\ Right(argv, first_nonopt, last_nonopt, optind, returns)
  BY DEF RightInv
<1>2. PICK r : r = AsLong(orig, optind)
  OBVIOUS
<1>3. Option(orig, optind) = TakenBy(<< >>, r, optind)
  BY <1>2 DEF Option
<1>4. IsSeq(<< >>) /\ returns = returns \o << >>
  BY <1>1, JoinedEmpty
<1>5. r.optind \in Nat
  <2>1. optind \in 1..Len(orig) /\ Len(orig) \in Nat
    BY StandsAt
  <2>2. r.optind \in optind..(Len(orig) + 1)
    BY <1>2, <2>1, LongOptionTakes DEF AsLong
  <2> QED
    BY <2>1, <2>2
<1>6. returns' = Append(returns, Result(r.code, r.arg)) /\ optind' = r.optind
  BY <1>2 DEF Found, Return
<1> QED
  BY <1>1, <1>3, <1>4, <1>5, <1>6, RightTaken

LEMMA RightWord == ASSUME ScanInv, RightInv, Word PROVE RightInv'
<1>1. /\ pc = "word" /\ nextchar = << >>
      /\ UNCHANGED <<argv, first_nonopt, last_nonopt, ordering, long_only, orig>>
  BY DEF Word, mode, segment, history, ScanInv, Scanning
<1>2. /\ Right(argv, first_nonopt, last_nonopt, optind, returns)
      /\ ordering = "PERMUTE" =>
            last_nonopt = optind /\ (optind = Argc \/ argv[optind].kind # "operand")
      /\ optind = Argc \/ argv[optind].kind # "dashes"
  BY <1>1 DEF RightInv, Operand
<1>3. /\ IsSeq(returns) /\ Len(argv') = Len(argv)
      /\ ordering # "PERMUTE" => first_nonopt = last_nonopt
  BY <1>1 DEF RightInv
<1>4. /\ Scannable(orig) /\ IsSeq(argv) /\ Len(argv) = Len(orig) /\ Len(orig) \in Nat
      /\ first_nonopt \in Nat /\ last_nonopt \in Nat /\ optind \in Nat
      /\ 1 <= first_nonopt /\ first_nonopt <= last_nonopt /\ last_nonopt <= optind
      /\ optind <= Len(orig) + 1 /\ Argc = Len(orig) + 1
      /\ \A j \in optind..Len(orig) : argv[j] = orig[j]
  BY <1>1, StandsAt
<1>5. CASE optind = Argc
  <2>1. /\ pc' = "done" /\ nextchar' = nextchar /\ returns' = returns
        /\ optind' = IF first_nonopt # last_nonopt THEN first_nonopt ELSE optind
    BY <1>1, <1>5 DEF Word, Finish
  <2>2. Ended(argv, first_nonopt, last_nonopt, optind, returns)
    BY <1>2, <1>3, <1>4, <1>5, RightAtEnd
  <2>3. first_nonopt <= optind
    BY <1>4
  <2>4. Over(argv, optind', returns)
    <3>1. CASE ordering = "PERMUTE"
      <4>1. Ended(argv, first_nonopt, optind, optind, returns)
        BY <1>2, <2>2, <3>1
      <4>2. Over(argv, first_nonopt, returns)
        BY <1>4, <2>3, <4>1, EndedBehind
      <4>3. optind' = first_nonopt
        BY <1>2, <2>1, <3>1
      <4> QED
        BY <4>2, <4>3
    <3>2. CASE ordering # "PERMUTE"
      <4>1. Ended(argv, first_nonopt, first_nonopt, optind, returns)
        BY <1>3, <2>2, <3>2
      <4>2. Over(argv, optind, returns)
        BY <1>4, <2>3, <4>1, EndedWithout
      <4>3. optind' = optind
        BY <1>3, <2>1, <3>2
      <4> QED
        BY <4>2, <4>3
    <3> QED
      BY <3>1, <3>2
  <2>5. Over(argv', optind', returns') /\ IsSeq(returns')
    BY <1>1, <1>3, <2>1, <2>4
  <2>6. nextchar' = << >>
    BY <1>1, <2>1
  <2> QED
    BY <1>1, <1>3, <2>1, <2>5, <2>6, RightThen
<1>6. CASE optind # Argc
  <2>1. /\ optind \in 1..Len(orig) /\ optind <= Len(orig) /\ optind <= Len(argv)
        /\ argv[optind] = orig[optind] /\ optind \in optind..Len(orig)
        /\ optind + 1 <= Len(argv) => argv[optind + 1] = orig[optind + 1]
    BY <1>4, <1>6
  <2>2. PICK element : element = argv[optind] /\ element = orig[optind]
    BY <2>1
  <2>3. element.kind # "dashes"
    BY <1>2, <1>6, <2>2
  <2>4. ASSUME NEW only
        PROVE  LongOptionResult(argv, element.chars, element.value, optind, only)
                    = LongOptionResult(orig, element.chars, element.value, optind, only)
    <3>1. PICK chars, value : chars = element.chars /\ value = element.value
      OBVIOUS
    <3>2. /\ Len(argv) = Len(orig) /\ argv[optind] = orig[optind]
          /\ optind + 1 <= Len(argv) => argv[optind + 1] = orig[optind + 1]
      BY <1>4, <2>1
    <3>3. LongOptionResult(argv, chars, value, optind, only)
             = LongOptionResult(orig, chars, value, optind, only)
      BY ONLY <3>2, LongOptionLooksAhead
    <3> QED
      BY <3>1, <3>3
  <2>5. AsLong(orig, optind)
           = LongOptionResult(argv, element.chars, element.value, optind, long_only)
    BY <2>2, <2>4 DEF AsLong
  <2>6. \/ /\ element.kind = "operand" /\ ordering = "REQUIRE_ORDER"
           /\ UNCHANGED <<optind, returns, nextchar>> /\ pc' = "done"
        \/ /\ element.kind = "operand" /\ ordering # "REQUIRE_ORDER"
           /\ optind' = optind + 1 /\ Return("1", <<"element", element.id>>)
           /\ UNCHANGED nextchar
        \/ /\ element.kind = "long" /\ UNCHANGED nextchar
           /\ Found(LongOptionResult(argv, element.chars, element.value, optind, long_only))
        \/ /\ element.kind = "short"
           /\ IF /\ long_only
                 /\ Len(element.chars) > 1 \/ element.chars[1] \notin DOMAIN Short
                 /\ LongOptionResult(argv, element.chars, element.value, optind, TRUE).code
                       # "no"
              THEN /\ Found(LongOptionResult(argv, element.chars, element.value, optind, TRUE))
                   /\ UNCHANGED nextchar
              ELSE /\ optind' = optind /\ nextchar' = element.chars
                   /\ pc' = "short" /\ UNCHANGED returns
    BY <1>6, <2>2 DEF Word
  <2>7. CASE /\ element.kind = "operand" /\ ordering = "REQUIRE_ORDER"
             /\ UNCHANGED <<optind, returns, nextchar>> /\ pc' = "done"
    <3>1. orig[optind].kind = "operand" /\ first_nonopt = last_nonopt /\ first_nonopt <= optind
      BY <1>3, <1>4, <2>2, <2>7
    <3>2. Ended(argv, first_nonopt, last_nonopt, optind, returns)
      BY <1>2, <1>3, <1>4, <2>1, <2>7, <3>1, RightAtOperand
    <3>3. Ended(argv, first_nonopt, first_nonopt, optind, returns)
      BY <3>1, <3>2
    <3>4. Over(argv, optind, returns)
      BY <1>4, <3>1, <3>3, EndedWithout
    <3>5. Over(argv', optind', returns') /\ IsSeq(returns') /\ nextchar' = << >>
      BY <1>1, <1>3, <2>7, <3>4
    <3> QED
      BY <1>1, <1>3, <2>7, <3>5, RightThen
  <2>8. CASE /\ element.kind = "operand" /\ ordering # "REQUIRE_ORDER"
             /\ optind' = optind + 1 /\ Return("1", <<"element", element.id>>)
             /\ UNCHANGED nextchar
    <3>1. ordering \notin {"REQUIRE_ORDER", "PERMUTE"}
      BY <1>2, <1>6, <2>2, <2>8
    <3>2. PICK e : e = Result("1", <<"element", element.id>>)
      OBVIOUS
    <3>3. Option(orig, optind).returns = <<e>> /\ Option(orig, optind).uses = 0
      BY <2>2, <2>8, <3>2 DEF Option, Taken
    <3>4. returns' = returns \o <<e>> /\ pc' = "call"
      BY <1>3, <2>8, <3>2, Appended DEF Return
    <3>5. returns' = returns \o Option(orig, optind).returns
      BY <3>3, <3>4
    <3>6. optind' = optind + 1 + Option(orig, optind).uses
      BY <1>4, <2>8, <3>3
    <3>7. nextchar' = << >> /\ orig[optind].kind # "dashes"
      BY <1>1, <2>2, <2>3, <2>8
    <3> QED
      BY <1>1, <1>2, <1>3, <2>1, <3>1, <3>4, <3>5, <3>6, <3>7, RightReturn
  <2>9. CASE /\ element.kind = "long" /\ UNCHANGED nextchar
             /\ Found(LongOptionResult(argv, element.chars, element.value, optind, long_only))
    <3>1. ReadAsLong(orig, optind)
      <4>1. AsLong(orig, optind).code # "no"
        <5>1. AsLong(orig, optind).code = "no" => orig[optind].kind = "short"
          BY <1>4, <2>1, LongOptionTakes DEF AsLong
        <5> QED
          BY <2>2, <2>9, <5>1
      <4> QED
        BY <2>2, <2>9, <4>1 DEF ReadAsLong
    <3>2. Found(AsLong(orig, optind)) /\ pc' = "call" /\ nextchar' = << >>
      BY <1>1, <2>5, <2>9 DEF Found, Return
    <3>3. orig[optind].kind \notin {"dashes", "operand"}
      BY <2>2, <2>9
    <3> QED
      BY <1>1, <2>1, <3>1, <3>2, <3>3, RightLong
  <2>10. CASE element.kind = "short" /\ ReadAsLong(orig, optind)
    <3>1. /\ long_only
          /\ Len(element.chars) > 1 \/ element.chars[1] \notin DOMAIN Short
          /\ AsLong(orig, optind).code # "no"
      BY <2>2, <2>10 DEF ReadAsLong
    <3>2. long_only = TRUE
      BY <3>1 DEF ScanInv, TypeOK
    <3>3. LongOptionResult(argv, element.chars, element.value, optind, TRUE)
             = AsLong(orig, optind)
      BY <2>5, <3>2
    <3>4. Found(AsLong(orig, optind)) /\ pc' = "call" /\ nextchar' = << >>
      BY <1>1, <2>6, <2>10, <3>1, <3>3 DEF Found, Return
    <3>5. orig[optind].kind \notin {"dashes", "operand"}
      BY <2>2, <2>10
    <3> QED
      BY <1>1, <2>1, <2>10, <3>4, <3>5, RightLong
  <2>11. CASE element.kind = "short" /\ ~ReadAsLong(orig, optind)
    <3>1. /\ optind' = optind /\ nextchar' = element.chars
          /\ pc' = "short" /\ UNCHANGED returns
      <4>1. long_only \in BOOLEAN
        BY DEF ScanInv, TypeOK
      <4>2. CASE long_only = TRUE
        <5>1. LongOptionResult(argv, element.chars, element.value, optind, TRUE)
                 = AsLong(orig, optind)
          BY <2>5, <4>2
        <5>2. ~(/\ Len(element.chars) > 1 \/ element.chars[1] \notin DOMAIN Short
                /\ AsLong(orig, optind).code # "no")
          BY <2>2, <2>11, <4>2 DEF ReadAsLong
        <5> QED
          BY <2>6, <2>11, <5>1, <5>2
      <4>3. CASE long_only = FALSE
        BY <2>6, <2>11, <4>3
      <4> QED
        BY <4>1, <4>2, <4>3
    <3>2. PICK chars : chars = element.chars
      OBVIOUS
    <3>3. chars \in Seq(Chars) /\ chars # << >>
      BY <1>4, <2>1, <2>2, <2>11, <3>2, ScanIs DEF Scannable, Element
    <3>4. 1 \in 1..Len(chars) /\ chars = SubSeq(chars, 1, Len(chars))
      BY <3>3
    <3>5. PlainReturns(chars, 1 - 1) = << >>
      BY DEF PlainReturns
    <3>6. returns = returns \o PlainReturns(chars, 1 - 1)
      BY <1>3, <3>5, JoinedEmpty
    <3>7. \A h \in 1..(1 - 1) : Plain(chars[h])
      OBVIOUS
    <3>8. \E k, given :
             /\ k \in 1..Len(orig[optind'].chars)
             /\ nextchar' = SubSeq(orig[optind'].chars, k, Len(orig[optind'].chars))
             /\ \A h \in 1..(k - 1) : Plain(orig[optind'].chars[h])
             /\ IsSeq(given)
             /\ returns' = given \o PlainReturns(orig[optind'].chars, k - 1)
             /\ Right(argv', first_nonopt', last_nonopt', optind', given)
      <4>1. orig[optind'].chars = chars
        BY <2>2, <3>1, <3>2
      <4>2. PICK one : one = 1
        OBVIOUS
      <4>3. /\ one \in 1..Len(chars) /\ nextchar' = SubSeq(chars, one, Len(chars))
            /\ \A h \in 1..(one - 1) : Plain(chars[h])
            /\ returns' = returns \o PlainReturns(chars, one - 1)
        BY <3>1, <3>2, <3>4, <3>6, <3>7, <4>2
      <4>4. Right(argv', first_nonopt', last_nonopt', optind', returns)
        BY <1>1, <1>2, <3>1
      <4> QED
        BY <1>3, <4>1, <4>3, <4>4
    <3>9. orig[optind'].kind = "short" /\ ~ReadAsLong(orig, optind')
      BY <2>2, <2>11, <3>1
    <3>10. /\ IsSeq(returns') /\ nextchar' # << >>
           /\ ordering # "PERMUTE" => first_nonopt' = last_nonopt'
      BY <1>1, <1>3, <3>1, <3>2, <3>3
    <3> QED
      BY <1>1, <1>3, <3>1, <3>8, <3>9, <3>10, RightThen
  <2> QED
    BY <2>6, <2>7, <2>8, <2>9, <2>10, <2>11
<1> QED
  BY <1>5, <1>6

\* What is left of a cluster behind a character.
LEMMA CharsLeft ==
    ASSUME NEW S, NEW chars \in Seq(S), NEW k \in 1..Len(chars), NEW left,
           left = SubSeq(chars, k, Len(chars))
    PROVE  /\ Head(left) = chars[k] /\ Tail(left) = SubSeq(chars, k + 1, Len(chars))
           /\ Tail(left) = << >> <=> k = Len(chars)
<1>1. k \in Nat /\ 1 <= k /\ k <= Len(chars) /\ Len(chars) \in Nat
  OBVIOUS
<1>2. left \in Seq(S) /\ Len(left) = Len(chars) + 1 - k /\ left # << >>
      /\ \A j \in 1..(Len(chars) + 1 - k) : left[j] = chars[k + j - 1]
  <2>1. left \in Seq(S) /\ Len(left) = Len(chars) + 1 - k
    BY <1>1
  <2>2. \A j \in 1..(Len(chars) + 1 - k) : left[j] = chars[k + j - 1]
    BY <1>1
  <2>3. Len(left) # 0
    BY <1>1, <2>1
  <2> QED
    BY <2>1, <2>2, <2>3
<1> DEFINE rest == SubSeq(chars, k + 1, Len(chars))
<1>3. rest \in Seq(S) /\ Len(rest) = Len(chars) - k
      /\ \A j \in 1..(Len(chars) - k) : rest[j] = chars[k + 1 + j - 1]
  BY <1>1
<1>4. Tail(left) \in Seq(S) /\ Len(Tail(left)) = Len(chars) - k
      /\ \A j \in 1..(Len(chars) - k) : Tail(left)[j] = left[j + 1]
  BY <1>1, <1>2
<1> HIDE DEF rest
<1>5. \A j \in 1..(Len(chars) - k) : Tail(left)[j] = rest[j]
  <2>1. \A j \in 1..(Len(chars) - k) :
           j + 1 \in 1..(Len(chars) + 1 - k) /\ k + (j + 1) - 1 = k + 1 + j - 1
    BY <1>1
  <2> QED
    BY <1>2, <1>3, <1>4, <2>1
<1>6. Tail(left) = rest
  <2>1. IsSeq(Tail(left)) /\ IsSeq(rest)
    BY <1>3, <1>4 DEF IsSeq
  <2> QED
    BY <1>3, <1>4, <1>5, <2>1, EqualSeqs
<1>7. Head(left) = chars[k]
  <2>1. 1 \in 1..(Len(chars) + 1 - k) /\ k + 1 - 1 = k
    BY <1>1
  <2> QED
    BY <1>2, <2>1
<1>8. Tail(left) = << >> <=> k = Len(chars)
  <2>1. PICK t : t = Tail(left)
    OBVIOUS
  <2>2. t \in Seq(S) /\ Len(t) = Len(chars) - k
    BY <1>4, <2>1
  <2>3. t = << >> <=> Len(t) = 0
    BY <2>2
  <2>4. Len(t) = 0 <=> k = Len(chars)
    BY <1>1, <2>2
  <2> QED
    BY <2>1, <2>3, <2>4
<1> QED
  BY <1>6, <1>7, <1>8 DEF rest

LEMMA PlainReturnsFurther ==
    ASSUME NEW chars, NEW k \in Nat \ {0}, NEW e,
           e = Result(IF chars[k] \in DOMAIN Short THEN chars[k] ELSE "?", None)
    PROVE  Append(PlainReturns(chars, k - 1), e) = PlainReturns(chars, k)
<1> DEFINE At1(h) == Result(IF chars[h] \in DOMAIN Short THEN chars[h] ELSE "?", None)
           S == {At1(h) : h \in 1..k}
           s == [h \in 1..(k - 1) |-> At1(h)]
           u == [h \in 1..k |-> At1(h)]
<1>1. PlainReturns(chars, k - 1) = s /\ PlainReturns(chars, k) = u
  BY DEF PlainReturns
<1>2. e = At1(k)
  OBVIOUS
<1>3. (\A h \in 1..k : At1(h) \in S) /\ k - 1 \in Nat /\ k \in 1..k
  OBVIOUS
<1> HIDE DEF At1, S
<1>4. s \in Seq(S) /\ u \in Seq(S) /\ Len(s) = k - 1 /\ Len(u) = k /\ e \in S
  BY <1>2, <1>3
<1>5. (\A h \in 1..(k - 1) : s[h] = At1(h)) /\ \A h \in 1..k : u[h] = At1(h)
  OBVIOUS
<1> HIDE DEF s, u
<1>6. Append(s, e) \in Seq(S) /\ Len(Append(s, e)) = k
      /\ \A h \in 1..k : Append(s, e)[h] = IF h = k THEN e ELSE s[h]
  BY <1>4
<1>7. \A h \in 1..k : h # k => h \in 1..(k - 1)
  OBVIOUS
<1>8. \A h \in 1..k : Append(s, e)[h] = u[h]
  BY <1>2, <1>5, <1>6, <1>7
<1>9. IsSeq(Append(s, e)) /\ IsSeq(u)
  BY <1>4, <1>6 DEF IsSeq
<1> QED
  BY <1>1, <1>4, <1>6, <1>8, <1>9, EqualSeqs

LEMMA EndingLooksAhead ==
    ASSUME NEW av, NEW bv, Len(av) = Len(bv), Len(av) \in Nat, NEW j \in 1..Len(av),
           \A h \in j..Len(av) : av[h] = bv[h], NEW k
    PROVE  Ending(av, j, k) = Ending(bv, j, k)
<1>1. ASSUME NEW h \in j..Len(av), NEW name, NEW value
      PROVE  LongOptionResult(av, name, value, h, FALSE)
                = LongOptionResult(bv, name, value, h, FALSE)
  <2>1. av[h] = bv[h] /\ (h + 1 <= Len(av) => av[h + 1] = bv[h + 1])
    BY <1>1
  <2> QED
    BY <2>1 DEF LongOptionResult
<1>2. /\ av[j] = bv[j] /\ j \in j..Len(av)
      /\ j # Len(av) => av[j + 1] = bv[j + 1] /\ j + 1 \in j..Len(av)
  OBVIOUS
<1>3. \A name, value : LongOptionResult(av, name, value, j, FALSE)
                          = LongOptionResult(bv, name, value, j, FALSE)
  BY <1>1, <1>2
<1>4. j # Len(av) => LongOptionResult(av, Name(av[j + 1]), av[j + 1].value, j + 1, FALSE)
                         = LongOptionResult(bv, Name(bv[j + 1]), bv[j + 1].value, j + 1, FALSE)
  BY <1>1, <1>2, ZenonT(30)
<1> QED
  BY <1>2, <1>3, <1>4 DEF Ending

\* A plain character returns itself; any other is the last of its cluster.
LEMMA ShortIs ==
    ASSUME ScanInv, ShortOption, NEW chars \in Seq(Chars), NEW k \in 1..Len(chars),
           argv[optind].chars = chars, nextchar = SubSeq(chars, k, Len(chars))
    PROVE  /\ Plain(chars[k]) =>
                 /\ returns' = Append(returns,
                       Result(IF chars[k] \in DOMAIN Short THEN chars[k] ELSE "?", None))
                 /\ nextchar' = SubSeq(chars, k + 1, Len(chars))
                 /\ k = Len(chars) => nextchar' = << >> /\ optind' = optind + 1
                 /\ k # Len(chars) => nextchar' # << >> /\ optind' = optind
           /\ ~Plain(chars[k]) =>
                 /\ nextchar' = << >> /\ optind' = Ending(argv, optind, k).optind
                 /\ returns' = Append(returns, Result(Ending(argv, optind, k).code,
                                                      Ending(argv, optind, k).arg))
<1>1. PICK c, rest :
         /\ c = Head(nextchar) /\ rest = Tail(nextchar) /\ c = chars[k]
         /\ rest = SubSeq(chars, k + 1, Len(chars)) /\ (rest = << >> <=> k = Len(chars))
  <2>1. /\ Head(nextchar) = chars[k] /\ Tail(nextchar) = SubSeq(chars, k + 1, Len(chars))
        /\ Tail(nextchar) = << >> <=> k = Len(chars)
    BY CharsLeft
  <2> QED
    BY <2>1
<1>2. PICK next : next = IF rest = << >> THEN optind + 1 ELSE optind
  OBVIOUS
<1>3. PICK takes : takes = IF c \in DOMAIN Short THEN Short[c] ELSE "unknown"
  OBVIOUS
<1>4. /\ Plain(c) <=> takes \in {"unknown", "none"}
      /\ ~Plain(c) => c \in DOMAIN Short /\ takes = Short[c]
                      /\ takes \in {"optional", "required", "W"}
      /\ c \in DOMAIN Short => takes # "unknown"
  BY <1>3, OptionAssumption DEF Plain, Takes
<1>5. \/ /\ takes \in {"unknown", "none"}
         /\ Return(IF takes = "unknown" THEN "?" ELSE c, None)
         /\ optind' = next /\ nextchar' = rest
      \/ /\ takes = "optional"
         /\ Return(c, IF rest = << >> THEN None ELSE <<"rest", Len(rest)>>)
         /\ optind' = optind + 1 /\ nextchar' = << >>
      \/ /\ takes = "required"
         /\ IF rest # << >>
            THEN Return(c, <<"rest", Len(rest)>>) /\ optind' = optind + 1
            ELSE IF next = Argc
            THEN Return(Missing, None) /\ optind' = next
            ELSE Return(c, <<"element", argv[next].id>>) /\ optind' = next + 1
         /\ nextchar' = << >>
      \/ /\ takes = "W"
         /\ IF rest # << >>
            THEN Found(LongOptionResult(argv, rest, FALSE, next, FALSE))
            ELSE IF next = Argc
            THEN Return(Missing, None) /\ optind' = next
            ELSE Found(LongOptionResult(argv, Name(argv[next]), argv[next].value, next, FALSE))
         /\ nextchar' = << >>
  BY <1>1, <1>2, <1>3 DEF ShortOption
<1>6. Plain(c) => /\ Return(IF c \in DOMAIN Short THEN c ELSE "?", None)
                  /\ optind' = next /\ nextchar' = rest
  BY <1>3, <1>4, <1>5
<1>7. Argc = Len(argv) + 1 /\ optind \in Nat /\ Len(argv) \in Nat
  BY ScanIs
<1>8. ASSUME ~Plain(c)
      PROVE  /\ optind' = Ending(argv, optind, k).optind
             /\ returns' = Append(returns, Result(Ending(argv, optind, k).code,
                                                  Ending(argv, optind, k).arg))
             /\ nextchar' = << >>
  <2> DEFINE Ends(code, arg, uses) == [code |-> code, arg |-> arg,
                                       optind |-> optind + 1 + uses]
             e == Ending(argv, optind, k)
             one == LongOptionResult(argv, rest, FALSE, optind, FALSE)
             two == LongOptionResult(argv, Name(argv[optind + 1]), argv[optind + 1].value,
                                     optind + 1, FALSE)
  <2>1. e = IF Short[c] = "optional"
            THEN Ends(c, IF rest = << >> THEN None ELSE <<"rest", Len(rest)>>, 0)
            ELSE IF rest = << >> /\ optind = Len(argv) THEN Ends(Missing, None, 0)
            ELSE IF Short[c] = "required"
            THEN IF rest # << >> THEN Ends(c, <<"rest", Len(rest)>>, 0)
                 ELSE Ends(c, <<"element", argv[optind + 1].id>>, 1)
            ELSE IF rest # << >> THEN one ELSE two
    BY <1>1 DEF Ending
  <2>2. \A code, arg :
           /\ Ends(code, arg, 0).optind = optind + 1
           /\ Ends(code, arg, 1).optind = optind + 1 + 1
           /\ \A uses : Ends(code, arg, uses).code = code /\ Ends(code, arg, uses).arg = arg
    BY <1>7
  <2>3. rest = << >> => (next = Argc <=> optind = Len(argv)) /\ next = optind + 1
    BY <1>2, <1>7
  <2>4. rest # << >> => next = optind
    BY <1>2
  <2> HIDE DEF e, Ends, one, two
  <2>5. CASE takes = "optional"
    BY <1>4, <1>5, <1>8, <2>1, <2>2, <2>5 DEF Return, e
  <2>6. CASE takes = "required"
    <3>1. CASE rest # << >>
      BY <1>4, <1>5, <1>8, <2>1, <2>2, <2>6, <3>1 DEF Return, e
    <3>2. CASE rest = << >> /\ optind = Len(argv)
      BY <1>4, <1>5, <1>8, <2>1, <2>2, <2>3, <2>6, <3>2 DEF Return, e
    <3>3. CASE rest = << >> /\ optind # Len(argv)
      BY <1>4, <1>5, <1>8, <2>1, <2>2, <2>3, <2>6, <3>3 DEF Return, e
    <3> QED
      BY <3>1, <3>2, <3>3
  <2>7. CASE takes = "W" /\ rest # << >>
    BY <1>4, <1>5, <1>8, <2>1, <2>4, <2>7 DEF Return, Found, e, one
  <2>8. CASE takes = "W" /\ rest = << >>
    <3>1. CASE optind = Len(argv)
      BY <1>4, <1>5, <1>8, <2>1, <2>2, <2>3, <2>8, <3>1 DEF Return, e
    <3>2. CASE optind # Len(argv)
      <4>1. e = two /\ Found(two)
        BY <1>4, <1>5, <1>8, <2>1, <2>3, <2>8, <3>2 DEF two
      <4> QED
        BY <1>5, <2>8, <4>1 DEF Return, Found, e
    <3> QED
      BY <3>1, <3>2
  <2> QED
    BY <1>4, <1>8, <2>5, <2>6, <2>7, <2>8
<1>9. (rest = << >> => next = optind + 1) /\ (rest # << >> => next = optind)
  BY <1>2
<1> QED
  BY <1>1, <1>6, <1>8, <1>9 DEF Return

LEMMA RightShortOption == ASSUME ScanInv, RightInv, ShortOption PROVE RightInv'
<1>1. /\ pc = "short" /\ nextchar # << >> /\ pc' = "call" /\ optind <= Len(argv)
      /\ UNCHANGED <<argv, first_nonopt, last_nonopt, ordering, long_only, orig>>
  <2>1. pc = "short" /\ nextchar # << >> /\ optind <= Len(argv)
    BY DEF ShortOption, ScanInv, Scanning
  <2>2. pc' = "call" /\ UNCHANGED <<argv, first_nonopt, last_nonopt, mode, history>>
    BY DEF ShortOption, Found, Return
  <2> QED
    BY <2>1, <2>2 DEF mode, history
<1>2. /\ Scannable(orig) /\ IsSeq(argv) /\ Len(argv) = Len(orig) /\ Len(orig) \in Nat
      /\ optind \in Nat /\ 1 <= optind /\ optind \in 1..Len(orig)
      /\ \A j \in optind..Len(orig) : argv[j] = orig[j]
  BY <1>1, StandsAt
<1>3. orig[optind].kind = "short" /\ ~ReadAsLong(orig, optind) /\ IsSeq(returns)
      /\ \E k, given : InCluster(k, given)
  BY <1>1 DEF RightInv
<1>4. PICK chars, k, given :
         /\ chars = orig[optind].chars /\ InCluster(k, given)
  BY <1>3
<1>5. /\ k \in 1..Len(chars) /\ nextchar = SubSeq(chars, k, Len(chars))
      /\ \A h \in 1..(k - 1) : Plain(chars[h])
      /\ IsSeq(given) /\ returns = given \o PlainReturns(chars, k - 1)
      /\ Right(argv, first_nonopt, last_nonopt, optind, given)
  BY <1>4 DEF InCluster
<1>6. /\ chars \in Seq(Chars) /\ argv[optind] = orig[optind] /\ argv[optind].chars = chars
      /\ Len(chars) \in Nat /\ k \in Nat \ {0} /\ k - 1 \in Nat
  <2>1. argv[optind] = orig[optind] /\ argv[optind].chars = chars
    BY <1>2, <1>4
  <2>2. orig[optind].chars \in Seq(Chars)
    <3>1. orig[optind] \in Element
      BY <1>2, <2>1, ScanIs
    <3> QED
      BY <3>1 DEF Element
  <2>3. chars \in Seq(Chars) /\ Len(chars) \in Nat
    BY <1>4, <2>2
  <2> QED
    BY <1>5, <2>1, <2>3
<1>7. PICK plain : plain = PlainReturns(chars, k - 1) /\ IsSeq(plain)
  BY <1>6, PlainReturnsAre
<1>8. returns = given \o plain
  BY <1>5, <1>7
<1>9. CASE Plain(chars[k])
  <2>1. PICK e : e = Result(IF chars[k] \in DOMAIN Short THEN chars[k] ELSE "?", None)
    OBVIOUS
  <2>2. /\ returns' = Append(returns, e) /\ nextchar' = SubSeq(chars, k + 1, Len(chars))
        /\ k = Len(chars) => nextchar' = << >> /\ optind' = optind + 1
        /\ k # Len(chars) => nextchar' # << >> /\ optind' = optind
    BY <1>5, <1>6, <1>9, <2>1, ShortIs
  <2>3. PICK longer : longer = PlainReturns(chars, k) /\ longer = Append(plain, e)
    BY <1>6, <1>7, <2>1, PlainReturnsFurther
  <2>4. returns' = given \o longer
    <3>1. Append(plain, e) = plain \o <<e>> /\ IsSeq(<<e>>) /\ Append(returns, e) = returns \o <<e>>
      BY <1>3, <1>7, Appended
    <3>2. PICK u : u = <<e>>
      OBVIOUS
    <3>3. IsSeq(given) /\ IsSeq(plain) /\ IsSeq(u)
      BY <1>5, <1>7, <3>1, <3>2
    <3>4. (given \o plain) \o u = given \o (plain \o u)
      BY ONLY <3>3, JoinedTwice
    <3> QED
      BY <1>8, <2>2, <2>3, <3>1, <3>2, <3>4
  <2>5. IsSeq(longer) /\ IsSeq(returns')
    <3>1. IsSeq(longer)
      BY <1>6, <2>3, PlainReturnsAre
    <3> QED
      BY <1>3, <2>2, <3>1, Appended
  <2>6. \A h \in 1..k : Plain(chars[h])
    <3>1. \A h \in 1..k : h = k \/ h \in 1..(k - 1)
      BY <1>6
    <3> QED
      BY <1>5, <1>9, <3>1
  <2>7. CASE k # Len(chars)
    <3>1. PICK next : next = k + 1
      OBVIOUS
    <3>2. next \in 1..Len(chars) /\ next - 1 = k
      BY <1>5, <1>6, <2>7, <3>1
    <3>3. optind' = optind /\ nextchar' # << >> /\ nextchar' = SubSeq(chars, next, Len(chars))
      BY <2>2, <2>7, <3>1
    <3>4. /\ next \in 1..Len(orig[optind'].chars)
          /\ nextchar' = SubSeq(orig[optind'].chars, next, Len(orig[optind'].chars))
          /\ \A h \in 1..(next - 1) : Plain(orig[optind'].chars[h])
          /\ returns' = given \o PlainReturns(orig[optind'].chars, next - 1)
      <4>1. orig[optind'].chars = chars
        BY <1>4, <3>3
      <4>2. \A h \in 1..(next - 1) : Plain(chars[h])
        BY <2>6, <3>2
      <4>3. returns' = given \o PlainReturns(chars, next - 1)
        BY <2>3, <2>4, <3>2
      <4> QED
        BY <3>2, <3>3, <4>1, <4>2, <4>3
    <3>5. IsSeq(given) /\ Right(argv', first_nonopt', last_nonopt', optind', given)
      BY <1>1, <1>5, <3>3
    <3>6. orig[optind'].kind = "short" /\ ~ReadAsLong(orig, optind')
      BY <1>3, <3>3
    <3>7. /\ Len(argv') = Len(argv) /\ nextchar' # << >>
          /\ ordering # "PERMUTE" => first_nonopt' = last_nonopt'
      BY <1>1, <3>3 DEF RightInv
    <3> QED
      BY <1>1, <2>5, <3>4, <3>5, <3>6, <3>7, RightThen
  <2>8. CASE k = Len(chars)
    <3>1. Cluster(orig, optind) = Taken(longer, 0)
      BY <1>4, <1>6, <2>3, <2>6, <2>8, ClusterIs
    <3>2. Option(orig, optind) = Taken(longer, 0)
      BY <1>3, <3>1 DEF Option
    <3>3. returns' = given \o Option(orig, optind).returns
      BY <2>4, <3>2 DEF Taken
    <3>4. optind' = optind + 1 + Option(orig, optind).uses /\ nextchar' = << >>
      BY <1>2, <2>2, <2>8, <3>2 DEF Taken
    <3> QED
      BY <1>1, <1>3, <1>5, <3>3, <3>4, RightReturn
  <2> QED
    BY <2>7, <2>8
<1>10. CASE ~Plain(chars[k])
  <2>1. PICK r : r = Ending(orig, optind, k)
    OBVIOUS
  <2>2. r = Ending(argv, optind, k)
    BY <1>2, <2>1, EndingLooksAhead
  <2>3. /\ nextchar' = << >> /\ optind' = r.optind
        /\ returns' = Append(returns, Result(r.code, r.arg))
    BY <1>5, <1>6, <1>10, <2>2, ShortIs
  <2>4. Cluster(orig, optind) = TakenBy(plain, r, optind)
    BY <1>4, <1>5, <1>6, <1>7, <1>10, <2>1, ClusterIs
  <2>5. Option(orig, optind) = TakenBy(plain, r, optind)
    BY <1>3, <2>4 DEF Option
  <2>6. r.optind \in Nat
    <3>1. r.optind \in (optind + 1)..(Len(orig) + 1)
      BY <1>2, <2>1, EndingIs
    <3> QED
      BY <1>2, <3>1
  <2>7. orig[optind].kind \notin {"dashes", "operand"} /\ pc \in {"word", "short"}
    BY <1>1, <1>3
  <2> QED
    BY <1>1, <1>5, <1>7, <1>8, <2>3, <2>5, <2>6, <2>7, RightTaken
<1> QED
  BY <1>9, <1>10

\* A scan begins with all of its command line ahead.
Begins ==
    /\ argv = orig /\ returns = << >> /\ nextchar = << >> /\ pc = "call"
    /\ optind = 1 /\ first_nonopt = 1 /\ last_nonopt = 1

LEMMA RightBegins == ScanInv /\ Begins => RightInv
<1> SUFFICES ASSUME ScanInv, Begins PROVE RightInv
  OBVIOUS
<1>1. Right(orig, 1, 1, 1, << >>)
  BY ScanIs, RightAtFirst
<1>2. IsSeq(<< >>)
  <2>1. << >> \in Seq({})
    OBVIOUS
  <2> QED
    BY <2>1 DEF IsSeq
<1> QED
  BY <1>1, <1>2 DEF RightInv, Begins

LEMMA RightScanAgain == ASSUME ScanInv, RightInv, ScanAgain PROVE RightInv'
<1>1. Begins'
  BY DEF ScanAgain, Begins
<1>2. ScanInv'
  BY StepScanAgain
<1> QED
  BY <1>1, <1>2, RightBegins, PTL

LEMMA InitRight == Init => RightInv
<1>1. Init => Begins
  BY DEF Init, Begins
<1> QED
  BY <1>1, InitScan, RightBegins

LEMMA RightStepHolds == ASSUME ScanInv, RightInv, [Next]_vars PROVE RightInv'
<1>1. CASE UNCHANGED vars
  <2>1. /\ UNCHANGED <<argv, optind, first_nonopt, last_nonopt, nextchar, ordering, long_only,
                       pc, bottom, middle, top, orig, returns>>
    BY <1>1 DEF vars, mode, segment, history
  <2>2. Rotated(argv', bottom', middle', top') = Rotated(argv, bottom, middle, top)
    BY <2>1
  <2>3. Len(argv) + 1 = Argc
    BY ScanIs
  <2>4. /\ Len(argv') = Len(argv) /\ IsSeq(returns')
        /\ ordering # "PERMUTE" /\ pc' \notin {"end", "done"} => first_nonopt' = last_nonopt'
        /\ pc' \in {"call", "advance", "dashes", "word"} /\ nextchar' = << >> =>
              Right(argv', first_nonopt', last_nonopt', optind', returns')
        /\ pc' \in {"dashes", "word"} /\ ordering = "PERMUTE" =>
              /\ last_nonopt' = optind'
              /\ optind' = Len(argv) + 1 \/ argv'[optind'].kind # "operand"
        /\ pc' = "word" => optind' = Len(argv) + 1 \/ argv'[optind'].kind # "dashes"
        /\ pc' = "skip" =>
              ordering = "PERMUTE" /\ Right(argv', first_nonopt', optind', optind', returns')
        /\ pc' = "end" => Over(argv', first_nonopt', returns')
        /\ pc' = "done" => Over(argv', optind', returns')
    BY <2>1, <2>3 DEF RightInv, Operand
  <2>5. /\ pc' = "exchange" =>
              /\ ordering = "PERMUTE"
              /\ Right(Rotated(argv', bottom', middle', top'),
                       first_nonopt' + (optind' - last_nonopt'), optind', optind', returns')
        /\ pc' = "exchange2" =>
              Over(Rotated(argv', bottom', middle', top'),
                   first_nonopt' + (optind' - last_nonopt'), returns')
    BY <2>1, <2>2 DEF RightInv
  <2>6. pc' \in {"call", "short"} /\ nextchar' # << >> =>
              /\ orig[optind'].kind = "short" /\ ~ReadAsLong(orig, optind')
              /\ \E k, given :
                    /\ k \in 1..Len(orig[optind'].chars)
                    /\ nextchar' = SubSeq(orig[optind'].chars, k, Len(orig[optind'].chars))
                    /\ \A h \in 1..(k - 1) : Plain(orig[optind'].chars[h])
                    /\ IsSeq(given)
                    /\ returns' = given \o PlainReturns(orig[optind'].chars, k - 1)
                    /\ Right(argv', first_nonopt', last_nonopt', optind', given)
    BY <2>1 DEF RightInv, InCluster
  <2> QED
    BY <2>1, <2>4, <2>5, <2>6, RightThen
<1> QED
  BY <1>1, RightCall, RightAdvance, RightExchange, RightSkip, RightDashes, RightEnd, RightWord,
     RightShortOption, RightScanAgain DEF Next

\* What the scan has come to is what the documentation says.
LEMMA OverIsRight ==
    ASSUME IsSeq(argv), Len(argv) = Len(orig), optind \in 1..(Len(argv) + 1),
           Over(argv, optind, returns)
    PROVE  Agrees(Reference(orig))
<1>1. PICK r : r = Reference(orig)
  OBVIOUS
<1>2. PICK n, o \in Nat : n = Len(argv) + 1 /\ o = optind /\ n \in Nat /\ Len(argv) \in Nat
  BY SeqsJoined
<1>3. r.returns = returns /\ r.front = Slice(argv, 1, o) /\ r.back = Slice(argv, o, n)
  BY <1>1, <1>2 DEF Over
<1>4. PICK one \in Nat : one = 1
  OBVIOUS
<1>5. one <= o /\ o <= n /\ one <= n /\ n <= Len(argv) + 1
  BY <1>2, <1>4
<1>6. Slice(argv, one, o) \o Slice(argv, o, n) = Slice(argv, one, n)
  <2>1. IsSeq(argv) /\ one \in Nat /\ o \in Nat /\ n \in Nat /\ 1 <= one
        /\ one <= o /\ o <= n /\ n <= Len(argv) + 1
    BY <1>2, <1>4, <1>5
  <2> QED
    BY ONLY <2>1, SlicesJoined
<1>7. IsSeq(Slice(argv, one, n)) /\ Len(Slice(argv, one, n)) = Len(argv)
      /\ \A j \in 1..Len(argv) : Slice(argv, one, n)[j] = argv[j]
  <2>1. IsSeq(Slice(argv, 1, n)) /\ Len(Slice(argv, 1, n)) = n - 1
        /\ \A j \in 1..(n - 1) : Slice(argv, 1, n)[j] = argv[j]
    BY <1>2, <1>4, <1>5, SlicedFromFirst
  <2> QED
    BY <1>2, <1>4, <2>1
<1>8. Slice(argv, one, n) = argv
  BY <1>7, EqualSeqs
<1>9. argv = r.front \o r.back
  BY <1>3, <1>4, <1>6, <1>8
<1>10. Len(r.front) = o - 1
  BY <1>2, <1>3, <1>4, <1>5, SlicedFromFirst
<1> QED
  BY <1>1, <1>2, <1>3, <1>9, <1>10, SMTT(30) DEF Agrees

LEMMA RightHolds == ScanInv /\ RightInv => ScanIsRight
<1> SUFFICES ASSUME ScanInv, RightInv, pc = "done" PROVE Agrees(Reference(orig))
  BY DEF ScanIsRight
<1>1. Over(argv, optind, returns)
  BY DEF RightInv
<1>2. IsSeq(argv)
  BY ScanIs DEF IsSeq
<1> QED
  BY <1>1, <1>2, ScanIs, OverIsRight

--------------------------------------------------------------------------------
(* A second scan: options in another place.                                *)

\* None of what was returned says that an argument was missing.
Clean(given) == \A k \in DOMAIN given : given[k].code # Missing

\* An option reads the same in another argv, if the element it is in and the one
\* it takes stand there in the same way.
LEMMA LongOptionShifts ==
    ASSUME NEW av, NEW bv, Len(av) \in Nat, Len(bv) \in Nat,
           NEW j \in 1..Len(av), NEW q \in 1..Len(bv), av[j] = bv[q],
           NEW name, NEW value, NEW only,
           NEW r, r = LongOptionResult(av, name, value, j, only), r.code # Missing,
           r.optind = j + 2 => q + 1 <= Len(bv) /\ bv[q + 1] = av[j + 1]
    PROVE  /\ LongOptionResult(bv, name, value, q, only).code = r.code
           /\ LongOptionResult(bv, name, value, q, only).arg = r.arg
           /\ LongOptionResult(bv, name, value, q, only).optind = q + (r.optind - j)
<1> DEFINE exact == {k \in DOMAIN Long : Long[k].name = name}
           abbreviated == {k \in DOMAIN Long : IsPrefix(name, Long[k].name)}
           found == IF exact # {} THEN Min(exact) ELSE Min(abbreviated)
           ambiguous == /\ exact = {}
                        /\ \E k \in abbreviated :
                              k # found /\ (only \/ Differ(k, found))
           code == IF Long[found].flag THEN "0" ELSE Long[found].val
           At0(c, arg, k) == [code |-> c, arg |-> arg, optind |-> k]
           s == LongOptionResult(bv, name, value, q, only)
<1>1. r = IF exact \union abbreviated = {}
          THEN IF only /\ av[j].kind = "short" /\ name[1] \in DOMAIN Short
               THEN At0("no", None, j) ELSE At0("?", None, j + 1)
          ELSE IF ambiguous THEN At0("?", None, j + 1)
          ELSE IF value
          THEN IF Long[found].has_arg = "none" THEN At0("?", None, j + 1)
               ELSE At0(code, <<"value">>, j + 1)
          ELSE IF Long[found].has_arg # "required" THEN At0(code, None, j + 1)
          ELSE IF j + 1 <= Len(av) THEN At0(code, <<"element", av[j + 1].id>>, j + 2)
          ELSE At0(Missing, None, j + 1)
  BY DEF LongOptionResult
<1>2. s = IF exact \union abbreviated = {}
          THEN IF only /\ bv[q].kind = "short" /\ name[1] \in DOMAIN Short
               THEN At0("no", None, q) ELSE At0("?", None, q + 1)
          ELSE IF ambiguous THEN At0("?", None, q + 1)
          ELSE IF value
          THEN IF Long[found].has_arg = "none" THEN At0("?", None, q + 1)
               ELSE At0(code, <<"value">>, q + 1)
          ELSE IF Long[found].has_arg # "required" THEN At0(code, None, q + 1)
          ELSE IF q + 1 <= Len(bv) THEN At0(code, <<"element", bv[q + 1].id>>, q + 2)
          ELSE At0(Missing, None, q + 1)
  BY DEF LongOptionResult
<1> HIDE DEF exact, abbreviated, found, ambiguous, code, s
<1>3. /\ j \in Int /\ q \in Int
      /\ q + (j - j) = q /\ q + ((j + 1) - j) = q + 1 /\ q + ((j + 2) - j) = q + 2
  OBVIOUS
<1>4. CASE exact \union abbreviated = {}
  BY <1>1, <1>2, <1>3, <1>4 DEF s
<1>5. CASE exact \union abbreviated # {} /\ ambiguous
  BY <1>1, <1>2, <1>3, <1>5 DEF s
<1>6. CASE exact \union abbreviated # {} /\ ~ambiguous /\ value
  <2>1. r = IF Long[found].has_arg = "none" THEN At0("?", None, j + 1)
            ELSE At0(code, <<"value">>, j + 1)
    BY ONLY <1>1, <1>6, Zenon
  <2>2. s = IF Long[found].has_arg = "none" THEN At0("?", None, q + 1)
            ELSE At0(code, <<"value">>, q + 1)
    BY ONLY <1>2, <1>6, Zenon
  <2> QED
    BY <1>3, <2>1, <2>2 DEF s
<1>7. CASE /\ exact \union abbreviated # {} /\ ~ambiguous /\ ~value
           /\ Long[found].has_arg # "required"
  <2>1. r = At0(code, None, j + 1)
    BY ONLY <1>1, <1>7, Zenon
  <2>2. s = At0(code, None, q + 1)
    BY ONLY <1>2, <1>7, Zenon
  <2> QED
    BY <1>3, <2>1, <2>2 DEF s
<1>8. CASE /\ exact \union abbreviated # {} /\ ~ambiguous /\ ~value
           /\ Long[found].has_arg = "required"
  <2>1. j + 1 <= Len(av)
    BY <1>1, <1>8
  <2>2. r = At0(code, <<"element", av[j + 1].id>>, j + 2)
    BY <1>1, <1>8, <2>1
  <2>3. q + 1 <= Len(bv) /\ bv[q + 1] = av[j + 1]
    BY <2>2
  <2>4. s = At0(code, <<"element", av[j + 1].id>>, q + 2)
    BY <1>2, <1>8, <2>3
  <2> QED
    BY <1>3, <2>2, <2>4 DEF s
<1> QED
  BY <1>4, <1>5, <1>6, <1>7, <1>8 DEF s

\* What is no long option here is none there.
LEMMA NoLongShifts ==
    ASSUME NEW av, NEW bv, Len(av) \in Nat, Len(bv) \in Nat,
           NEW j \in 1..Len(av), NEW q \in 1..Len(bv), av[j] = bv[q],
           NEW name, NEW value, NEW only,
           LongOptionResult(av, name, value, j, only).code = "no"
    PROVE  LongOptionResult(bv, name, value, q, only).code = "no"
<1>1. Missing # "no"
  BY DEF Missing
<1>2. PICK r : r = LongOptionResult(av, name, value, j, only)
  OBVIOUS
<1>3. r.code # Missing /\ r.optind = j
  BY <1>1, <1>2, LongOptionTakes
<1>4. j # j + 2
  OBVIOUS
<1> QED
  BY <1>2, <1>3, <1>4, LongOptionShifts

\* The end of a cluster reads the same.
LEMMA EndingShifts ==
    ASSUME NEW av, NEW bv, Len(av) \in Nat, Len(bv) \in Nat,
           NEW j \in 1..Len(av), NEW q \in 1..Len(bv), av[j] = bv[q], NEW k,
           NEW r, r = Ending(av, j, k), r.code # Missing,
           \A m \in 0..(r.optind - (j + 1)) : q + m <= Len(bv) /\ bv[q + m] = av[j + m]
    PROVE  /\ Ending(bv, q, k).code = r.code /\ Ending(bv, q, k).arg = r.arg
           /\ Ending(bv, q, k).optind = q + (r.optind - j)
<1> DEFINE c == av[j].chars[k]
           rest == SubSeq(av[j].chars, k + 1, Len(av[j].chars))
           one(w, h) == LongOptionResult(w, rest, FALSE, h, FALSE)
           two(w, h) == LongOptionResult(w, Name(w[h + 1]), w[h + 1].value, h + 1, FALSE)
           Ends(h, code, arg, uses) == [code |-> code, arg |-> arg, optind |-> h + 1 + uses]
<1>0. PICK s : s = Ending(bv, q, k)
  OBVIOUS
<1> SUFFICES s.code = r.code /\ s.arg = r.arg /\ s.optind = q + (r.optind - j)
  BY <1>0
<1>1. r = IF Short[c] = "optional"
          THEN Ends(j, c, IF rest = << >> THEN None ELSE <<"rest", Len(rest)>>, 0)
          ELSE IF rest = << >> /\ j = Len(av) THEN Ends(j, Missing, None, 0)
          ELSE IF Short[c] = "required"
          THEN IF rest # << >> THEN Ends(j, c, <<"rest", Len(rest)>>, 0)
               ELSE Ends(j, c, <<"element", av[j + 1].id>>, 1)
          ELSE IF rest # << >> THEN one(av, j) ELSE two(av, j)
  BY DEF Ending
<1>2. s = IF Short[c] = "optional"
          THEN Ends(q, c, IF rest = << >> THEN None ELSE <<"rest", Len(rest)>>, 0)
          ELSE IF rest = << >> /\ q = Len(bv) THEN Ends(q, Missing, None, 0)
          ELSE IF Short[c] = "required"
          THEN IF rest # << >> THEN Ends(q, c, <<"rest", Len(rest)>>, 0)
               ELSE Ends(q, c, <<"element", bv[q + 1].id>>, 1)
          ELSE IF rest # << >> THEN one(bv, q) ELSE two(bv, q)
  BY <1>0 DEF Ending
<1>3. /\ j \in Int /\ q \in Int /\ j + 1 + 0 = j + 1 /\ q + 1 + 0 = q + 1
      /\ (j + 1 + 0) - (j + 1) = 0 /\ (q + 1 + 0) - (q + 1) = 0
      /\ (j + 1 + 1) - (j + 1) = 1 /\ (q + 1 + 1) - (q + 1) = 1
      /\ q + ((j + 1 + 0) - j) = q + 1 + 0 /\ q + ((j + 1 + 1) - j) = q + 1 + 1
  <2>1. j \in Int /\ q \in Int
    OBVIOUS
  <2> QED
    BY ONLY <2>1
<1>4. ASSUME NEW code, NEW arg, NEW uses
      PROVE  /\ Ends(j, code, arg, uses).code = code /\ Ends(q, code, arg, uses).code = code
             /\ Ends(j, code, arg, uses).arg = arg /\ Ends(q, code, arg, uses).arg = arg
             /\ Ends(j, code, arg, uses).optind = j + 1 + uses
             /\ Ends(q, code, arg, uses).optind = q + 1 + uses
  OBVIOUS
<1> HIDE DEF c, rest, one, two, Ends
<1>5. CASE Short[c] = "optional"
  <2>1. PICK arg : /\ r = Ends(j, c, arg, 0) /\ s = Ends(q, c, arg, 0)
    BY ONLY <1>1, <1>2, <1>5
  <2> QED
    BY <1>3, <1>4, <2>1
<1>6. CASE Short[c] # "optional" /\ rest # << >> /\ Short[c] = "required"
  <2>1. PICK arg : /\ r = Ends(j, c, arg, 0) /\ s = Ends(q, c, arg, 0)
    BY ONLY <1>1, <1>2, <1>6
  <2> QED
    BY <1>3, <1>4, <2>1
<1>7. CASE Short[c] # "optional" /\ rest # << >> /\ Short[c] # "required"
  <2>1. r = one(av, j) /\ s = one(bv, q)
    BY ONLY <1>1, <1>2, <1>7
  <2>0. PICK no : no = FALSE
    OBVIOUS
  <2>2. r = LongOptionResult(av, rest, no, j, no) /\ one(bv, q) = LongOptionResult(bv, rest, no, q, no)
    BY <2>0, <2>1 DEF one
  <2>3. r.optind \in (j + 1)..(Len(av) + 1)
    BY <2>0, <2>2, NotOnlyTakes
  <2>4. ASSUME r.optind = j + 2 PROVE q + 1 <= Len(bv) /\ bv[q + 1] = av[j + 1]
    <3>1. 1 \in 0..(r.optind - (j + 1))
      BY <1>3, <2>4
    <3> QED
      BY <3>1
  <2>5. /\ one(bv, q).code = r.code /\ one(bv, q).arg = r.arg
        /\ one(bv, q).optind = q + (r.optind - j)
    BY <2>2, <2>4, LongOptionShifts
  <2> QED
    BY ONLY <2>1, <2>5
<1>8. CASE Short[c] # "optional" /\ rest = << >>
  <2>1. j # Len(av)
    <3>1. ASSUME j = Len(av) PROVE FALSE
      <4>1. r = Ends(j, Missing, None, 0)
        BY ONLY <1>1, <1>8, <3>1
      <4> QED
        BY <1>4, <4>1
    <3> QED
      BY <3>1
  <2>2. j + 1 \in 1..Len(av)
    BY <2>1
  <2>3. CASE Short[c] = "required"
    <3>1. r = Ends(j, c, <<"element", av[j + 1].id>>, 1)
      BY ONLY <1>1, <1>8, <2>1, <2>3
    <3>2. 1 \in 0..(r.optind - (j + 1))
      BY <1>3, <1>4, <3>1
    <3>3. q + 1 <= Len(bv) /\ bv[q + 1] = av[j + 1]
      BY <3>2
    <3>4. q # Len(bv)
      BY <3>3
    <3>5. s = Ends(q, c, <<"element", av[j + 1].id>>, 1)
      BY ONLY <1>2, <1>8, <2>3, <3>3, <3>4
    <3> QED
      BY <1>3, <1>4, <3>1, <3>5
  <2>4. CASE Short[c] # "required"
    <3>1. r = two(av, j)
      BY ONLY <1>1, <1>8, <2>1, <2>4
    <3>2. PICK name, value, no : name = Name(av[j + 1]) /\ value = av[j + 1].value /\ no = FALSE
      OBVIOUS
    <3>3. r = LongOptionResult(av, name, value, j + 1, no)
      BY <3>1, <3>2 DEF two
    <3>4. r.optind \in ((j + 1) + 1)..(Len(av) + 1)
      BY <2>2, <3>2, <3>3, NotOnlyTakes
    <3>5. 1 \in 0..(r.optind - (j + 1))
      BY <3>4
    <3>6. q + 1 <= Len(bv) /\ bv[q + 1] = av[j + 1]
      BY <3>5
    <3>7. q # Len(bv) /\ q + 1 \in 1..Len(bv)
      BY <3>6
    <3>8. s = two(bv, q)
      BY ONLY <1>2, <1>8, <2>4, <3>7
    <3>9. two(bv, q) = LongOptionResult(bv, name, value, q + 1, no)
      BY <3>2, <3>6 DEF two
    <3>10. PICK j1, q1 : j1 = j + 1 /\ q1 = q + 1
      OBVIOUS
    <3>11. ASSUME r.optind = j1 + 2 PROVE q1 + 1 <= Len(bv) /\ bv[q1 + 1] = av[j1 + 1]
      <4>1. 2 \in 0..(r.optind - (j + 1)) /\ q1 + 1 = q + 2 /\ j1 + 1 = j + 2
        BY <3>10, <3>11
      <4> QED
        BY <4>1
    <3>12. /\ LongOptionResult(bv, name, value, q1, no).code = r.code
           /\ LongOptionResult(bv, name, value, q1, no).arg = r.arg
           /\ LongOptionResult(bv, name, value, q1, no).optind = q1 + (r.optind - j1)
      <4>1. j1 \in 1..Len(av) /\ q1 \in 1..Len(bv) /\ av[j1] = bv[q1]
            /\ r = LongOptionResult(av, name, value, j1, no)
        BY <2>2, <3>3, <3>6, <3>7, <3>10
      <4> QED
        BY <3>11, <4>1, LongOptionShifts
    <3>13. q1 + (r.optind - j1) = q + (r.optind - j)
      <4>1. PICK o : o = r.optind
        OBVIOUS
      <4>2. o \in Int
        BY ONLY <3>4, <4>1, <1>3
      <4>3. j \in Int /\ q \in Int
        BY ONLY <1>3
      <4>4. q1 + (o - j1) = q + (o - j)
        BY ONLY <3>10, <4>2, <4>3
      <4> QED
        BY ONLY <4>1, <4>4
    <3> QED
      BY ONLY <3>8, <3>9, <3>10, <3>12, <3>13
  <2> QED
    BY <2>3, <2>4
<1> QED
  BY <1>5, <1>6, <1>7, <1>8

\* An option that returns the same and takes as many elements.
LEMMA TakenShifts ==
    ASSUME NEW p, NEW r, NEW s, NEW j \in Int, NEW q \in Int, r.optind \in Int,
           s.code = r.code, s.arg = r.arg, s.optind = q + (r.optind - j)
    PROVE  TakenBy(p, s, q) = TakenBy(p, r, j)
<1>1. PICK o \in Int : o = r.optind
  OBVIOUS
<1>2. PICK t \in Int : t = q + (o - j)
  BY <1>1
<1>3. s.optind = t
  BY ONLY <1>1, <1>2, s.optind = q + (r.optind - j)
<1>4. t - (q + 1) = o - (j + 1)
  BY <1>2
<1>5. s.optind - (q + 1) = r.optind - (j + 1)
  BY ONLY <1>1, <1>3, <1>4
<1> QED
  BY <1>5 DEF TakenBy

\* If nothing lacked its argument, the last option did not.
LEMMA LastIsClean ==
    ASSUME NEW p, IsSeq(p), NEW code, NEW arg, Clean(Append(p, Result(code, arg)))
    PROVE  code # Missing
<1>1. PICK e : e = Result(code, arg)
  OBVIOUS
<1>2. PICK S : p \in Seq(S)
  BY DEF IsSeq
<1> DEFINE V == S \union {e}
<1>3. p \in Seq(V) /\ e \in V
  BY <1>2
<1> HIDE DEF V
<1>4. Len(p) + 1 \in DOMAIN Append(p, e) /\ Append(p, e)[Len(p) + 1] = e
  BY <1>3
<1>5. Append(p, e)[Len(p) + 1].code # Missing
  BY <1>1, <1>4 DEF Clean
<1>6. e.code = code
  BY <1>1 DEF Result
<1> QED
  BY <1>4, <1>5, <1>6

\* The elements from j to j + uses stand in bv from q on.
StandIn(av, j, bv, q, uses) ==
    \A m \in 0..uses : q + m <= Len(bv) /\ bv[q + m] = av[j + m]

LEMMA OptionShifts ==
    ASSUME NEW av, Scannable(av), NEW bv, Scannable(bv),
           NEW j \in 1..Len(av), NEW q \in 1..Len(bv),
           StandIn(av, j, bv, q, Option(av, j).uses), Clean(Option(av, j).returns)
    PROVE  Option(bv, q) = Option(av, j)
<1>1. /\ Len(av) \in Nat /\ av[j] \in Element /\ Len(bv) \in Nat /\ bv[q] \in Element
      /\ j \in Int /\ q \in Int
  BY DEF Scannable
<1>2. Option(av, j).uses \in Nat
  <2>1. Option(av, j).uses \in 0..(Len(av) - j)
    BY OptionIs
  <2> QED
    BY <2>1
<1>3. bv[q] = av[j]
  <2>1. 0 \in 0..Option(av, j).uses /\ q + 0 = q /\ j + 0 = j
    BY <1>1, <1>2
  <2> QED
    BY <2>1 DEF StandIn
<1>4. ASSUME NEW r, NEW s, NEW p, IsSeq(p), Option(av, j) = TakenBy(p, r, j),
             r.optind \in Int
      PROVE  /\ r.code # Missing
             /\ \A m \in 0..(r.optind - (j + 1)) : q + m <= Len(bv) /\ bv[q + m] = av[j + m]
  <2>1. /\ Option(av, j).uses = r.optind - (j + 1)
        /\ Option(av, j).returns = Append(p, Result(r.code, r.arg))
    BY <1>4 DEF TakenBy, Taken
  <2>2. r.code # Missing
    BY <1>4, <2>1, LastIsClean
  <2> QED
    BY <2>1, <2>2 DEF StandIn
<1>5. CASE av[j].kind = "operand"
  BY <1>3, <1>5 DEF Option
<1>6. CASE av[j].kind # "operand" /\ ReadAsLong(av, j)
  <2>1. PICK r, s : r = AsLong(av, j) /\ s = AsLong(bv, q)
    OBVIOUS
  <2>2. r.optind \in j..(Len(av) + 1) /\ r.optind \in Int
    <3>1. r.optind \in j..(Len(av) + 1)
      BY <1>1, <2>1, LongOptionTakes DEF AsLong
    <3> QED
      BY <1>1, <3>1
  <2>3. Option(av, j) = TakenBy(<< >>, r, j) /\ r.code # "no"
    BY <1>6, <2>1 DEF Option, ReadAsLong
  <2>4. IsSeq(<< >>)
    <3>1. << >> \in Seq({1})
      OBVIOUS
    <3> QED
      BY <3>1 DEF IsSeq
  <2>5. /\ r.code # Missing
        /\ \A m \in 0..(r.optind - (j + 1)) : q + m <= Len(bv) /\ bv[q + m] = av[j + m]
    BY <1>4, <2>2, <2>3, <2>4
  <2>6. ASSUME r.optind = j + 2 PROVE q + 1 <= Len(bv) /\ bv[q + 1] = av[j + 1]
    <3>1. 1 \in 0..(r.optind - (j + 1))
      <4>1. (j + 2) - (j + 1) = 1
        BY <1>1
      <4> QED
        BY <2>6, <4>1
    <3> QED
      BY <2>5, <3>1
  <2>7. PICK name, value : name = av[j].chars /\ value = av[j].value
    OBVIOUS
  <2>8. /\ r = LongOptionResult(av, name, value, j, long_only)
        /\ s = LongOptionResult(bv, name, value, q, long_only)
    BY <1>3, <2>1, <2>7 DEF AsLong
  <2>9. s.code = r.code /\ s.arg = r.arg /\ s.optind = q + (r.optind - j)
    BY <1>1, <1>3, <2>5, <2>6, <2>8, LongOptionShifts
  <2>10. ReadAsLong(bv, q)
    BY <1>3, <1>6, <2>1, <2>3, <2>9 DEF ReadAsLong
  <2>11. Option(bv, q) = TakenBy(<< >>, s, q)
    BY <1>3, <1>6, <2>1, <2>10 DEF Option
  <2> QED
    BY <1>1, <2>2, <2>3, <2>9, <2>11, TakenShifts
<1>7. CASE av[j].kind # "operand" /\ ~ReadAsLong(av, j)
  <2>1. ~ReadAsLong(bv, q)
    <3>1. ASSUME AsLong(av, j).code = "no" PROVE AsLong(bv, q).code = "no"
      <4>1. PICK name, value : name = av[j].chars /\ value = av[j].value
        OBVIOUS
      <4>2. /\ AsLong(av, j) = LongOptionResult(av, name, value, j, long_only)
            /\ AsLong(bv, q) = LongOptionResult(bv, name, value, q, long_only)
        BY <1>3, <4>1 DEF AsLong
      <4> QED
        BY <1>1, <1>3, <3>1, <4>2, NoLongShifts
    <3> QED
      BY <1>3, <1>7, <3>1 DEF ReadAsLong
  <2>2. Option(av, j) = Cluster(av, j) /\ Option(bv, q) = Cluster(bv, q)
    BY <1>3, <1>7, <2>1 DEF Option
  <2>3. PICK chars : chars = av[j].chars
    OBVIOUS
  <2>4. chars = bv[q].chars /\ Len(chars) \in Nat
    BY <1>1, <1>3, <2>3 DEF Element
  <2>5. CASE \A h \in 1..Len(chars) : Plain(chars[h])
    BY <2>2, <2>3, <2>4, <2>5, ClusterIs
  <2>6. CASE ~\A h \in 1..Len(chars) : Plain(chars[h])
    <3> DEFINE S == {k \in 1..Len(chars) : ~Plain(chars[k])}
    <3>1. S \in SUBSET Nat /\ S # {}
      BY <2>6
    <3>2. PICK k : k \in S /\ \A y \in S : k <= y
      <4> HIDE DEF S
      <4> QED
        BY <3>1, LeastOf
    <3>3. k \in 1..Len(chars) /\ ~Plain(chars[k]) /\ k - 1 \in Nat
      BY <2>4, <3>2
    <3>4. \A h \in 1..(k - 1) : Plain(chars[h])
      <4>1. ASSUME NEW h \in 1..(k - 1) PROVE h \in 1..Len(chars) /\ ~(k <= h)
        BY <2>4, <3>3
      <4> QED
        BY <3>2, <4>1
    <3>5. PICK p, r, s : /\ p = PlainReturns(chars, k - 1)
                         /\ r = Ending(av, j, k) /\ s = Ending(bv, q, k)
      OBVIOUS
    <3>6. Cluster(av, j) = TakenBy(p, r, j) /\ Cluster(bv, q) = TakenBy(p, s, q)
      BY <2>3, <2>4, <3>3, <3>4, <3>5, ClusterIs
    <3>7. IsSeq(p)
      BY <3>3, <3>5, PlainReturnsAre
    <3>8. r.optind \in (j + 1)..(Len(av) + 1) /\ r.optind \in Int
      <4>1. r.optind \in (j + 1)..(Len(av) + 1)
        BY <1>1, <3>5, EndingIs
      <4> QED
        BY <1>1, <4>1
    <3>9. /\ r.code # Missing
          /\ \A m \in 0..(r.optind - (j + 1)) : q + m <= Len(bv) /\ bv[q + m] = av[j + m]
      BY <1>4, <2>2, <3>6, <3>7, <3>8
    <3>10. s.code = r.code /\ s.arg = r.arg /\ s.optind = q + (r.optind - j)
      BY <1>1, <1>3, <3>5, <3>9, EndingShifts
    <3> QED
      BY <1>1, <2>2, <3>6, <3>8, <3>10, TakenShifts
  <2> QED
    BY <2>5, <2>6
<1> QED
  BY <1>5, <1>6, <1>7

--------------------------------------------------------------------------------
(* A second scan: what it comes to.                                        *)

Rest(w, q) == Slice(w, q, Len(w) + 1)

\* The elements from q on.
LEMMA RestIs ==
    ASSUME NEW w, IsSeq(w), NEW q \in 1..(Len(w) + 1)
    PROVE  /\ IsSeq(Rest(w, q)) /\ Len(Rest(w, q)) = Len(w) + 1 - q
           /\ \A m \in 1..(Len(w) + 1 - q) : Rest(w, q)[m] = w[q + m - 1]
<1>1. Len(w) \in Nat
  BY SeqsJoined
<1>2. q \in Nat /\ Len(w) + 1 \in Nat /\ 1 <= q /\ q <= Len(w) + 1 
  BY <1>1
<1>3. PICK e \in Nat : e = Len(w) + 1
  BY <1>2
<1>4. q <= e /\ e <= Len(w) + 1
  BY <1>1, <1>2, <1>3
<1>5. /\ IsSeq(Slice(w, q, e)) /\ Len(Slice(w, q, e)) = e - q
      /\ \A m \in 1..(e - q) : Slice(w, q, e)[m] = w[q + m - 1]
  BY <1>2, <1>4, Sliced
<1> QED
  BY <1>3, <1>5 DEF Rest

\* The first of them.
LEMMA RestsFirst ==
    ASSUME NEW w, IsSeq(w), NEW q \in 1..Len(w)
    PROVE  Rest(w, q) = <<w[q]>> \o Rest(w, q + 1)
<1>1. Len(w) \in Nat
  BY SeqsJoined
<1>2. q \in 1..(Len(w) + 1) /\ q + 1 \in 1..(Len(w) + 1) /\ q \in Nat
  BY <1>1
<1> DEFINE x == <<w[q]>>
           y == Rest(w, q + 1)
           z == Rest(w, q)
<1>3. /\ IsSeq(z) /\ Len(z) = Len(w) + 1 - q
      /\ \A m \in 1..(Len(w) + 1 - q) : z[m] = w[q + m - 1]
  BY <1>2, RestIs
<1>4. /\ IsSeq(y) /\ Len(y) = Len(w) + 1 - (q + 1)
      /\ \A m \in 1..(Len(w) + 1 - (q + 1)) : y[m] = w[(q + 1) + m - 1]
  BY <1>2, RestIs
<1>5. << >> \in Seq({1})
  OBVIOUS
<1>6. IsSeq(x) /\ Len(x) = 1 /\ x[1] = w[q]
  BY <1>5, Appended DEF IsSeq
<1> HIDE DEF x, y, z
<1>7. /\ IsSeq(x \o y) /\ Len(x \o y) = Len(x) + Len(y)
      /\ \A m \in 1..(Len(x) + Len(y)) :
            (x \o y)[m] = IF m <= Len(x) THEN x[m] ELSE y[m - Len(x)]
  BY <1>4, <1>6, SeqsJoined
<1>8. Len(x) + Len(y) = Len(w) + 1 - q
  BY <1>1, <1>2, <1>4, <1>6
<1>9. ASSUME NEW m \in 1..(Len(w) + 1 - q) PROVE (x \o y)[m] = z[m]
  <2>1. CASE m = 1
    <3>1. (x \o y)[m] = w[q]
      BY <1>6, <1>7, <1>8, <2>1
    <3>2. q + m - 1 = q
      BY <1>2, <2>1
    <3> QED
      BY <1>3, <3>1, <3>2
  <2>2. CASE m # 1
    <3>1. /\ m - 1 \in 1..(Len(w) + 1 - (q + 1)) /\ (q + 1) + (m - 1) - 1 = q + m - 1
          /\ ~(m <= 1)
      BY <1>1, <1>2, <2>2
    <3>2. (x \o y)[m] = y[m - 1]
      BY <1>6, <1>7, <1>8, <3>1
    <3> QED
      BY <1>3, <1>4, <3>1, <3>2
  <2> QED
    BY <2>1, <2>2
<1>10. x \o y = z
  BY <1>3, <1>7, <1>8, <1>9, EqualSeqs
<1> QED
  BY <1>10 DEF x, y, z

\* What stands in two parts from q on: where the parts stand.
LEMMA RestParts ==
    ASSUME NEW w, IsSeq(w), NEW q \in 1..(Len(w) + 1), NEW x, NEW y, IsSeq(x), IsSeq(y),
           Rest(w, q) = x \o y
    PROVE  /\ q + Len(x) \in 1..(Len(w) + 1) /\ Rest(w, q + Len(x)) = y
           /\ \A m \in 1..Len(x) : q + m - 1 \in 1..Len(w) /\ w[q + m - 1] = x[m]
<1>1. /\ IsSeq(x \o y) /\ Len(x) \in Nat /\ Len(y) \in Nat /\ Len(x \o y) = Len(x) + Len(y)
      /\ \A j \in 1..(Len(x) + Len(y)) :
            (x \o y)[j] = IF j <= Len(x) THEN x[j] ELSE y[j - Len(x)]
  BY SeqsJoined
<1>2. Len(w) \in Nat /\ q \in Nat
  <2>1. Len(w) \in Nat
    BY SeqsJoined
  <2> QED
    BY <2>1
<1>3. PICK z : z = x \o y /\ z = Rest(w, q)
  OBVIOUS
<1>4. /\ Len(z) = Len(w) + 1 - q
      /\ \A m \in 1..(Len(w) + 1 - q) : z[m] = w[q + m - 1]
  <2>1. /\ Len(Rest(w, q)) = Len(w) + 1 - q
        /\ \A m \in 1..(Len(w) + 1 - q) : Rest(w, q)[m] = w[q + m - 1]
    BY RestIs
  <2> QED
    BY ONLY <1>3, <2>1
<1>5. PICK a \in Nat, b \in Nat : a = Len(x) /\ b = Len(y)
  BY <1>1
<1>6. a + b = Len(w) + 1 - q
  BY <1>1, <1>3, <1>4, <1>5
<1>7. \A j \in 1..(a + b) : z[j] = IF j <= a THEN x[j] ELSE y[j - a]
  BY <1>1, <1>3, <1>5
<1>8. q + a \in 1..(Len(w) + 1) /\ Len(w) + 1 - (q + a) = b
  BY <1>2, <1>6
<1>9. /\ IsSeq(Rest(w, q + a)) /\ Len(Rest(w, q + a)) = b
      /\ \A m \in 1..b : Rest(w, q + a)[m] = w[(q + a) + m - 1]
  BY <1>8, RestIs
<1>10. ASSUME NEW m \in 1..b PROVE Rest(w, q + a)[m] = y[m]
  <2>1. /\ a + m \in 1..(a + b) /\ ~(a + m <= a) /\ (a + m) - a = m
        /\ q + (a + m) - 1 = (q + a) + m - 1
    BY <1>2, <1>5
  <2>2. z[a + m] = y[m]
    BY <1>7, <2>1
  <2>3. z[a + m] = w[(q + a) + m - 1]
    BY <1>4, <1>6, <2>1
  <2> QED
    BY <1>9, <2>2, <2>3
<1>11. Rest(w, q + a) = y
  BY <1>5, <1>9, <1>10, EqualSeqs
<1>12. ASSUME NEW m \in 1..a PROVE q + m - 1 \in 1..Len(w) /\ w[q + m - 1] = x[m]
  <2>1. m \in 1..(a + b) /\ m <= a /\ q + m - 1 \in 1..Len(w)
    BY <1>2, <1>5, <1>6
  <2> QED
    BY <1>4, <1>6, <1>7, <2>1
<1> QED
  BY <1>5, <1>8, <1>11, <1>12

\* Where only operands are left, nothing more is returned.
LEMMA OperandsLeft ==
    ASSUME ordering = "PERMUTE", NEW w, Scannable(w), NEW q \in 1..(Len(w) + 1),
           \A k \in q..Len(w) : w[k].kind = "operand"
    PROVE  Outcomes(w)[q] = [returns |-> << >>, front |-> << >>, back |-> Rest(w, q)]
<1> DEFINE n == Len(w)
           Left(h) == Outcomes(w)[h] = [returns |-> << >>, front |-> << >>, back |-> Rest(w, h)]
           P == {m \in 0..n : n + 1 - m >= q => Left(n + 1 - m)}
<1>1. n \in Nat /\ IsSeq(w)
  BY DEF Scannable, IsSeq
<1>2. 0 \in P
  <2>1. n + 1 \in 1..(n + 2) /\ n + 1 > n /\ n + 1 - 0 = n + 1 /\ n + 1 \in Nat
    BY <1>1
  <2>2. Outcomes(w)[n + 1] = [returns |-> << >>, front |-> << >>, back |-> << >>]
    BY <2>1, OutcomesAre DEF Outcome
  <2>3. Rest(w, n + 1) = << >>
    BY <2>1, NoSlice DEF Rest
  <2> HIDE DEF n
  <2> QED
    BY <1>1, <2>1, <2>2, <2>3
<1>3. ASSUME NEW m \in 0..n, m \in P, m < n PROVE m + 1 \in P
  <2>1. m + 1 \in 0..n
    BY <1>1, <1>3
  <2>2. ASSUME NEW h, h = n + 1 - (m + 1), h >= q PROVE Left(h)
    <3>1. h \in q..n /\ h \in 1..n /\ h + 1 = n + 1 - m /\ h + 1 >= q /\ h \in 1..(n + 2)
          /\ ~(h > n)
      BY <1>1, <1>3, <2>2
    <3>2. Left(h + 1)
      <4> HIDE DEF Left, n
      <4> QED
        BY <1>3, <3>1
    <3>3. w[h].kind = "operand"
      BY <3>1
    <3>4. Outcomes(w)[h] = [returns |-> Outcomes(w)[h + 1].returns,
                            front |-> Outcomes(w)[h + 1].front,
                            back |-> <<w[h]>> \o Outcomes(w)[h + 1].back]
      BY <3>1, <3>3, OutcomesAre DEF Outcome
    <3>5. Rest(w, h) = <<w[h]>> \o Rest(w, h + 1)
      BY <1>1, <3>1, RestsFirst
    <3> QED
      BY <3>2, <3>4, <3>5
  <2> HIDE DEF Left, n
  <2> QED
    BY <2>1, <2>2
<1>4. 0..n \subseteq P
  <2>1. P \in SUBSET Nat
    OBVIOUS
  <2> HIDE DEF P, n
  <2> QED
    BY <1>1, <1>2, <1>3, <2>1, UpTo
<1>5. n + 1 - q \in 0..n /\ n + 1 - (n + 1 - q) = q /\ q >= q
  BY <1>1
<1>6. Left(q)
  <2> HIDE DEF Left, n
  <2> QED
    BY <1>4, <1>5
<1> QED
  BY <1>6

\* Where what o says stands from q on, with the operands K before those it ends
\* with, a scan comes to the same, and moves nothing.
Again(o, w, q, K) ==
    /\ Rest(w, q) = o.front \o (K \o o.back) /\ Clean(o.returns)
    => Outcomes(w)[q] = [returns |-> o.returns, front |-> o.front, back |-> K \o o.back]
Operands(K) == IsSeq(K) /\ \A k \in 1..Len(K) : K[k].kind = "operand"
AgainAt(av, w, j) ==
    \A q \in 1..(Len(w) + 1) : \A K : Operands(K) => Again(Outcomes(av)[j], w, q, K)

\* What lacks nothing lacks nothing in its parts.
LEMMA CleanParts ==
    ASSUME NEW s, NEW u, IsSeq(s), IsSeq(u), Clean(s \o u)
    PROVE  Clean(s) /\ Clean(u)
<1>1. /\ IsSeq(s \o u) /\ Len(s) \in Nat /\ Len(u) \in Nat /\ Len(s \o u) = Len(s) + Len(u)
      /\ \A j \in 1..(Len(s) + Len(u)) :
            (s \o u)[j] = IF j <= Len(s) THEN s[j] ELSE u[j - Len(s)]
  BY SeqsJoined
<1>2. PICK v : v = s \o u
  OBVIOUS
<1>3. DOMAIN s = 1..Len(s) /\ DOMAIN u = 1..Len(u) /\ DOMAIN v = 1..Len(v)
  <2>1. \A t : IsSeq(t) => DOMAIN t = 1..Len(t)
    BY DEF IsSeq
  <2> QED
    BY <1>1, <1>2, <2>1
<1>4. PICK a \in Nat, b \in Nat : a = Len(s) /\ b = Len(u)
  BY <1>1
<1>5. DOMAIN v = 1..(a + b) /\ \A j \in 1..(a + b) : v[j] = IF j <= a THEN s[j] ELSE u[j - a]
  BY <1>1, <1>2, <1>3, <1>4
<1>6. \A k \in 1..(a + b) : v[k].code # Missing
  BY <1>2, <1>5 DEF Clean
<1>7. ASSUME NEW k \in 1..a PROVE s[k].code # Missing
  <2>1. k \in 1..(a + b) /\ k <= a
    BY <1>4
  <2>2. v[k] = s[k]
    BY <1>5, <2>1
  <2> QED
    BY <1>6, <2>1, <2>2
<1>8. ASSUME NEW k \in 1..b PROVE u[k].code # Missing
  <2>1. a + k \in 1..(a + b) /\ ~(a + k <= a) /\ (a + k) - a = k
    BY <1>4
  <2>2. v[a + k] = u[k]
    BY <1>5, <2>1
  <2> QED
    BY <1>6, <2>1, <2>2
<1> QED
  BY <1>3, <1>4, <1>7, <1>8 DEF Clean

\* At the end of the command line only operands can be left.
LEMMA AgainAtEnd ==
    ASSUME ordering = "PERMUTE", NEW av, Scannable(av), NEW w, Scannable(w)
    PROVE  AgainAt(av, w, Len(av) + 1)
<1>1. IsSeq(w) /\ Len(w) \in Nat /\ Len(av) \in Nat
  BY DEF Scannable, IsSeq
<1>2. PICK o : o = Outcomes(av)[Len(av) + 1]
  OBVIOUS
<1>3. o = [returns |-> << >>, front |-> << >>, back |-> << >>]
  <2>1. Len(av) + 1 \in 1..(Len(av) + 2) /\ Len(av) + 1 > Len(av)
    BY <1>1
  <2> QED
    BY <1>2, <2>1, OutcomesAre DEF Outcome
<1>4. ASSUME NEW q \in 1..(Len(w) + 1), NEW K, Operands(K),
             Rest(w, q) = o.front \o (K \o o.back)
      PROVE  Outcomes(w)[q] = [returns |-> o.returns, front |-> o.front, back |-> K \o o.back]
  <2>1. IsSeq(K) /\ K \o << >> = K /\ << >> \o K = K
    BY <1>4, JoinedEmpty DEF Operands
  <2>2. Rest(w, q) = K
    BY <1>3, <1>4, <2>1
  <2>3. ASSUME NEW k \in q..Len(w) PROVE w[k].kind = "operand"
    <3>1. k - q + 1 \in 1..(Len(w) + 1 - q) /\ q + (k - q + 1) - 1 = k
      BY <1>1
    <3>2. /\ Len(Rest(w, q)) = Len(w) + 1 - q
          /\ \A m \in 1..(Len(w) + 1 - q) : Rest(w, q)[m] = w[q + m - 1]
      BY <1>1, RestIs
    <3>3. PICK h : h = k - q + 1
      OBVIOUS
    <3>4. h \in 1..(Len(w) + 1 - q) /\ q + h - 1 = k
      BY ONLY <3>1, <3>3
    <3>5. K[h] = w[k] /\ h \in 1..Len(K)
      BY ONLY <2>2, <3>2, <3>4
    <3> QED
      BY <1>4, <3>5 DEF Operands
  <2>4. Outcomes(w)[q] = [returns |-> << >>, front |-> << >>, back |-> Rest(w, q)]
    BY <2>3, OperandsLeft
  <2> QED
    BY <1>3, <2>1, <2>2, <2>4
<1> QED
  BY <1>2, <1>4 DEF AgainAt, Again

\* At "--" the scan ends, here and there.
LEMMA AgainAtDashes ==
    ASSUME ordering = "PERMUTE", NEW av, Scannable(av), NEW w, Scannable(w),
           NEW j \in 1..Len(av), av[j].kind = "dashes"
    PROVE  AgainAt(av, w, j)
<1>1. IsSeq(w) /\ Len(w) \in Nat /\ Len(av) \in Nat /\ IsSeq(av)
  BY DEF Scannable, IsSeq
<1>2. PICK o : o = Outcomes(av)[j]
  OBVIOUS
<1>3. j \in 1..(Len(av) + 2) /\ ~(j > Len(av)) /\ j + 1 \in 1..(Len(av) + 1)
  BY <1>1
<1>4. o = [returns |-> << >>, front |-> <<av[j]>>, back |-> SubSeq(av, j + 1, Len(av))]
  BY <1>2, <1>3, OutcomesAre DEF Outcome
<1>5. Whole(o)
  BY <1>2, <1>3, OutcomesAreWhole
<1>6. ASSUME NEW q \in 1..(Len(w) + 1), NEW K, Operands(K),
             Rest(w, q) = o.front \o (K \o o.back)
      PROVE  Outcomes(w)[q] = [returns |-> o.returns, front |-> o.front, back |-> K \o o.back]
  <2>1. PICK x, y : x = o.front /\ y = K \o o.back
    OBVIOUS
  <2>2. IsSeq(x) /\ IsSeq(o.back) /\ IsSeq(K) /\ x = <<av[j]>> /\ Len(x) = 1 /\ x[1] = av[j]
    <3>1. IsSeq(x) /\ IsSeq(o.back) /\ IsSeq(K)
      BY <1>5, <1>6, <2>1, WholeIs DEF Operands
    <3>2. x = <<av[j]>>
      BY <1>4, <2>1
    <3> QED
      BY <3>1, <3>2
  <2>3. IsSeq(y)
    BY <2>1, <2>2, SeqsJoined
  <2>4. /\ q + Len(x) \in 1..(Len(w) + 1) /\ Rest(w, q + Len(x)) = y
        /\ \A m \in 1..Len(x) : q + m - 1 \in 1..Len(w) /\ w[q + m - 1] = x[m]
    <3>1. Rest(w, q) = x \o y
      BY <1>6, <2>1
    <3>2. IsSeq(w) /\ IsSeq(x) /\ q \in 1..(Len(w) + 1)
      BY <1>1, <2>2
    <3> QED
      BY ONLY <2>3, <3>1, <3>2, RestParts
  <2>5. Rest(w, q + 1) = y /\ q \in 1..Len(w) /\ w[q] = av[j]
    <3>1. 1 \in 1..Len(x) /\ q + 1 - 1 = q
      BY <2>2
    <3> QED
      BY <2>2, <2>4, <3>1
  <2>6. q \in 1..(Len(w) + 2) /\ ~(q > Len(w))
    BY <1>1, <2>5
  <2>7. w[q].kind = "dashes"
    BY <2>5
  <2>8. Outcomes(w)[q] = [returns |-> << >>, front |-> <<w[q]>>,
                          back |-> SubSeq(w, q + 1, Len(w))]
    BY <2>6, <2>7, OutcomesAre DEF Outcome
  <2>9. SubSeq(w, q + 1, Len(w)) = y
    <3>1. (Len(w) + 1) - 1 = Len(w)
      BY <1>1
    <3> QED
      BY <2>5, <3>1 DEF Rest, Slice
  <2> QED
    BY <1>4, <2>1, <2>5, <2>8, <2>9
<1> QED
  BY <1>2, <1>6 DEF AgainAt, Again

Associate(s, u, v) == (s \o u) \o v = s \o (u \o v)

LEMMA JoinsAssociate ==
    ASSUME NEW s, NEW u, NEW v, IsSeq(s), IsSeq(u), IsSeq(v)
    PROVE  Associate(s, u, v)
  BY JoinedTwice DEF Associate

\* An operand is passed over: it goes to those before the end.
LEMMA AgainAtOperand ==
    ASSUME ordering = "PERMUTE", NEW av, Scannable(av), NEW w, Scannable(w),
           NEW j \in 1..Len(av), av[j].kind = "operand", AgainAt(av, w, j + 1)
    PROVE  AgainAt(av, w, j)
<1>1. Len(av) \in Nat
  BY DEF Scannable
<1>2. PICK o, t : o = Outcomes(av)[j] /\ t = Outcomes(av)[j + 1]
  OBVIOUS
<1>3. j \in 1..(Len(av) + 2) /\ ~(j > Len(av)) /\ j + 1 \in 1..(Len(av) + 2)
  BY <1>1
<1>4. o = [returns |-> t.returns, front |-> t.front, back |-> <<av[j]>> \o t.back]
  BY <1>2, <1>3, OutcomesAre DEF Outcome
<1>5. IsSeq(t.back)
  BY <1>2, <1>3, OutcomesAreWhole, WholeIs
<1>6. ASSUME NEW q \in 1..(Len(w) + 1), NEW K, Operands(K),
             Rest(w, q) = o.front \o (K \o o.back), Clean(o.returns)
      PROVE  Outcomes(w)[q] = [returns |-> o.returns, front |-> o.front, back |-> K \o o.back]
  <2>1. PICK e : e = av[j]
    OBVIOUS
  <2>2. PICK L, f, b : f = <<e>> /\ L = K \o f /\ b = t.back
    OBVIOUS
  <2>3. IsSeq(K) /\ IsSeq(<<e>>) /\ Len(<<e>>) = 1
    BY <1>6, Appended DEF Operands
  <2>4. L \o t.back = K \o o.back
    <3>1. o.back = f \o b
      BY <1>4, <2>1, <2>2
    <3>2. IsSeq(K) /\ IsSeq(f) /\ IsSeq(b)
      BY <1>5, <2>2, <2>3
    <3>3. (K \o f) \o b = K \o (f \o b)
      BY ONLY <3>2, JoinedTwice, SMTT(30)
    <3> QED
      BY ONLY <2>2, <3>1, <3>3
  <2>5. Operands(L)
    <3>1. /\ IsSeq(L) /\ Len(K) \in Nat /\ Len(L) = Len(K) + 1
          /\ \A k \in 1..(Len(K) + 1) : L[k] = IF k <= Len(K) THEN K[k] ELSE <<e>>[k - Len(K)]
      BY <2>2, <2>3, SeqsJoined
    <3>2. ASSUME NEW k \in 1..(Len(K) + 1) PROVE L[k].kind = "operand"
      <4>1. CASE k <= Len(K)
        <5>1. L[k] = K[k] /\ k \in 1..Len(K)
          BY <3>1, <4>1
        <5> QED
          BY <1>6, <5>1 DEF Operands
      <4>2. CASE ~(k <= Len(K))
        <5>1. k - Len(K) = 1
          BY <3>1, <4>2
        <5>2. L[k] = e
          BY <3>1, <4>2, <5>1
        <5> QED
          BY <2>1, <5>2
      <4> QED
        BY <4>1, <4>2
    <3> QED
      BY <3>1, <3>2 DEF Operands
  <2>6. Again(t, w, q, L)
    BY <1>2, <2>5 DEF AgainAt
  <2>7. Rest(w, q) = t.front \o (L \o t.back) /\ Clean(t.returns)
    BY <1>4, <1>6, <2>4
  <2>8. Outcomes(w)[q] = [returns |-> t.returns, front |-> t.front, back |-> L \o t.back]
    BY <2>6, <2>7 DEF Again
  <2> QED
    BY <1>4, <2>4, <2>8
<1> QED
  BY <1>2, <1>6 DEF AgainAt, Again

\* An option stands there with what it takes.
LEMMA AgainAtOption ==
    ASSUME ordering = "PERMUTE", NEW av, Scannable(av), NEW w, Scannable(w),
           NEW j \in 1..Len(av), av[j].kind \notin {"operand", "dashes"},
           AgainAt(av, w, j + 1 + Option(av, j).uses)
    PROVE  AgainAt(av, w, j)
<1>1. IsSeq(av) /\ IsSeq(w) /\ Len(av) \in Nat /\ Len(w) \in Nat
  BY DEF Scannable, IsSeq
<1>2. PICK opt : opt = Option(av, j)
  OBVIOUS
<1>3. opt.uses \in 0..(Len(av) - j) /\ IsSeq(opt.returns)
  BY <1>2, OptionIs
<1>4. PICK u \in Nat : u = opt.uses /\ u \in 0..(Len(av) - j)
  BY <1>3
<1>5. /\ j \in 1..(Len(av) + 2) /\ ~(j > Len(av)) /\ j + 1 + u \in 1..(Len(av) + 2)
      /\ j \in Nat /\ j + 1 + u \in Nat
  BY <1>1, <1>4
<1>6. PICK o, t : o = Outcomes(av)[j] /\ t = Outcomes(av)[j + 1 + u]
  OBVIOUS
<1>7. PICK x : x = SubSeq(av, j, j + u)
  OBVIOUS
<1>8. o = [returns |-> opt.returns \o t.returns, front |-> x \o t.front, back |-> t.back]
  BY <1>2, <1>4, <1>5, <1>6, <1>7, OutcomesAre DEF Outcome, Before
<1>9. IsSeq(t.returns) /\ IsSeq(t.front) /\ IsSeq(t.back)
  BY <1>5, <1>6, OutcomesAreWhole, WholeIs
<1>10. IsSeq(x) /\ Len(x) = u + 1 /\ \A m \in 1..(u + 1) : x[m] = av[j + m - 1]
  <2>1. PICK e \in Nat : e = j + 1 + u
    BY <1>5
  <2>2. 1 <= j /\ j <= e /\ e <= Len(av) + 1 /\ e - 1 = j + u /\ e - j = u + 1
    <3>1. j \in Nat /\ j >= 1
      BY <1>5
    <3> QED
      BY ONLY <1>1, <1>4, <2>1, <3>1, SMTT(30)
  <2>3. /\ IsSeq(Slice(av, j, e)) /\ Len(Slice(av, j, e)) = e - j
        /\ \A m \in 1..(e - j) : Slice(av, j, e)[m] = av[j + m - 1]
    BY <1>1, <1>5, <2>2, Sliced
  <2>4. Slice(av, j, e) = x
    BY <1>7, <2>2 DEF Slice
  <2> QED
    BY ONLY <2>2, <2>3, <2>4
<1>11. ASSUME NEW q \in 1..(Len(w) + 1), NEW K, Operands(K),
              Rest(w, q) = o.front \o (K \o o.back), Clean(o.returns)
       PROVE  Outcomes(w)[q] = [returns |-> o.returns, front |-> o.front, back |-> K \o o.back]
  <2>1. PICK y, z : z = K \o t.back /\ y = t.front \o z
    OBVIOUS
  <2>2. IsSeq(K) /\ IsSeq(z) /\ IsSeq(y)
    BY <1>9, <1>11, <2>1, SeqsJoined DEF Operands
  <2>3. Rest(w, q) = x \o y
    <3>1. Rest(w, q) = (x \o t.front) \o z
      BY <1>8, <1>11, <2>1
    <3>2. PICK f : f = t.front
      OBVIOUS
    <3>3. IsSeq(x) /\ IsSeq(f) /\ IsSeq(z)
      BY <1>9, <1>10, <2>2, <3>2
    <3>4. (x \o f) \o z = x \o (f \o z)
      <4>1. Associate(x, f, z)
        BY ONLY <3>3, JoinsAssociate
      <4> QED
        BY ONLY <4>1 DEF Associate
    <3> QED
      <4>1. PICK r : r = Rest(w, q)
        OBVIOUS
      <4>2. r = (x \o f) \o z
        BY ONLY <3>1, <3>2, <4>1
      <4>3. y = f \o z
        BY ONLY <2>1, <3>2
      <4>4. r = x \o y
        BY ONLY <3>4, <4>2, <4>3
      <4> QED
        BY ONLY <4>1, <4>4
  <2>4. /\ q + Len(x) \in 1..(Len(w) + 1) /\ Rest(w, q + Len(x)) = y
        /\ \A m \in 1..Len(x) : q + m - 1 \in 1..Len(w) /\ w[q + m - 1] = x[m]
    <3>1. q \in 1..(Len(w) + 1)
      OBVIOUS
    <3> QED
      BY ONLY <1>1, <1>10, <2>2, <2>3, <3>1, RestParts
  <2>5. q + Len(x) = q + 1 + u /\ q \in Nat
    BY <1>1, <1>10
  <2>6. q + 1 + u \in 1..(Len(w) + 1) /\ Rest(w, q + 1 + u) = y
    BY ONLY <2>4, <2>5
  <2>7. StandIn(av, j, w, q, u)
    <3>1. ASSUME NEW m \in 0..u PROVE q + m <= Len(w) /\ w[q + m] = av[j + m]
      <4>1. m + 1 \in 1..(u + 1) /\ q + (m + 1) - 1 = q + m /\ j + (m + 1) - 1 = j + m
        BY <1>4, <1>5, <2>5, SMTT(30)
      <4>2. q + m \in 1..Len(w) /\ w[q + m] = x[m + 1]
        BY <1>10, <2>4, <4>1
      <4>3. x[m + 1] = av[j + m]
        BY <1>10, <4>1
      <4> QED
        BY <1>1, <4>2, <4>3
    <3> QED
      BY <3>1 DEF StandIn
  <2>8. q \in 1..Len(w) /\ w[q] = av[j]
    <3>1. 0 \in 0..u /\ q + 0 = q /\ j + 0 = j
      BY <1>4, <1>5, <2>5
    <3>2. q <= Len(w) /\ w[q] = av[j]
      BY <2>7, <3>1 DEF StandIn
    <3> QED
      BY <1>1, <3>2
  <2>9. Clean(opt.returns) /\ Clean(t.returns)
    <3>1. Clean(opt.returns \o t.returns)
      BY <1>8, <1>11
    <3> QED
      BY <1>3, <1>9, <3>1, CleanParts
  <2>10. Option(w, q) = opt
    BY <1>2, <1>4, <2>7, <2>8, <2>9, OptionShifts
  <2>11. PICK s : s = Outcomes(w)[q + 1 + u]
    OBVIOUS
  <2>12. s = [returns |-> t.returns, front |-> t.front, back |-> z]
    <3>1. AgainAt(av, w, j + 1 + u)
      BY <1>2, <1>4
    <3>2. Again(t, w, q + 1 + u, K)
      BY <1>6, <1>11, <2>6, <3>1 DEF AgainAt
    <3> QED
      BY <2>1, <2>6, <2>9, <2>11, <3>2 DEF Again
  <2>13. SubSeq(w, q, q + u) = x
    <3>1. PICK e \in Nat : e = q + 1 + u
      BY <1>4, <2>5
    <3>2. /\ 1 <= q /\ q <= e /\ e <= Len(w) + 1 /\ e - 1 = q + u /\ e - q = u + 1
      <4>1. q \in Nat /\ q >= 1 /\ q + 1 + u <= Len(w) + 1
        BY <1>1, <2>6
      <4> QED
        BY ONLY <1>1, <1>4, <3>1, <4>1, SMTT(30)
    <3>3. /\ IsSeq(Slice(w, q, e)) /\ Len(Slice(w, q, e)) = e - q
          /\ \A m \in 1..(e - q) : Slice(w, q, e)[m] = w[q + m - 1]
      <4>1. e \in Nat /\ q \in Nat
        BY <2>5
      <4> QED
        BY ONLY <1>1, <3>2, <4>1, Sliced, ZenonT(30)
    <3>4. \A m \in 1..(u + 1) : Slice(w, q, e)[m] = x[m]
      BY ONLY <1>10, <2>4, <3>2, <3>3
    <3>5. Slice(w, q, e) = x
      <4>1. PICK v : v = Slice(w, q, e)
        OBVIOUS
      <4>2. IsSeq(v) /\ Len(v) = Len(x) /\ \A m \in 1..Len(v) : v[m] = x[m]
        BY ONLY <1>10, <3>2, <3>3, <3>4, <4>1
      <4> QED
        BY <1>10, <4>1, <4>2, EqualSeqs
    <3> QED
      BY ONLY <3>2, <3>5 DEF Slice
  <2>14. q \in 1..(Len(w) + 2) /\ ~(q > Len(w))
    BY <1>1, <2>8
  <2>15. Outcomes(w)[q] = Before(w, q, opt, Outcomes(w))
    BY <2>8, <2>10, <2>14, OutcomesAre DEF Outcome
  <2>16. Outcomes(w)[q] = [returns |-> opt.returns \o s.returns,
                           front |-> SubSeq(w, q, q + u) \o s.front, back |-> s.back]
    BY <1>4, <2>11, <2>15 DEF Before
  <2> QED
    BY <1>8, <2>1, <2>12, <2>13, <2>16
<1> QED
  BY <1>6, <1>11 DEF AgainAt, Again

\* So it is from every index on, by induction from the end.
LEMMA ScansAgain ==
    ASSUME ordering = "PERMUTE", NEW av, Scannable(av), NEW w, Scannable(w),
           NEW j \in 1..(Len(av) + 1)
    PROVE  AgainAt(av, w, j)
<1> DEFINE n == Len(av)
           P == {m \in 0..n : \A h \in 1..(n + 1) : h >= n + 1 - m => AgainAt(av, w, h)}
<1>1. n \in Nat
  BY DEF Scannable
<1>2. 0 \in P
  <2>1. \A h \in 1..(n + 1) : h >= n + 1 - 0 => h = n + 1
    BY <1>1
  <2>2. AgainAt(av, w, n + 1)
    BY AgainAtEnd
  <2> HIDE DEF n
  <2> QED
    BY <1>1, <2>1, <2>2
<1>3. ASSUME NEW m \in 0..n, m \in P, m < n PROVE m + 1 \in P
  <2>1. m + 1 \in 0..n
    BY <1>1, <1>3
  <2>2. ASSUME NEW h \in 1..(n + 1), h >= n + 1 - (m + 1) PROVE AgainAt(av, w, h)
    <3>1. CASE h >= n + 1 - m
      BY <1>3, <3>1
    <3>2. CASE ~(h >= n + 1 - m)
      <4>1. h \in 1..n
        BY <1>1, <1>3, <3>2
      <4>2. ASSUME NEW k \in (h + 1)..(n + 1) PROVE AgainAt(av, w, k)
        <5>1. k \in 1..(n + 1) /\ k >= n + 1 - m
          BY <1>1, <1>3, <2>2, <4>1
        <5> HIDE DEF n
        <5> QED
          BY <1>3, <5>1
      <4>3. CASE av[h].kind = "dashes"
        BY <4>1, <4>3, AgainAtDashes
      <4>4. CASE av[h].kind = "operand"
        <5>1. h + 1 \in (h + 1)..(n + 1)
          BY <1>1, <4>1
        <5> QED
          BY <4>1, <4>2, <4>4, <5>1, AgainAtOperand
      <4>5. CASE av[h].kind \notin {"operand", "dashes"}
        <5>1. PICK u : u = Option(av, h).uses
          OBVIOUS
        <5>2. u \in 0..(n - h)
          BY <4>1, <5>1, OptionIs
        <5>3. h + 1 + u \in (h + 1)..(n + 1)
          BY <1>1, <4>1, <5>2
        <5>4. AgainAt(av, w, h + 1 + u)
          BY <4>2, <5>3
        <5> QED
          BY <4>1, <4>5, <5>1, <5>4, AgainAtOption
      <4> QED
        BY <4>3, <4>4, <4>5
    <3> QED
      BY <3>1, <3>2
  <2> QED
    BY <2>1, <2>2
<1>4. 0..n \subseteq P
  <2>1. P \in SUBSET Nat
    OBVIOUS
  <2> HIDE DEF P, n
  <2> QED
    BY <1>1, <1>2, <1>3, <2>1, UpTo
<1>5. n \in 0..n /\ j \in 1..(n + 1) /\ j >= n + 1 - n
  <2>1. j \in 1..(n + 1)
    OBVIOUS
  <2> HIDE DEF n
  <2> QED
    BY <1>1, <2>1
<1>6. n \in P
  <2> HIDE DEF n, P
  <2> QED
    BY <1>4, <1>5
<1> HIDE DEF n
<1> QED
  BY <1>5, <1>6

\* What a scan leaves, scanned again, comes to the same.
Leaves(o, w) == w = o.front \o o.back /\ Clean(o.returns)

LEMMA RescanIs ==
    ASSUME ordering = "PERMUTE", NEW av, Scannable(av), NEW w, Scannable(w),
           Leaves(Reference(av), w)
    PROVE  Reference(w) = Reference(av)
<1>1. Len(av) \in Nat /\ Len(w) \in Nat /\ IsSeq(w)
  BY DEF Scannable, IsSeq
<1>2. PICK o : o = Reference(av)
  OBVIOUS
<1>3. PICK one \in Nat : one = 1
  OBVIOUS
<1>4. one \in 1..(Len(av) + 1) /\ one \in 1..(Len(w) + 1) /\ one \in 1..(Len(av) + 2)
  BY <1>1, <1>3
<1>5. o = Outcomes(av)[one] /\ Reference(w) = Outcomes(w)[one]
  BY <1>2, <1>3 DEF Reference
<1>6. PICK a, b, c : IsSeq(a) /\ IsSeq(b) /\ IsSeq(c)
                     /\ o = [returns |-> a, front |-> b, back |-> c]
  <2>1. Whole(Outcomes(av)[one])
    BY <1>4, OutcomesAreWhole
  <2>2. Whole(o)
    BY ONLY <1>5, <2>1
  <2> QED
    BY ONLY <2>2 DEF Whole
<1>7. IsSeq(<< >>) /\ << >> \o c = c
  BY <1>6, JoinedEmpty
<1>8. Operands(<< >>)
  BY <1>7 DEF Operands
<1>9. Again(o, w, one, << >>)
  BY <1>4, <1>5, <1>8, ScansAgain DEF AgainAt
<1>10. Rest(w, one) = w
  <2>1. /\ IsSeq(Rest(w, one)) /\ Len(Rest(w, one)) = Len(w) + 1 - one
        /\ \A m \in 1..(Len(w) + 1 - one) : Rest(w, one)[m] = w[one + m - 1]
    BY <1>1, <1>4, RestIs
  <2>2. Len(w) + 1 - one = Len(w) /\ \A m \in 1..Len(w) : one + m - 1 = m
    BY <1>1, <1>3
  <2>3. PICK v : v = Rest(w, one)
    OBVIOUS
  <2>4. IsSeq(v) /\ Len(v) = Len(w) /\ \A m \in 1..Len(v) : v[m] = w[m]
    BY ONLY <2>1, <2>2, <2>3
  <2> QED
    BY <1>1, <2>3, <2>4, EqualSeqs
<1>11. Rest(w, one) = o.front \o (<< >> \o o.back) /\ Clean(o.returns)
  BY <1>2, <1>6, <1>7, <1>10 DEF Leaves
<1>12. Outcomes(w)[one] = [returns |-> o.returns, front |-> o.front, back |-> << >> \o o.back]
  BY <1>9, <1>11 DEF Again
<1> QED
  BY <1>2, <1>5, <1>6, <1>7, <1>12

--------------------------------------------------------------------------------
(* A second scan: the steps.                                               *)

\* The scan r comes to the returns given, and leaves the command line as it was.
Finds(r, given, line) == r.returns = given /\ r.front \o r.back = line

\* Only a scan that may permute argv does; and one that begins again has before
\* it what comes to the returns of the first.
RescanInv ==
    /\ ordering # "PERMUTE" => argv = orig /\ pc \notin {"exchange", "exchange2"}
    /\ scans > 0 /\ Clean(earlier) => Finds(Reference(orig), earlier, orig)

\* A step to another command line.
LEMMA OutcomesOf ==
    ASSUME NEW av, orig' = av, ordering' = ordering, long_only' = long_only
    PROVE  Reference(orig)' = Reference(av)
<1>1. ASSUME NEW j PROVE Option(orig, j)' = Option(av, j)
  <2>1. AsLong(orig, j)' = AsLong(av, j)
    BY DEF AsLong
  <2>2. ReadAsLong(orig, j)' = ReadAsLong(av, j)
    BY <2>1 DEF ReadAsLong
  <2> QED
    BY <2>1, <2>2 DEF Option
<1>2. ASSUME NEW j, NEW scan PROVE Outcome(orig, j, scan)' = Outcome(av, j, scan)
  <2>1. Option(orig, j)' = Option(av, j)
    BY <1>1
  <2> QED
    BY <2>1 DEF Outcome, Before
<1>3. Outcomes(orig)' = CHOOSE scan : scan = [j \in 1..(Len(av) + 2) |-> Outcome(av, j, scan)]
  BY <1>2 DEF Outcomes
<1>4. Outcomes(orig)' = Outcomes(av)
  BY <1>3 DEF Outcomes
<1> QED
  BY <1>4 DEF Reference

\* A step that begins no other scan.
LEMMA RescanStays ==
    ASSUME UNCHANGED <<orig, scans, earlier, ordering, long_only>>,
           ordering # "PERMUTE" => argv' = orig /\ pc' \notin {"exchange", "exchange2"},
           RescanInv
    PROVE  RescanInv'
<1>1. Reference(orig)' = Reference(orig)
  <2>1. PICK av : av = orig
    OBVIOUS
  <2> QED
    BY <2>1, OutcomesOf
<1>2. (scans > 0 /\ Clean(earlier) => Finds(Reference(orig), earlier, orig))'
  BY <1>1 DEF RescanInv, Finds, Clean
<1> QED
  BY <1>2 DEF RescanInv

\* What a scan has come to is what the next one will.
LEMMA RescanBegins == ASSUME ScanInv, RightInv, RescanInv, ScanAgain PROVE RescanInv'
<1>1. /\ pc = "done" /\ pc' = "call" /\ orig' = argv /\ scans \in Nat
      /\ earlier' = IF scans = 0 THEN returns ELSE earlier
      /\ UNCHANGED <<argv, ordering, long_only>>
  BY DEF ScanAgain, mode, ScanInv, TypeOK
<1>2. PICK av, line : av = argv /\ line = orig
  OBVIOUS
<1>3. PICK r : r = Reference(line)
  OBVIOUS
<1>4. Scannable(av) /\ Scannable(line)
  BY <1>2 DEF ScanInv
<1>5. returns = r.returns /\ av = r.front \o r.back
  <2>1. Agrees(Reference(orig))
    BY <1>1, RightHolds DEF ScanIsRight
  <2> QED
    BY <1>2, <1>3, <2>1 DEF Agrees
<1>6. Reference(orig)' = Reference(av)
  BY <1>1, <1>2, OutcomesOf
<1>7. ASSUME Clean(earlier') PROVE Finds(Reference(av), earlier', av)
  <2>1. earlier' = r.returns
    <3>1. CASE scans = 0
      BY <1>1, <1>5, <3>1
    <3>2. CASE scans # 0
      <4>1. earlier' = earlier /\ scans > 0 /\ Clean(earlier)
        BY <1>1, <1>7, <3>2
      <4>2. Finds(r, earlier, line)
        BY <1>2, <1>3, <4>1 DEF RescanInv
      <4> QED
        BY <4>1, <4>2 DEF Finds
    <3> QED
      BY <3>1, <3>2
  <2>2. Clean(r.returns)
    BY <1>7, <2>1
  <2>3. Reference(av) = r
    <3>1. CASE ordering = "PERMUTE"
      <4>1. Leaves(r, av)
        BY <1>5, <2>2 DEF Leaves
      <4> QED
        BY <1>3, <1>4, <3>1, <4>1, RescanIs
    <3>2. CASE ordering # "PERMUTE"
      <4>1. av = line
        BY <1>2, <3>2 DEF RescanInv
      <4> QED
        BY <1>3, <4>1
    <3> QED
      BY <3>1, <3>2
  <2> QED
    BY <1>5, <2>1, <2>3 DEF Finds
<1>8. (scans > 0 /\ Clean(earlier) => Finds(Reference(orig), earlier, orig))'
  <2>1. Clean(earlier)' = Clean(earlier')
    BY DEF Clean
  <2>2. Finds(Reference(av), earlier', av) => Finds(Reference(orig), earlier, orig)'
    BY <1>1, <1>2, <1>6 DEF Finds
  <2> QED
    BY <1>7, <2>1, <2>2
<1> QED
  BY <1>1, <1>8 DEF RescanInv

\* Every step of a scan.
LEMMA RescanStepHolds == ASSUME ScanInv, RightInv, RescanInv, [Next]_vars PROVE RescanInv'
<1>1. CASE Call
  BY <1>1, RescanStays DEF Call, mode, history, RescanInv
<1>2. CASE Advance
  <2>1. UNCHANGED <<argv, orig, scans, earlier, ordering, long_only>>
    BY <1>2 DEF Advance, mode, history
  <2>2. ordering # "PERMUTE" => pc' = "dashes"
    BY <1>2 DEF Advance
  <2> QED
    BY <2>1, <2>2, RescanStays DEF RescanInv
<1>3. CASE Exchange
  <2>1. UNCHANGED <<orig, scans, earlier, ordering, long_only>>
    BY <1>3 DEF Exchange, mode, history
  <2>2. ordering = "PERMUTE"
    BY <1>3 DEF Exchange, RescanInv
  <2> QED
    BY <2>1, <2>2, RescanStays
<1>4. CASE Skip \/ End
  <2>1. /\ UNCHANGED <<argv, orig, scans, earlier, ordering, long_only>>
        /\ pc' \in {"dashes", "done"}
    BY <1>4 DEF Skip, End, Finish, mode, history
  <2> QED
    BY <2>1, RescanStays DEF RescanInv
<1>5. CASE Dashes
  <2>1. UNCHANGED <<argv, orig, scans, earlier, ordering, long_only>>
    BY <1>5 DEF Dashes, mode, history
  <2>2. ordering # "PERMUTE" => pc' \in {"end", "word"}
    <3>1. ordering # "PERMUTE" => first_nonopt = last_nonopt
      BY <1>5 DEF Dashes, RightInv
    <3> QED
      BY <1>5, <3>1 DEF Dashes
  <2> QED
    BY <2>1, <2>2, RescanStays DEF RescanInv
<1>6. CASE Word \/ ShortOption
  <2>1. UNCHANGED <<argv, orig, scans, earlier, ordering, long_only>>
    BY <1>6 DEF Word, ShortOption, mode, history
  <2>2. pc' \in {"done", "call", "short"}
    BY <1>6 DEF Word, ShortOption, Finish, Found, Return
  <2> QED
    BY <2>1, <2>2, RescanStays DEF RescanInv
<1>7. CASE ScanAgain
  BY <1>7, RescanBegins
<1>8. CASE UNCHANGED vars
  <2>1. UNCHANGED <<argv, orig, scans, earlier, ordering, long_only, pc>>
    BY <1>8 DEF vars, mode, history
  <2> QED
    BY <2>1, RescanStays DEF RescanInv
<1> QED
  BY <1>1, <1>2, <1>3, <1>4, <1>5, <1>6, <1>7, <1>8 DEF Next

\* What is true throughout says what the second scan returns.
LEMMA RescanHolds == ScanInv /\ RightInv /\ RescanInv => RescanAgrees
<1> SUFFICES ASSUME ScanInv, RightInv, RescanInv, pc = "done", scans > 0, Clean(earlier)
             PROVE  returns = earlier /\ argv = orig
  BY DEF RescanAgrees, Clean
<1>1. PICK r : r = Reference(orig)
  OBVIOUS
<1>2. returns = r.returns /\ argv = r.front \o r.back
  BY <1>1, RightHolds DEF ScanIsRight, Agrees
<1>3. r.returns = earlier /\ r.front \o r.back = orig
  BY <1>1 DEF RescanInv, Finds
<1> QED
  BY <1>2, <1>3

--------------------------------------------------------------------------------
(* The program: the scan with the strings untouched, then the titles.      *)

Ready == Untitled /\ layout \in Layout

ProgInv == IF pc = "titles" THEN SptInv ELSE ScanInv /\ Ready

LEMMA ReadyHolds == Ready => SptInv
  BY UntitledHolds DEF Ready

\* A scan leaves everything of setproctitle alone.
LEMMA ReadyStays == ASSUME Ready, UNCHANGED sptvars PROVE Ready'
  BY DEF Ready, Untitled, sptvars, space, walk

LEMMA ScanningIsNotTitling ==
    /\ ScanInv => pc # "titles"
    /\ Next => pc # "titles"
<1>1. ScanInv => pc # "titles"
  BY DEF ScanInv, TypeOK
<1>2. Next => pc # "titles"
  BY DEF Next, Call, Advance, Exchange, Skip, Dashes, End, Word, ShortOption, ScanAgain
<1> QED
  BY <1>1, <1>2

\* The vector the scan permuted still leads to every string of argv, once.
LEMMA PermutedIsLayout ==
    ASSUME Scannable(argv), NEW block \in Layout, Len(block.args) = Argc
    PROVE  [block EXCEPT !.args = Permuted(block)] \in Layout
<1> DEFINE String == [at : Address, len : Nat, text : Contents]
           From(j) == IF j = 1 THEN 1 ELSE argv[j - 1].id + 1
<1>1. block.args \in Seq(String) /\ block.envs \in Seq(String)
  BY DEF Layout, Strings
<1>2. Len(argv) \in Nat /\ DOMAIN block.args = 1..(Len(argv) + 1)
  BY <1>1 DEF Scannable, Argc
<1>3. ASSUME NEW j \in 1..(Len(argv) + 1) PROVE From(j) \in 1..(Len(argv) + 1)
  <2>1. CASE j = 1
    BY <1>2, <2>1
  <2>2. CASE j # 1
    <3>1. j - 1 \in 1..Len(argv)
      BY <1>2, <2>2
    <3>2. argv[j - 1].id \in 1..Len(argv)
      BY <3>1 DEF Scannable
    <3> QED
      BY <1>2, <2>2, <3>2
  <2> QED
    BY <2>1, <2>2
<1>4. Permuted(block) = [j \in 1..(Len(argv) + 1) |-> block.args[From(j)]]
  BY <1>2 DEF Permuted
<1>5. \A j \in 1..(Len(argv) + 1) : block.args[From(j)] \in String
  <2> HIDE DEF String, From
  <2> QED
    BY <1>1, <1>2, <1>3
<1>6. Permuted(block) \in Seq(String) /\ Permuted(block) # << >>
  <2> HIDE DEF String, From
  <2>1. Permuted(block) \in Seq(String)
    BY <1>2, <1>4, <1>5
  <2>2. 1 \in DOMAIN Permuted(block)
    BY <1>2, <1>4
  <2> QED
    BY <2>1, <2>2
<1> QED
  BY <1>1, <1>6 DEF Layout, Strings

LEMMA TitlesBeginReady == ASSUME ScanInv, Ready, BeginTitles PROVE Ready' /\ pc' = "titles"
<1>1. PICK block \in Layouts :
         /\ Len(block.args) = Argc
         /\ layout' = [block EXCEPT !.args = Permuted(block)]
         /\ NSArgv' = layout'.args /\ environ' = block.envs
  BY DEF BeginTitles
<1>2. block \in Layout
  BY <1>1, LayoutAssumption
<1>3. layout' \in Layout
  BY <1>1, <1>2, PermutedIsLayout DEF ScanInv
<1>4. layout'.envs = block.envs
  BY <1>1, <1>2 DEF Layout
<1>5. /\ pc' = "titles"
      /\ UNCHANGED <<overwritten, title, spt_lock, spt_space_init, spt_start, spt_space_len,
                     spt_progname, obuf, buf, envp, last, spt_pc, fmt, i, ret, fast,
                     fast_update>>
  BY DEF BeginTitles
<1>6. Untitled'
  BY <1>1, <1>4, <1>5 DEF Ready, Untitled
<1> QED
  BY <1>3, <1>5, <1>6 DEF Ready

LEMMA ProgStepHolds == ASSUME ProgInv, [ProgramNext]_allvars PROVE ProgInv'
<1>1. CASE [Next]_vars /\ UNCHANGED sptvars /\ pc # "titles"
  <2>1. ScanInv' /\ Ready'
    BY <1>1, ScanStepHolds, ReadyStays DEF ProgInv
  <2>2. pc' # "titles"
    BY <2>1 DEF ScanInv, TypeOK
  <2> QED
    BY <2>1, <2>2 DEF ProgInv
<1>2. CASE BeginTitles
  <2>1. pc = "done"
    BY <1>2 DEF BeginTitles
  <2>2. Ready' /\ pc' = "titles"
    BY <1>2, <2>1, TitlesBeginReady DEF ProgInv
  <2>3. SptInv'
    BY <2>2, ReadyHolds, PTL
  <2> QED
    BY <2>2, <2>3 DEF ProgInv
<1>3. CASE pc = "titles" /\ [SptNext]_sptvars /\ UNCHANGED vars
  <2>1. SptInv' /\ pc' = "titles"
    BY <1>3, SptStepHolds DEF ProgInv, vars
  <2> QED
    BY <2>1 DEF ProgInv
<1>4. \/ [Next]_vars /\ UNCHANGED sptvars /\ pc # "titles"
      \/ BeginTitles
      \/ pc = "titles" /\ [SptNext]_sptvars /\ UNCHANGED vars
  <2>1. CASE Scan
    BY <2>1, ScanningIsNotTitling DEF Scan
  <2>2. CASE UNCHANGED allvars
    BY <2>2 DEF allvars
  <2>3. CASE BeginTitles \/ SetTitles
    BY <2>3 DEF SetTitles
  <2> QED
    BY <2>1, <2>2, <2>3 DEF ProgramNext
<1> QED
  BY <1>1, <1>2, <1>3, <1>4

LEMMA ProgInvariant == ProgramSpec => []ProgInv
<1>1. ProgramInit => ProgInv
  <2> SUFFICES ASSUME ProgramInit PROVE ProgInv
    OBVIOUS
  <2>1. ScanInv
    BY InitScan DEF ProgramInit
  <2>2. Ready
    BY LayoutAssumption DEF ProgramInit, SptInit, Ready
  <2> QED
    BY <2>1, <2>2, ScanningIsNotTitling DEF ProgInv
<1>2. ProgInv /\ [ProgramNext]_allvars => ProgInv'
  BY ProgStepHolds
<1> QED
  BY <1>1, <1>2, PTL DEF ProgramSpec

\* For every command line and every set of options: between two calls of getopt
\* the operands passed over lie together and in order, the options around them
\* keep theirs, and what is still to scan was not touched (getopt.c lines
\* 117-170, 485-509).
THEOREM OrdersCorrect == ProgramSpec => []OrdersKept
<1>1. ProgInv => OrdersKept
  <2>1. CASE pc = "titles"
    BY <2>1 DEF OrdersKept
  <2>2. CASE pc # "titles"
    BY <2>2, OrdersHold DEF ProgInv
  <2> QED
    BY <2>1, <2>2
<1> QED
  BY <1>1, ProgInvariant, PTL

RightUntilTitles == pc = "titles" \/ RightInv

\* For every command line, every set of short and long options and each way of
\* ordering: a scan returns every option with its own argument, once and in the
\* order of the command line, and leaves argv with the options before the
\* operands, each in their order, and optind at the first operand (getopt.c
\* lines 403-454).
THEOREM ScanCorrect == ProgramSpec => []ScanIsRight
<1>1. ProgramInit => RightUntilTitles
  BY InitRight DEF ProgramInit, RightUntilTitles
<1>2. ProgInv /\ RightUntilTitles /\ [ProgramNext]_allvars => RightUntilTitles'
  <2> SUFFICES ASSUME ProgInv, RightUntilTitles, [ProgramNext]_allvars
               PROVE  pc' = "titles" \/ RightInv'
    BY DEF RightUntilTitles
  <2>1. CASE [Next]_vars /\ pc # "titles"
    BY <2>1, RightStepHolds DEF ProgInv, RightUntilTitles
  <2>2. CASE UNCHANGED vars /\ pc = "titles"
    BY <2>2 DEF vars
  <2>3. CASE Scan
    BY <2>1, <2>3, ScanningIsNotTitling DEF Scan
  <2>4. CASE BeginTitles
    BY <2>4 DEF BeginTitles
  <2>5. CASE SetTitles
    BY <2>2, <2>5 DEF SetTitles
  <2>6. CASE UNCHANGED allvars
    BY <2>1, <2>2, <2>6 DEF allvars
  <2> QED
    BY <2>3, <2>4, <2>5, <2>6 DEF ProgramNext
<1>3. ProgInv /\ RightUntilTitles => ScanIsRight
  <2>1. pc = "titles" => ScanIsRight
    BY DEF ScanIsRight
  <2> QED
    BY <2>1, RightHolds DEF ProgInv, RightUntilTitles
<1> QED
  BY <1>1, <1>2, <1>3, ProgInvariant, PTL DEF ProgramSpec

RescannedUntilTitles == pc = "titles" \/ (RightInv /\ RescanInv)

\* For every command line, every set of options and each way of ordering: a
\* second scan of what the first one left finds the same options with the same
\* arguments, and moves nothing, unless an argument was missing (getopt.c lines
\* 376-380, 492-540).
THEOREM RescanCorrect == ProgramSpec => []RescanAgrees
<1>1. ProgramInit => RescannedUntilTitles
  <2> SUFFICES ASSUME ProgramInit PROVE RightInv /\ RescanInv
    BY DEF RescannedUntilTitles
  <2>1. Init
    BY DEF ProgramInit
  <2>2. RescanInv
    BY <2>1 DEF Init, RescanInv
  <2> QED
    BY <2>1, <2>2, InitRight
<1>2. ProgInv /\ RescannedUntilTitles /\ [ProgramNext]_allvars => RescannedUntilTitles'
  <2> SUFFICES ASSUME ProgInv, RescannedUntilTitles, [ProgramNext]_allvars
               PROVE  pc' = "titles" \/ (RightInv' /\ RescanInv')
    BY DEF RescannedUntilTitles
  <2>1. CASE [Next]_vars /\ pc # "titles"
    BY <2>1, RightStepHolds, RescanStepHolds DEF ProgInv, RescannedUntilTitles
  <2>2. CASE UNCHANGED vars /\ pc = "titles"
    BY <2>2 DEF vars
  <2>3. CASE Scan
    BY <2>1, <2>3, ScanningIsNotTitling DEF Scan
  <2>4. CASE BeginTitles
    BY <2>4 DEF BeginTitles
  <2>5. CASE SetTitles
    BY <2>2, <2>5 DEF SetTitles
  <2>6. CASE UNCHANGED allvars
    BY <2>1, <2>2, <2>6 DEF allvars
  <2> QED
    BY <2>3, <2>4, <2>5, <2>6 DEF ProgramNext
<1>3. ProgInv /\ RescannedUntilTitles => RescanAgrees
  <2>1. pc = "titles" => RescanAgrees
    BY DEF RescanAgrees
  <2> QED
    BY <2>1, RescanHolds DEF ProgInv, RescannedUntilTitles
<1> QED
  BY <1>1, <1>2, <1>3, ProgInvariant, PTL DEF ProgramSpec

\* For any number of threads, any strings at any addresses, in the order a scan
\* left argv in: no step of setproctitle spoils a text of argv or environ or
\* leaves the strings of the process, and setproctitle(NULL) brings back the
\* command line or the name (setproctitle.c lines 97-164, 206-219).
THEOREM TitleCorrect == ProgramSpec => TitleHarmsNothing
<1>1. ProgInv => TextsStay
  BY ReadyHolds, TextsAreKept DEF ProgInv
<1>2. ProgInv /\ [ProgramNext]_allvars => [NullRestoresTitle]_sptvars
  <2> SUFFICES ASSUME ProgInv, [ProgramNext]_allvars, ~UNCHANGED sptvars
               PROVE  NullRestoresTitle
    OBVIOUS
  <2>1. CASE SetTitles
    BY <2>1, FirstTitleComesBack DEF SetTitles, ProgInv
  <2>2. CASE BeginTitles
    <3>1. \A t \in Threads : spt_pc[t] = "idle"
      BY <2>2 DEF BeginTitles, ProgInv, Ready, Untitled
    <3> QED
      BY <3>1 DEF NullRestoresTitle
  <2> QED
    BY <2>1, <2>2 DEF ProgramNext, Scan, allvars
<1>3. ProgInv /\ [ProgramNext]_allvars => ProgInv'
  BY ProgStepHolds
<1>4. ProgInv /\ ProgInv' /\ [ProgramNext]_allvars => [TextsStay' /\ NullRestoresTitle]_sptvars
  BY <1>1, <1>2, PTL
<1> QED
  BY <1>3, <1>4, ProgInvariant, PTL DEF ProgramSpec, TitleHarmsNothing
================================================================================
