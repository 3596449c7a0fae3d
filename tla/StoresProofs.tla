-------------------------------- MODULE StoresProofs --------------------------------
(***************************************************************************)
(* Of the containers of Stores: dynamic arrays for any sizes, the services *)
(* file for any contents, hash tables for any keys, obstacks for any       *)
(* memory, node sets for any nodes.                                        *)
(***************************************************************************)
EXTENDS Stores, FiniteSetTheorems, TLAPS

--------------------------------------------------------------------------------
(* Numbers and loops.                                                      *)

\* A set of numbers has a least one.
LEMMA LeastOf ==
    ASSUME NEW T \in SUBSET Nat, T # {}
    PROVE  \E x \in T : \A y \in T : x <= y
<1> DEFINE Intervals == {0..k : k \in T}
           Below == StrictSubsetOrdering(Nat)
<1>1. Intervals \subseteq FiniteSubsetsOf(Nat) /\ Intervals # {}
  <2>1. \A k \in T : 0..k \in SUBSET Nat /\ IsFiniteSet(0..k)
    BY FS_Interval
  <2> QED
    BY <2>1 DEF FiniteSubsetsOf
<1>2. PICK I \in Intervals : \A J \in Intervals : <<J, I>> \notin Below
  <2> HIDE DEF Intervals, Below
  <2>1. IsWellFoundedOn(Below, FiniteSubsetsOf(Nat))
    BY FS_StrictSubsetOrderingWellFounded DEF Below
  <2> QED
    BY <1>1, <2>1, WFMin
<1>3. PICK x \in T : I = 0..x
  BY <1>2
<1>4. ASSUME NEW y \in T PROVE x <= y
  <2>1. <<0..y, 0..x>> \notin Below
    BY <1>2, <1>3
  <2>2. 0..y \in SUBSET Nat /\ 0..x \in SUBSET Nat
    OBVIOUS
  <2>3. CASE y < x
    <3>1. 0..y \subseteq 0..x /\ 0..y # 0..x
      BY <2>3
    <3> QED
      BY <2>1, <2>2, <3>1 DEF StrictSubsetOrdering
  <2> QED
    BY <2>3
<1> QED
  BY <1>4

\* Division with a remainder.
LEMMA Division ==
    ASSUME NEW n \in Nat, NEW m \in Nat, m > 0
    PROVE  \E q \in Nat, r \in 0..(m - 1) : n = q * m + r
<1> DEFINE Left == {r \in Nat : \E q \in Nat : n = q * m + r}
<1>1. Left \in SUBSET Nat
  OBVIOUS
<1>2. n \in Left
  <2>1. n = 0 * m + n /\ 0 \in Nat
    OBVIOUS
  <2> QED
    BY <2>1
<1>3. PICK r \in Left : \A x \in Left : r <= x
  <2> HIDE DEF Left
  <2> QED
    BY <1>1, <1>2, LeastOf
<1>4. PICK q \in Nat : n = q * m + r
  OBVIOUS
<1>5. ASSUME r >= m PROVE FALSE
  <2>1. r \in Nat /\ r - m \in Nat /\ q + 1 \in Nat
    BY <1>5
  <2>2. n = (q + 1) * m + (r - m)
    BY <1>4, <2>1
  <2>3. r - m \in Left
    BY <2>1, <2>2
  <2>4. ~(r <= r - m)
    BY <2>1
  <2> HIDE DEF Left
  <2> QED
    BY <1>3, <2>3, <2>4
<1>6. r \in 0..(m - 1)
  BY <1>5
<1> HIDE DEF Left
<1> QED
  BY <1>4, <1>6

\* What a loop of n rounds has computed after each of them.
Computes(f, n, first, round) ==
    f[0] = first /\ \A k \in 1..n : f[k] = round[k][f[k - 1]]

LEMMA Rounds ==
    ASSUME NEW n \in Nat, NEW T, NEW first \in T, NEW round \in [1..n -> [T -> T]]
    PROVE  \E f \in [0..n -> T] : Computes(f, n, first, round)
<1> DEFINE Bad == {m \in 0..n : ~\E f \in [0..m -> T] : Computes(f, m, first, round)}
<1>1. ASSUME Bad # {} PROVE FALSE
  <2>1. Bad \in SUBSET Nat
    OBVIOUS
  <2>2. PICK m \in Bad : \A l \in Bad : m <= l
    <3> HIDE DEF Bad
    <3> QED
      BY <1>1, <2>1, LeastOf
  <2>3. m \in 0..n /\ ~\E f \in [0..m -> T] : Computes(f, m, first, round)
    OBVIOUS
  <2>4. CASE m = 0
    <3> DEFINE g == [k \in 0..0 |-> first]
    <3>1. g \in [0..0 -> T] /\ Computes(g, 0, first, round)
      BY DEF Computes
    <3> QED
      BY <2>3, <2>4, <3>1
  <2>5. CASE m # 0
    <3>1. m - 1 \in 0..n /\ m - 1 \notin Bad
      <4>1. m - 1 \in 0..n /\ ~(m <= m - 1)
        BY <2>3, <2>5
      <4> HIDE DEF Bad
      <4> QED
        BY <4>1, <2>2
    <3>2. PICK f \in [0..(m - 1) -> T] : Computes(f, m - 1, first, round)
      BY <3>1
    <3> DEFINE g == [k \in 0..m |-> IF k = m THEN round[m][f[m - 1]] ELSE f[k]]
    <3>3. round[m][f[m - 1]] \in T
      BY <2>3, <2>5
    <3>4. g \in [0..m -> T]
      BY <3>3
    <3>5. Computes(g, m, first, round)
      BY <2>3, <2>5, <3>2 DEF Computes
    <3> QED
      BY <2>3, <3>4, <3>5
  <2> QED
    BY <2>4, <2>5
<1>2. n \notin Bad
  BY <1>1
<1> QED
  BY <1>2

\* Induction up to n, for the numbers of a set.
LEMMA UpTo ==
    ASSUME NEW n \in Nat, NEW P \in SUBSET Nat, 0 \in P,
           \A k \in 0..n : (k \in P /\ k < n) => k + 1 \in P
    PROVE  0..n \subseteq P
<1> DEFINE Bad == {m \in 0..n : m \notin P}
<1>1. ASSUME Bad # {} PROVE FALSE
  <2>1. Bad \in SUBSET Nat
    OBVIOUS
  <2>2. PICK m \in Bad : \A l \in Bad : m <= l
    <3> HIDE DEF Bad
    <3> QED
      BY <1>1, <2>1, LeastOf
  <2>3. m \in 0..n /\ m \notin P /\ m # 0
    OBVIOUS
  <2>4. m - 1 \in 0..n /\ m - 1 < n /\ ~(m <= m - 1)
    BY <2>3
  <2>5. m - 1 \notin Bad
    <3> HIDE DEF Bad
    <3> QED
      BY <2>2, <2>4
  <2>6. m - 1 \in P
    BY <2>4, <2>5
  <2>7. (m - 1) + 1 \in P
    BY <2>4, <2>6
  <2> QED
    BY <2>3, <2>7
<1> QED
  BY <1>1

--------------------------------------------------------------------------------
(* Dynamic arrays: what is true throughout.                                *)

Fates == {"stored", "freed", "result", "refused", "freed_twice"}

\* The array the list has; one that has failed is empty, in the scratch buffer.
Array ==
    /\ used \in Nat /\ allocated \in Nat /\ on_heap \in BOOLEAN /\ heap \in Nat
    /\ elems \in Seq(Int) /\ kept \in Seq(Int) /\ items \in Seq(Fates)
    /\ used = Len(kept) /\ used <= Len(elems) /\ Len(items) <= MaxItems
    /\ IF D!HasFailed THEN used = 0 ELSE Len(elems) = allocated
    /\ D!HasFailed => ~on_heap
    /\ ~on_heap => Len(elems) = InitialSize
    /\ \A p \in 1..used : elems[p] = kept[p]
    /\ heap = IF on_heap THEN 1 ELSE 0

\* An item that is stored lies at one place, and only such items do.
Owned(places, fates) ==
    /\ \A p \in 1..Len(places) :
          /\ places[p] \in 0..Len(fates)
          /\ places[p] # 0 => fates[places[p]] = "stored"
    /\ \A p, q \in 1..Len(places) : (places[p] = places[q] /\ places[p] # 0) => p = q
    /\ \A n \in 1..Len(fates) :
          /\ fates[n] # "freed_twice"
          /\ fates[n] = "stored" => \E p \in 1..Len(places) : places[p] = n

DynInv == Array /\ Owned(kept, items)

LEMMA SizesAreNumbers ==
    /\ InitialSize \in Nat /\ MaxItems \in Nat /\ HeapSize \in Nat /\ ElementSize \in Nat
    /\ SizeMax \in Nat /\ InitialSize < SizeMax
    /\ HeapSize > 0 /\ ElementSize > 0 /\ SizeMax > 0
BY StoreAssumption DEF D!DynarrayAssumption

\* What freeing the elements at places does to the items (free__elements__).
LEMMA FreedFates ==
    ASSUME Array, Owned(kept, items),
           NEW fates \in Seq(Fates), Len(items) <= Len(fates),
           \A n \in 1..Len(items) : fates[n] = items[n],
           NEW places \in SUBSET (1..used)
    PROVE  /\ D!Freed(fates, places) \in Seq(Fates)
           /\ Len(D!Freed(fates, places)) = Len(fates)
           /\ \A n \in 1..Len(fates) :
                 D!Freed(fates, places)[n] =
                    IF \E p \in places : kept[p] = n THEN "freed" ELSE fates[n]
<1> DEFINE F == D!Freed(fates, places)
<1>1. \A n \in 1..Len(fates) :
         F[n] = IF \E p \in places : kept[p] = n THEN "freed" ELSE fates[n]
  <2> SUFFICES ASSUME NEW n \in 1..Len(fates)
               PROVE  F[n] = IF \E p \in places : kept[p] = n THEN "freed" ELSE fates[n]
    OBVIOUS
  <2>1. F[n] = IF \E p \in places : elems[p] = n
               THEN (IF fates[n] = "stored" THEN "freed" ELSE "freed_twice")
               ELSE fates[n]
    <3>1. DOMAIN fates = 1..Len(fates)
      OBVIOUS
    <3> QED
      BY <3>1 DEF D!Freed
  <2>2. \A p \in places : elems[p] = kept[p] /\ p \in 1..Len(kept)
    BY DEF Array
  <2>3. CASE \E p \in places : kept[p] = n
    <3>1. PICK p \in places : kept[p] = n
      BY <2>3
    <3>2. items[n] = "stored" /\ n \in 1..Len(items)
      <4>1. p \in 1..Len(kept) /\ kept[p] # 0
        BY <3>1, <2>2
      <4>2. kept[p] \in 0..Len(items) /\ items[kept[p]] = "stored"
        BY <4>1 DEF Owned
      <4> QED
        BY <3>1, <4>1, <4>2
    <3> QED
      BY <2>1, <2>2, <2>3, <3>2
  <2>4. CASE ~\E p \in places : kept[p] = n
    BY <2>1, <2>2, <2>4
  <2> QED
    BY <2>3, <2>4
<1>2. F = [n \in 1..Len(fates) |-> F[n]]
  BY DEF D!Freed
<1>3. \A n \in 1..Len(fates) : F[n] \in Fates
  <2>1. "freed" \in Fates
    BY DEF Fates
  <2> QED
    BY <1>1, <2>1
<1> HIDE DEF F
<1>4. F \in Seq(Fates) /\ Len(F) = Len(fates)
  BY <1>2, <1>3
<1> QED
  BY <1>1, <1>4 DEF F

\* A list that is back in its scratch buffer owns nothing (free__array__).
LEMMA ScratchOwnsNothing ==
    ASSUME Array, NEW room \in {InitialSize, SizeMax}, D!Scratch(room),
           NEW fates \in Seq(Fates), items' = fates, Len(fates) <= MaxItems,
           \A n \in 1..Len(fates) : fates[n] # "stored" /\ fates[n] # "freed_twice"
    PROVE  DynInv'
<1>1. InitialSize \in Nat /\ SizeMax \in Nat /\ InitialSize < SizeMax
  BY SizesAreNumbers
<1>2. /\ used' = 0 /\ allocated' = room /\ on_heap' = FALSE /\ kept' = << >>
      /\ elems' = [p \in 1..InitialSize |-> D!Undefined]
      /\ heap' = heap - (IF on_heap THEN 1 ELSE 0)
  BY DEF D!Scratch
<1>3. D!Undefined \in Int
  BY SizesAreNumbers DEF D!Undefined
<1>4. elems' \in Seq(Int) /\ Len(elems') = InitialSize
  BY <1>1, <1>2, <1>3
<1>5. heap' = 0
  BY <1>2 DEF Array
<1>6. Array'
  <2>1. on_heap' \in BOOLEAN /\ heap' \in Nat /\ used' \in Nat /\ allocated' \in Nat
    <3>1. room \in Nat
      BY <1>1
    <3>2. on_heap' \in BOOLEAN
      BY <1>2
    <3>3. heap' \in Nat /\ used' \in Nat /\ allocated' \in Nat
      BY <3>1, <1>2, <1>5
    <3> QED
      BY <3>2, <3>3
  <2>2. kept' \in Seq(Int) /\ Len(kept') = 0 /\ items' \in Seq(Fates)
    BY <1>2
  <2>3. D!HasFailed' <=> room = SizeMax
    BY <1>2 DEF D!HasFailed, D!Marker
  <2>4. IF D!HasFailed' THEN used' = 0 ELSE Len(elems') = allocated'
    BY <1>1, <1>2, <1>4, <2>3
  <2> QED
    BY <1>1, <1>2, <1>4, <1>5, <2>1, <2>2, <2>4 DEF Array
<1>7. Owned(kept', items')
  BY <1>2 DEF Owned
<1> QED
  BY <1>6, <1>7 DEF DynInv

\* Freeing every element leaves none that is stored (mark_failed, free).
LEMMA FreeingAll ==
    ASSUME DynInv, NEW room \in {InitialSize, SizeMax}, D!Scratch(room),
           NEW fates \in Seq(Fates), Len(items) <= Len(fates), Len(fates) <= MaxItems,
           \A n \in 1..Len(items) : fates[n] = items[n],
           \A n \in (Len(items) + 1)..Len(fates) : fates[n] = "refused",
           items' = D!Freed(fates, D!Places)
    PROVE  DynInv'
<1> DEFINE F == D!Freed(fates, D!Places)
<1>1. /\ F \in Seq(Fates) /\ Len(F) = Len(fates)
      /\ \A n \in 1..Len(fates) :
            F[n] = IF \E p \in 1..used : kept[p] = n THEN "freed" ELSE fates[n]
  <2>1. 1..used \in SUBSET (1..used) /\ Array /\ Owned(kept, items)
    BY DEF DynInv
  <2>2. D!Places = 1..used
    BY DEF D!Places
  <2> HIDE DEF F
  <2>3. F = D!Freed(fates, 1..used)
    BY <2>2 DEF F
  <2>4. /\ D!Freed(fates, 1..used) \in Seq(Fates)
        /\ Len(D!Freed(fates, 1..used)) = Len(fates)
        /\ \A n \in 1..Len(fates) :
              D!Freed(fates, 1..used)[n] =
                IF \E p \in 1..used : kept[p] = n THEN "freed" ELSE fates[n]
    BY <2>1, FreedFates
  <2> QED
    BY <2>3, <2>4
<1> HIDE DEF F
<1>2. ASSUME NEW n \in 1..Len(fates)
      PROVE  F[n] # "stored" /\ F[n] # "freed_twice"
  <2>1. CASE n \in 1..Len(items)
    <3>1. used = Len(kept) /\ Owned(kept, items)
      BY DEF DynInv, Array
    <3>2. /\ items[n] # "freed_twice"
          /\ items[n] = "stored" => \E p \in 1..used : kept[p] = n
      BY <2>1, <3>1 DEF Owned
    <3> QED
      BY <1>1, <2>1, <3>2
  <2>2. CASE n \in (Len(items) + 1)..Len(fates)
    BY <1>1, <2>2
  <2> QED
    BY <2>1, <2>2 DEF DynInv, Array
<1>3. items' = F
  BY DEF F
<1> QED
  BY <1>1, <1>2, <1>3, ScratchOwnsNothing DEF DynInv

\* One more element, behind the others, of an array with room for it.
LEMMA OneMore ==
    ASSUME DynInv, NEW element \in Nat, NEW fates \in Seq(Fates),
           \/ element = 0 /\ fates = items
           \/ /\ element = Len(items) + 1 /\ element <= MaxItems
              /\ fates = Append(items, "stored"),
           NEW room \in Nat, NEW array \in Seq(Int), Len(array) = room,
           used < room, room # SizeMax,
           \A p \in 1..used : array[p] = kept[p],
           elems' = [array EXCEPT ![used + 1] = element], allocated' = room,
           used' = used + 1, items' = fates, kept' = Append(kept, element),
           on_heap' \in BOOLEAN, heap' = IF on_heap' THEN 1 ELSE 0,
           ~on_heap' => room = InitialSize
    PROVE  DynInv'
<1>1. /\ used \in Nat /\ kept \in Seq(Int) /\ items \in Seq(Fates) /\ used = Len(kept)
      /\ Len(items) <= MaxItems /\ MaxItems \in Nat
  BY SizesAreNumbers DEF DynInv, Array
<1>2. /\ kept' \in Seq(Int) /\ Len(kept') = used + 1
      /\ \A p \in 1..used : kept'[p] = kept[p]
      /\ kept'[used + 1] = element
  BY <1>1
<1>3. /\ elems' \in Seq(Int) /\ Len(elems') = room
      /\ \A p \in 1..used : elems'[p] = kept[p]
      /\ elems'[used + 1] = element
  BY <1>1
<1>4. ~D!HasFailed'
  BY DEF D!HasFailed, D!Marker
<1>5. \A p \in 1..(used + 1) : elems'[p] = kept'[p]
  BY <1>1, <1>2, <1>3
<1>6. Len(items') <= MaxItems
  BY <1>1
<1>7. heap' \in Nat
  OBVIOUS
<1>8. Array'
  BY <1>1, <1>2, <1>3, <1>4, <1>5, <1>6, <1>7 DEF Array
<1>9. Owned(Append(kept, element), fates)
  <2>1. Owned(kept, items)
    BY DEF DynInv
  <2>2. CASE element = 0 /\ fates = items
    BY <1>1, <2>1, <2>2, SMTT(30) DEF Owned
  <2>3. CASE /\ element = Len(items) + 1 /\ element <= MaxItems
             /\ fates = Append(items, "stored")
    <3>1. /\ Len(fates) = Len(items) + 1 /\ fates[element] = "stored"
          /\ \A n \in 1..Len(items) : fates[n] = items[n]
      BY <1>1, <2>3
    <3> DEFINE K == Append(kept, element)
    <3>2. /\ Len(K) = used + 1 /\ K[used + 1] = element
          /\ \A p \in 1..used : K[p] = kept[p]
      BY <1>1
    <3> HIDE DEF K
    <3>0. /\ \A p \in 1..used : /\ kept[p] \in 0..Len(items)
                                /\ kept[p] # 0 => items[kept[p]] = "stored"
          /\ \A p, q \in 1..used : (kept[p] = kept[q] /\ kept[p] # 0) => p = q
      BY <1>1, <2>1 DEF Owned
    <3>3. \A p \in 1..Len(K) : K[p] \in 0..Len(fates) /\ (K[p] # 0 => fates[K[p]] = "stored")
      <4> SUFFICES ASSUME NEW p \in 1..Len(K)
                   PROVE  K[p] \in 0..Len(fates) /\ (K[p] # 0 => fates[K[p]] = "stored")
        OBVIOUS
      <4>1. CASE p = used + 1
        BY <1>1, <2>3, <3>1, <3>2, <4>1
      <4>2. CASE p # used + 1
        <5>1. p \in 1..used /\ K[p] = kept[p]
          BY <1>1, <3>2, <4>2
        <5>2. K[p] \in 0..Len(items) /\ (K[p] # 0 => items[K[p]] = "stored")
          BY <3>0, <5>1
        <5> QED
          BY <1>1, <3>1, <5>2
      <4> QED
        BY <4>1, <4>2
    <3>4. \A p, q \in 1..Len(K) : (K[p] = K[q] /\ K[p] # 0) => p = q
      <4> SUFFICES ASSUME NEW p \in 1..Len(K), NEW q \in 1..Len(K), K[p] = K[q], K[p] # 0
                   PROVE  p = q
        OBVIOUS
      <4>1. \A r \in 1..used : K[r] # element
        BY <1>1, <2>3, <3>2, <3>0
      <4>2. p = used + 1 <=> q = used + 1
        BY <1>1, <3>2, <4>1
      <4>3. CASE p # used + 1
        <5>1. p \in 1..used /\ q \in 1..used
          BY <1>1, <3>2, <4>2, <4>3, SMTT(30)
        <5>2. kept[p] = kept[q] /\ kept[p] # 0
          BY <3>2, <5>1
        <5> QED
          BY <3>0, <5>1, <5>2
      <4> QED
        BY <4>2, <4>3
    <3>5. \A n \in 1..Len(fates) :
             /\ fates[n] # "freed_twice"
             /\ fates[n] = "stored" => \E p \in 1..Len(K) : K[p] = n
      <4> SUFFICES ASSUME NEW n \in 1..Len(fates)
                   PROVE  /\ fates[n] # "freed_twice"
                          /\ fates[n] = "stored" => \E p \in 1..Len(K) : K[p] = n
        OBVIOUS
      <4>1. CASE n = element
        <5>1. used + 1 \in 1..Len(K) /\ K[used + 1] = n
          BY <1>1, <3>2, <4>1
        <5>2. fates[n] = "stored"
          BY <3>1, <4>1
        <5> QED
          BY <5>1, <5>2
      <4>2. CASE n # element
        <5>1. n \in 1..Len(items) /\ fates[n] = items[n]
          BY <1>1, <2>3, <3>1, <4>2
        <5>2. /\ items[n] # "freed_twice"
              /\ items[n] = "stored" => \E p \in 1..used : kept[p] = n
          BY <1>1, <2>1, <5>1 DEF Owned
        <5> QED
          BY <1>1, <3>2, <5>1, <5>2
      <4> QED
        BY <4>1, <4>2
    <3>6. Owned(K, fates)
      BY <3>3, <3>4, <3>5 DEF Owned
    <3> QED
      BY <3>6 DEF K
  <2> QED
    BY <2>2, <2>3
<1> QED
  BY <1>8, <1>9 DEF DynInv

\* A size that malloc can give is not the mark of failure.
LEMMA FittingSizes ==
    ASSUME NEW room \in Nat, DynInv, D!Fits(room)
    PROVE  room # SizeMax /\ room > allocated
<1>1. ElementSize \in Nat /\ ElementSize > 0 /\ SizeMax \in Nat
  BY SizesAreNumbers
<1>2. room * ElementSize < SizeMax /\ room > allocated
  BY DEF D!Fits
<1>3. \A a, b \in Nat : b > 0 => a * b >= a
  OBVIOUS
<1> QED
  BY <1>1, <1>2, <1>3

LEMMA NewSizeIsNumber == DynInv => D!NewAllocated \in Nat
<1> SUFFICES ASSUME DynInv PROVE D!NewAllocated \in Nat
  OBVIOUS
<1>1. allocated \in Nat /\ HeapSize \in Nat /\ SizeMax \in Nat
  BY SizesAreNumbers DEF DynInv, Array
<1>2. (allocated + allocated \div 2 + 1) % (SizeMax + 1) \in Nat
  BY <1>1
<1> QED
  BY <1>1, <1>2 DEF D!NewAllocated

\* The copy of the array in a larger one.
LEMMA EnlargedKeeps ==
    ASSUME DynInv, NEW room \in Nat, room > allocated, ~D!HasFailed
    PROVE  /\ D!Enlarged(room) \in Seq(Int) /\ Len(D!Enlarged(room)) = room
           /\ \A p \in 1..used : D!Enlarged(room)[p] = kept[p]
           /\ used < room
<1>1. /\ elems \in Seq(Int) /\ Len(elems) = allocated /\ used <= Len(elems) /\ used \in Nat
      /\ \A p \in 1..used : elems[p] = kept[p]
  BY DEF DynInv, Array
<1>2. D!Undefined \in Int
  BY SizesAreNumbers DEF D!Undefined
<1> DEFINE E == D!Enlarged(room)
<1>3. E = [p \in 1..room |-> IF p <= Len(elems) THEN elems[p] ELSE D!Undefined]
  BY DEF D!Enlarged
<1> HIDE DEF E
<1>4. \A p \in 1..room : (IF p <= Len(elems) THEN elems[p] ELSE D!Undefined) \in Int
  BY <1>1, <1>2
<1>5. E \in Seq(Int) /\ Len(E) = room
  BY <1>3, <1>4
<1>6. \A p \in 1..used : E[p] = kept[p]
  BY <1>1, <1>3
<1> QED
  BY <1>1, <1>5, <1>6 DEF E

\* Room for one more element, from the array, from the heap, or not at all.
LEMMA EmplaceKeeps ==
    ASSUME DynInv, ~D!HasFailed, NEW element \in Nat, NEW fates \in Seq(Fates),
           \/ element = 0 /\ fates = items
           \/ /\ element = Len(items) + 1 /\ element <= MaxItems
              /\ fates = Append(items, "stored"),
           D!Emplace(element, fates)
    PROVE  DynInv'
<1>1. /\ used \in Nat /\ allocated \in Nat /\ elems \in Seq(Int) /\ on_heap \in BOOLEAN
      /\ items \in Seq(Fates) /\ used <= Len(elems) /\ Len(elems) = allocated
      /\ ~on_heap => allocated = InitialSize
      /\ \A p \in 1..used : elems[p] = kept[p]
      /\ heap = IF on_heap THEN 1 ELSE 0
      /\ Len(items) <= MaxItems
  BY DEF DynInv, Array
<1>2. CASE /\ used < allocated
           /\ elems' = [elems EXCEPT ![used + 1] = element]
           /\ used' = used + 1 /\ items' = fates /\ kept' = Append(kept, element)
           /\ UNCHANGED <<allocated, on_heap, heap>>
  <2>1. allocated # SizeMax
    BY DEF D!HasFailed, D!Marker
  <2> QED
    BY <1>1, <1>2, <2>1, OneMore
<1>3. CASE /\ D!Fits(D!NewAllocated)
           /\ D!MoveTo(D!NewAllocated, [D!Enlarged(D!NewAllocated) EXCEPT ![used + 1] = element])
           /\ used' = used + 1 /\ items' = fates /\ kept' = Append(kept, element)
  <2>1. PICK room \in Nat : room = D!NewAllocated
    BY NewSizeIsNumber
  <2>2. room # SizeMax /\ room > allocated
    BY <1>3, <2>1, FittingSizes
  <2>3. PICK array : array = D!Enlarged(room)
    OBVIOUS
  <2>4. /\ array \in Seq(Int) /\ Len(array) = room /\ used < room
        /\ \A p \in 1..used : array[p] = kept[p]
    BY <2>2, <2>3, EnlargedKeeps
  <2>5. /\ allocated' = room /\ elems' = [array EXCEPT ![used + 1] = element]
        /\ on_heap' = TRUE /\ heap' = heap + (IF on_heap THEN 0 ELSE 1)
    BY <1>3, <2>1, <2>3 DEF D!MoveTo
  <2>6. on_heap' \in BOOLEAN /\ heap' = 1
    BY <1>1, <2>5
  <2>7. heap' = IF on_heap' THEN 1 ELSE 0
    BY <2>5, <2>6
  <2> QED
    BY <1>3, <2>2, <2>4, <2>5, <2>6, <2>7, OneMore
<1>4. CASE D!MarkFailed([n \in DOMAIN fates |->
                            IF n = element THEN "refused" ELSE fates[n]])
  <2> DEFINE R == [n \in DOMAIN fates |-> IF n = element THEN "refused" ELSE fates[n]]
  <2>1. R = [n \in 1..Len(fates) |-> IF n = element THEN "refused" ELSE fates[n]]
    OBVIOUS
  <2>2. "refused" \in Fates
    BY DEF Fates
  <2>3. D!Scratch(SizeMax) /\ items' = D!Freed(R, D!Places)
    BY <1>4 DEF D!MarkFailed, D!Marker
  <2> HIDE DEF R
  <2>4. R \in Seq(Fates) /\ Len(R) = Len(fates)
    <3>1. \A n \in 1..Len(fates) : (IF n = element THEN "refused" ELSE fates[n]) \in Fates
      BY <2>2
    <3> QED
      BY <2>1, <3>1
  <2>5. Len(items) <= Len(R) /\ Len(R) <= MaxItems
    BY <1>1, <2>4
  <2>6. /\ \A n \in 1..Len(items) : R[n] = items[n]
        /\ \A n \in (Len(items) + 1)..Len(R) : R[n] = "refused"
    <3>1. CASE element = 0 /\ fates = items
      BY <1>1, <2>1, <2>4, <3>1
    <3>2. CASE element = Len(items) + 1 /\ fates = Append(items, "stored")
      <4>1. Len(fates) = Len(items) + 1 /\ \A n \in 1..Len(items) : fates[n] = items[n]
        BY <1>1, <3>2
      <4> QED
        BY <1>1, <2>1, <2>4, <3>2, <4>1
    <3> QED
      BY <3>1, <3>2
  <2> QED
    BY <2>3, <2>4, <2>5, <2>6, FreeingAll
<1> QED
  BY <1>2, <1>3, <1>4 DEF D!Emplace

LEMMA AddKeeps == ASSUME DynInv, D!Add PROVE DynInv'
<1>1. items \in Seq(Fates) /\ "stored" \in Fates
  BY DEF DynInv, Array, Fates
<1>2. D!Item = Len(items) + 1 /\ D!Item \in Nat
  BY <1>1 DEF D!Item
<1>3. ~D!HasFailed /\ D!Item <= MaxItems /\ D!Emplace(D!Item, Append(items, "stored"))
  BY DEF D!Add
<1>4. Append(items, "stored") \in Seq(Fates)
  BY <1>1
<1> QED
  BY <1>2, <1>3, <1>4, EmplaceKeeps

LEMMA EmplaceZeroKeeps == ASSUME DynInv, D!EmplaceZero PROVE DynInv'
<1>1. items \in Seq(Fates)
  BY DEF DynInv, Array
<1>2. ~D!HasFailed /\ D!Emplace(0, items)
  BY DEF D!EmplaceZero, D!Zero
<1> QED
  BY <1>1, <1>2, EmplaceKeeps

LEMMA FreeKeeps == ASSUME DynInv, D!DynFree PROVE DynInv'
<1>1. D!Scratch(InitialSize) /\ items' = D!Freed(items, D!Places)
  BY DEF D!DynFree
<1>2. items \in Seq(Fates) /\ Len(items) <= MaxItems
  BY DEF DynInv, Array
<1> QED
  BY <1>1, <1>2, FreeingAll

LEMMA GrowFailsKeeps == ASSUME DynInv, NEW room \in Nat, D!GrowFails(room) PROVE DynInv'
<1>1. D!Scratch(SizeMax) /\ items' = D!Freed(items, D!Places)
  BY DEF D!GrowFails, D!MarkFailed, D!Marker
<1>2. items \in Seq(Fates) /\ Len(items) <= MaxItems
  BY DEF DynInv, Array
<1> QED
  BY <1>1, <1>2, FreeingAll

\* The elements of a list that has not failed go to the result (finalize).
LEMMA FinalizeKeeps == ASSUME DynInv, D!Finalize PROVE DynInv'
<1>1. CASE D!DynFree
  BY <1>1, FreeKeeps
<1>2. CASE /\ D!Scratch(InitialSize)
           /\ items' = [n \in DOMAIN items |->
                            IF \E p \in D!Places : elems[p] = n THEN "result" ELSE items[n]]
  <2> DEFINE R == [n \in 1..Len(items) |->
                      IF \E p \in 1..used : elems[p] = n THEN "result" ELSE items[n]]
  <2>1. /\ items \in Seq(Fates) /\ Len(items) <= MaxItems
        /\ \A p \in 1..used : elems[p] = kept[p]
        /\ used = Len(kept) /\ Owned(kept, items) /\ Array
    BY DEF DynInv, Array
  <2>2. items' = R
    BY <1>2, <2>1 DEF D!Places
  <2>3. "result" \in Fates
    BY DEF Fates
  <2>4. R \in Seq(Fates) /\ Len(R) = Len(items)
    <3>1. \A n \in 1..Len(items) :
             (IF \E p \in 1..used : elems[p] = n THEN "result" ELSE items[n]) \in Fates
      BY <2>1, <2>3
    <3> QED
      BY <3>1
  <2>5. ASSUME NEW n \in 1..Len(R)
        PROVE  R[n] # "stored" /\ R[n] # "freed_twice"
    <3>1. /\ items[n] # "freed_twice"
          /\ items[n] = "stored" => \E p \in 1..used : kept[p] = n
      BY <2>1, <2>4 DEF Owned
    <3>2. R[n] = IF \E p \in 1..used : elems[p] = n THEN "result" ELSE items[n]
      BY <2>4
    <3> QED
      BY <2>1, <3>1, <3>2
  <2> HIDE DEF R
  <2> QED
    BY <1>2, <2>1, <2>2, <2>4, <2>5, ScratchOwnsNothing
<1> QED
  BY <1>1, <1>2 DEF D!Finalize

\* An item takes the place that EmplaceZero or Grow made.
LEMMA StoreKeeps == ASSUME DynInv, D!Store PROVE DynInv'
<1>1. /\ used \in Nat /\ elems \in Seq(Int) /\ kept \in Seq(Int) /\ items \in Seq(Fates)
      /\ used = Len(kept) /\ used <= Len(elems) /\ Array /\ Owned(kept, items)
      /\ \A p \in 1..used : elems[p] = kept[p]
  BY DEF DynInv, Array
<1>2. PICK item : item = Len(items) + 1
  OBVIOUS
<1>3. PICK place \in 1..used :
         /\ elems[place] = 0 /\ elems' = [elems EXCEPT ![place] = item]
         /\ kept' = [kept EXCEPT ![place] = item]
  BY <1>2 DEF D!Store, D!Places, D!Zero, D!Item
<1>4. /\ item <= MaxItems /\ items' = Append(items, "stored")
      /\ UNCHANGED <<used, allocated, on_heap, heap>>
  BY <1>2 DEF D!Store, D!Item
<1>5. "stored" \in Fates
  BY DEF Fates
<1>6. /\ items' \in Seq(Fates) /\ Len(items') = item /\ items'[item] = "stored"
      /\ \A n \in 1..Len(items) : items'[n] = items[n]
      /\ item \in Nat /\ item > 0
  BY <1>1, <1>2, <1>4, <1>5
<1>7. /\ kept' \in Seq(Int) /\ Len(kept') = used /\ kept'[place] = item
      /\ elems' \in Seq(Int) /\ Len(elems') = Len(elems) /\ elems'[place] = item
      /\ \A p \in 1..used : p # place => kept'[p] = kept[p] /\ elems'[p] = elems[p]
  BY <1>1, <1>3, <1>6
<1>8. Array'
  <2>1. \A p \in 1..used : elems'[p] = kept'[p]
    BY <1>1, <1>7
  <2>2. D!HasFailed' <=> D!HasFailed
    BY <1>4 DEF D!HasFailed
  <2> QED
    BY <1>1, <1>4, <1>6, <1>7, <2>1, <2>2 DEF Array
<1>9. Owned(kept', items')
  <2> DEFINE K == kept'
             F == items'
  <2>1. /\ \A p \in 1..used : /\ kept[p] \in 0..Len(items)
                              /\ kept[p] # 0 => items[kept[p]] = "stored"
        /\ \A p, q \in 1..used : (kept[p] = kept[q] /\ kept[p] # 0) => p = q
        /\ \A n \in 1..Len(items) :
              /\ items[n] # "freed_twice"
              /\ items[n] = "stored" => \E p \in 1..used : kept[p] = n
    BY <1>1 DEF Owned
  <2>2. kept[place] = 0
    BY <1>1, <1>3
  <2>3. /\ Len(K) = used /\ K[place] = item /\ Len(F) = item /\ F[item] = "stored"
        /\ \A p \in 1..used : p # place => K[p] = kept[p]
        /\ \A n \in 1..Len(items) : F[n] = items[n]
    BY <1>6, <1>7
  <2> HIDE DEF K, F
  <2>4. \A p \in 1..used : K[p] \in 0..item /\ (K[p] # 0 => F[K[p]] = "stored")
    <3> SUFFICES ASSUME NEW p \in 1..used
                 PROVE  K[p] \in 0..item /\ (K[p] # 0 => F[K[p]] = "stored")
      OBVIOUS
    <3>1. CASE p = place
      BY <1>6, <2>3, <3>1
    <3>2. CASE p # place
      <4>1. K[p] = kept[p] /\ kept[p] \in 0..Len(items)
        BY <2>1, <2>3, <3>2
      <4>2. kept[p] # 0 => items[kept[p]] = "stored" /\ kept[p] \in 1..Len(items)
        BY <2>1, <4>1
      <4> QED
        BY <1>1, <1>2, <2>3, <4>1, <4>2
    <3> QED
      BY <3>1, <3>2
  <2>5. \A p, q \in 1..used : (K[p] = K[q] /\ K[p] # 0) => p = q
    <3> SUFFICES ASSUME NEW p \in 1..used, NEW q \in 1..used, K[p] = K[q], K[p] # 0
                 PROVE  p = q
      OBVIOUS
    <3>1. \A r \in 1..used : kept[r] # item
      BY <1>1, <1>2, <2>1
    <3>2. p = place <=> q = place
      BY <2>3, <3>1
    <3>3. CASE p # place
      <4>1. kept[p] = kept[q] /\ kept[p] # 0
        BY <2>3, <3>2, <3>3
      <4> QED
        BY <2>1, <4>1
    <3> QED
      BY <3>2, <3>3
  <2>6. \A n \in 1..item : /\ F[n] # "freed_twice"
                           /\ F[n] = "stored" => \E p \in 1..used : K[p] = n
    <3> SUFFICES ASSUME NEW n \in 1..item
                 PROVE  /\ F[n] # "freed_twice"
                        /\ F[n] = "stored" => \E p \in 1..used : K[p] = n
      OBVIOUS
    <3>1. CASE n = item
      BY <2>3, <3>1
    <3>2. CASE n # item
      <4>1. n \in 1..Len(items) /\ F[n] = items[n]
        BY <1>1, <1>2, <2>3, <3>2
      <4>2. /\ items[n] # "freed_twice"
            /\ items[n] = "stored" => \E p \in 1..used : kept[p] = n
        BY <2>1, <4>1
      <4>3. \A p \in 1..used : kept[p] = n => K[p] = n
        BY <2>2, <2>3
      <4> QED
        BY <4>1, <4>2, <4>3
    <3> QED
      BY <3>1, <3>2
  <2>7. Owned(K, F)
    BY <2>3, <2>4, <2>5, <2>6 DEF Owned
  <2> QED
    BY <2>7 DEF K, F
<1> QED
  BY <1>8, <1>9 DEF DynInv

\* More elements, all of zero bytes (__libc_dynarray_resize_clear).
LEMMA GrowKeeps == ASSUME DynInv, NEW room \in Nat, D!Grow(room) PROVE DynInv'
<1>1. /\ used \in Nat /\ allocated \in Nat /\ elems \in Seq(Int) /\ kept \in Seq(Int)
      /\ on_heap \in BOOLEAN /\ used = Len(kept) /\ used <= Len(elems)
      /\ Array /\ Owned(kept, items)
      /\ \A p \in 1..used : elems[p] = kept[p]
      /\ heap = IF on_heap THEN 1 ELSE 0
  BY DEF DynInv, Array
<1>2. /\ room > used /\ ~D!HasFailed /\ used' = room /\ items' = items
      /\ kept' = kept \o [p \in 1..(room - used) |-> 0]
  BY DEF D!Grow, D!Zero
<1>3. Len(elems) = allocated /\ allocated # SizeMax /\ (~on_heap => allocated = InitialSize)
  BY <1>1, <1>2 DEF Array, D!HasFailed, D!Marker
<1>4. PICK array \in Seq(Int) :
         /\ Len(array) >= room /\ \A p \in 1..used : array[p] = kept[p]
         /\ elems' = [p \in DOMAIN array |-> IF p \in (used + 1)..room THEN 0 ELSE array[p]]
         /\ allocated' = Len(array) /\ Len(array) # SizeMax
         /\ on_heap' \in BOOLEAN /\ heap' = IF on_heap' THEN 1 ELSE 0
         /\ ~on_heap' => Len(array) = InitialSize
  <2>1. CASE /\ room <= allocated
             /\ elems' = [p \in DOMAIN elems |->
                             IF p \in (used + 1)..room THEN 0 ELSE elems[p]]
             /\ UNCHANGED <<allocated, on_heap, heap>>
    BY <1>1, <1>3, <2>1
  <2>2. CASE /\ D!Fits(room)
             /\ D!MoveTo(room, [p \in DOMAIN D!Enlarged(room) |->
                             IF p \in (used + 1)..room THEN 0 ELSE D!Enlarged(room)[p]])
    <3>1. room # SizeMax /\ room > allocated
      BY <2>2, FittingSizes
    <3>2. PICK array : array = D!Enlarged(room)
      OBVIOUS
    <3>3. /\ array \in Seq(Int) /\ Len(array) = room
          /\ \A p \in 1..used : array[p] = kept[p]
      BY <1>2, <3>1, <3>2, EnlargedKeeps
    <3>4. /\ allocated' = room
          /\ elems' = [p \in DOMAIN array |-> IF p \in (used + 1)..room THEN 0 ELSE array[p]]
          /\ on_heap' = TRUE /\ heap' = heap + (IF on_heap THEN 0 ELSE 1)
      BY <2>2, <3>2 DEF D!MoveTo
    <3>5. on_heap' \in BOOLEAN /\ heap' = 1
      BY <1>1, <3>4
    <3>6. heap' = IF on_heap' THEN 1 ELSE 0
      BY <3>4, <3>5
    <3> QED
      BY <3>1, <3>3, <3>4, <3>5, <3>6
  <2> QED
    BY <2>1, <2>2 DEF D!Grow, D!Zero
<1>5. /\ kept' \in Seq(Int) /\ Len(kept') = room
      /\ \A p \in 1..used : kept'[p] = kept[p]
      /\ \A p \in (used + 1)..room : kept'[p] = 0
  <2>1. [p \in 1..(room - used) |-> 0] \in Seq(Int)
    BY <1>1, <1>2
  <2>2. Len([p \in 1..(room - used) |-> 0]) = room - used
    BY <1>1, <1>2
  <2>3. \A p \in (used + 1)..room : p - used \in 1..(room - used)
    BY <1>1
  <2> QED
    BY <1>1, <1>2, <2>1, <2>2, <2>3
<1>6. elems' = [p \in 1..Len(array) |-> IF p \in (used + 1)..room THEN 0 ELSE array[p]]
  BY <1>4
<1>7. elems' \in Seq(Int) /\ Len(elems') = Len(array)
  BY <1>4, <1>6
<1>8. \A p \in 1..room : elems'[p] = kept'[p]
  BY <1>1, <1>2, <1>4, <1>5, <1>6
<1>9. Array'
  <2>1. ~D!HasFailed'
    BY <1>4 DEF D!HasFailed, D!Marker
  <2>2. /\ items' \in Seq(Fates) /\ Len(items') <= MaxItems
    BY <1>1, <1>2 DEF Array
  <2>3. heap' \in Nat
    BY <1>4
  <2>4. used' \in Nat /\ allocated' \in Nat /\ used' <= Len(elems') /\ used' = Len(kept')
    <3>1. Len(array) \in Nat /\ Len(array) >= room /\ allocated' = Len(array)
      BY <1>4
    <3> QED
      BY <1>2, <1>5, <1>7, <3>1
  <2> QED
    BY <1>2, <1>4, <1>5, <1>7, <1>8, <2>1, <2>2, <2>3, <2>4 DEF Array
<1>10. Owned(kept', items')
  <2> DEFINE K == kept'
  <2>1. /\ \A p \in 1..used : /\ kept[p] \in 0..Len(items)
                              /\ kept[p] # 0 => items[kept[p]] = "stored"
        /\ \A p, q \in 1..used : (kept[p] = kept[q] /\ kept[p] # 0) => p = q
        /\ \A n \in 1..Len(items) :
              /\ items[n] # "freed_twice"
              /\ items[n] = "stored" => \E p \in 1..used : kept[p] = n
    BY <1>1 DEF Owned
  <2>2. /\ Len(K) = room /\ \A p \in 1..used : K[p] = kept[p]
        /\ \A p \in 1..room : p \notin 1..used => K[p] = 0
    BY <1>1, <1>5
  <2>3. items \in Seq(Fates)
    BY <1>1 DEF Array
  <2> HIDE DEF K
  <2>4. \A p \in 1..room : K[p] \in 0..Len(items) /\ (K[p] # 0 => items[K[p]] = "stored")
    BY <2>1, <2>2, <2>3
  <2>5. \A p, q \in 1..room : (K[p] = K[q] /\ K[p] # 0) => p = q
    BY <2>1, <2>2
  <2>6. \A n \in 1..Len(items) : items[n] = "stored" => \E p \in 1..room : K[p] = n
    BY <1>1, <1>2, <2>1, <2>2
  <2>7. Owned(K, items)
    BY <2>1, <2>2, <2>4, <2>5, <2>6 DEF Owned
  <2> QED
    BY <1>2, <2>7 DEF K
<1> QED
  BY <1>9, <1>10 DEF DynInv

\* The elements behind the first ones are freed (resize, remove_last, clear).
LEMMA ShrinkKeeps == ASSUME DynInv, NEW room \in Nat, D!Shrink(room) PROVE DynInv'
<1>1. /\ used \in Nat /\ kept \in Seq(Int) /\ items \in Seq(Fates)
      /\ used = Len(kept) /\ Array /\ Owned(kept, items)
      /\ \A p \in 1..used : elems[p] = kept[p]
  BY DEF DynInv, Array
<1>2. /\ room <= used /\ items' = D!Freed(items, (room + 1)..used) /\ used' = room
      /\ kept' = SubSeq(kept, 1, room) /\ UNCHANGED <<allocated, elems, on_heap, heap>>
  BY DEF D!Shrink
<1>3. (room + 1)..used \in SUBSET (1..used)
  BY <1>1
<1>4. /\ items' \in Seq(Fates) /\ Len(items') = Len(items)
      /\ \A n \in 1..Len(items) :
            items'[n] = IF \E p \in (room + 1)..used : kept[p] = n THEN "freed" ELSE items[n]
  <2>1. /\ D!Freed(items, (room + 1)..used) \in Seq(Fates)
        /\ Len(D!Freed(items, (room + 1)..used)) = Len(items)
        /\ \A n \in 1..Len(items) :
              D!Freed(items, (room + 1)..used)[n] =
                 IF \E p \in (room + 1)..used : kept[p] = n THEN "freed" ELSE items[n]
    BY <1>1, <1>3, FreedFates
  <2> QED
    BY <1>2, <2>1
<1>5. /\ kept' \in Seq(Int) /\ Len(kept') = room
      /\ \A p \in 1..room : kept'[p] = kept[p]
  BY <1>1, <1>2
<1>6. Array'
  <2>1. D!HasFailed' <=> D!HasFailed
    BY <1>2 DEF D!HasFailed
  <2>2. \A p \in 1..room : elems'[p] = kept'[p]
    BY <1>1, <1>2, <1>5
  <2> QED
    BY <1>1, <1>2, <1>4, <1>5, <2>1, <2>2 DEF Array
<1>7. Owned(kept', items')
  <2> DEFINE K == kept'
             F == items'
  <2>1. /\ \A p \in 1..used : /\ kept[p] \in 0..Len(items)
                              /\ kept[p] # 0 => items[kept[p]] = "stored"
        /\ \A p, q \in 1..used : (kept[p] = kept[q] /\ kept[p] # 0) => p = q
        /\ \A n \in 1..Len(items) :
              /\ items[n] # "freed_twice"
              /\ items[n] = "stored" => \E p \in 1..used : kept[p] = n
    BY <1>1 DEF Owned
  <2>2. /\ Len(K) = room /\ \A p \in 1..room : K[p] = kept[p]
        /\ Len(F) = Len(items)
        /\ \A n \in 1..Len(items) :
              F[n] = IF \E p \in (room + 1)..used : kept[p] = n THEN "freed" ELSE items[n]
    BY <1>4, <1>5
  <2> HIDE DEF K, F
  <2>3. \A p \in 1..room : K[p] \in 0..Len(F) /\ (K[p] # 0 => F[K[p]] = "stored")
    <3> SUFFICES ASSUME NEW p \in 1..room
                 PROVE  K[p] \in 0..Len(F) /\ (K[p] # 0 => F[K[p]] = "stored")
      OBVIOUS
    <3>1. p \in 1..used /\ K[p] = kept[p] /\ kept[p] \in 0..Len(items)
      BY <1>1, <1>2, <2>1, <2>2
    <3>2. ASSUME kept[p] # 0 PROVE F[kept[p]] = "stored"
      <4>1. kept[p] \in 1..Len(items) /\ items[kept[p]] = "stored"
        BY <1>1, <2>1, <3>1, <3>2
      <4>2. ~\E q \in (room + 1)..used : kept[q] = kept[p]
        <5> SUFFICES ASSUME NEW q \in (room + 1)..used, kept[q] = kept[p] PROVE FALSE
          OBVIOUS
        <5>1. q \in 1..used
          BY <1>1
        <5>2. p = q
          BY <2>1, <3>1, <3>2, <5>1
        <5> QED
          BY <1>1, <5>2
      <4> QED
        BY <2>2, <4>1, <4>2
    <3> QED
      BY <2>2, <3>1, <3>2
  <2>4. \A p, q \in 1..room : (K[p] = K[q] /\ K[p] # 0) => p = q
    BY <1>1, <1>2, <2>1, <2>2
  <2>5. \A n \in 1..Len(F) : /\ F[n] # "freed_twice"
                             /\ F[n] = "stored" => \E p \in 1..room : K[p] = n
    <3> SUFFICES ASSUME NEW n \in 1..Len(F)
                 PROVE  /\ F[n] # "freed_twice"
                        /\ F[n] = "stored" => \E p \in 1..room : K[p] = n
      OBVIOUS
    <3>1. F[n] = IF \E p \in (room + 1)..used : kept[p] = n THEN "freed" ELSE items[n]
      BY <2>2
    <3>2. /\ items[n] # "freed_twice"
          /\ items[n] = "stored" => \E p \in 1..used : kept[p] = n
      BY <2>1, <2>2
    <3>3. \A p \in 1..used : p \in 1..room \/ p \in (room + 1)..used
      BY <1>1
    <3> QED
      BY <2>2, <3>1, <3>2, <3>3
  <2>6. Owned(K, F)
    BY <2>2, <2>3, <2>4, <2>5 DEF Owned
  <2> QED
    BY <2>6 DEF K, F
<1> QED
  BY <1>6, <1>7 DEF DynInv

LEMMA DynBegins == D!DynInit => DynInv
<1> SUFFICES ASSUME D!DynInit PROVE DynInv
  OBVIOUS
<1>1. /\ used = 0 /\ allocated = InitialSize /\ on_heap = FALSE
      /\ elems = [p \in 1..InitialSize |-> D!Undefined]
      /\ heap = 0 /\ items = << >> /\ kept = << >>
  BY DEF D!DynInit
<1>2. InitialSize \in Nat /\ MaxItems \in Nat /\ InitialSize < SizeMax /\ SizeMax \in Nat
  BY SizesAreNumbers
<1>3. D!Undefined \in Int
  BY <1>2 DEF D!Undefined
<1>4. elems \in Seq(Int) /\ Len(elems) = InitialSize
  BY <1>1, <1>2, <1>3
<1>5. on_heap \in BOOLEAN
  BY <1>1
<1>6. ~D!HasFailed
  BY <1>1, <1>2 DEF D!HasFailed, D!Marker
<1>7. Array
  BY <1>1, <1>2, <1>4, <1>5, <1>6 DEF Array
<1>8. Owned(kept, items)
  BY <1>1 DEF Owned
<1> QED
  BY <1>7, <1>8 DEF DynInv

LEMMA DynSteps == DynInv /\ [D!DynNext]_list => DynInv'
<1> SUFFICES ASSUME DynInv, [D!DynNext]_list PROVE DynInv'
  OBVIOUS
<1>1. ASSUME D!Resize PROVE DynInv'
  <2>1. PICK room \in 0..(MaxItems + 1) : D!Grow(room) \/ D!GrowFails(room) \/ D!Shrink(room)
    BY <1>1 DEF D!Resize
  <2>2. room \in Nat
    BY SizesAreNumbers
  <2> QED
    BY <2>1, <2>2, GrowKeeps, GrowFailsKeeps, ShrinkKeeps
<1>2. CASE UNCHANGED list
  BY <1>2 DEF list, DynInv, Array, D!HasFailed
<1> QED
  BY <1>1, <1>2, AddKeeps, EmplaceZeroKeeps, StoreKeeps, FreeKeeps, FinalizeKeeps
  DEF D!DynNext

LEMMA SameCardinality == \A P : D!Cardinality(P) = Cardinality(P)
BY DEF D!Cardinality, Cardinality

LEMMA OneOwner == DynInv => ElementsHaveOneOwner
<1> SUFFICES ASSUME DynInv PROVE D!ElementsHaveOneOwner
  BY DEF ElementsHaveOneOwner
<1>1. /\ used \in Nat /\ elems \in Seq(Int) /\ kept \in Seq(Int) /\ items \in Seq(Fates)
      /\ used = Len(kept) /\ used <= Len(elems) /\ Array /\ Owned(kept, items)
      /\ \A p \in 1..used : elems[p] = kept[p]
      /\ D!HasFailed => used = 0
      /\ heap = IF on_heap THEN 1 ELSE 0
  BY DEF DynInv, Array
<1>2. SubSeq(elems, 1, used) = kept
  BY <1>1
<1>3. ASSUME NEW n \in DOMAIN items
      PROVE  /\ items[n] # "freed_twice"
             /\ items[n] = "stored" <=> Cardinality({p \in D!Places : elems[p] = n}) = 1
  <2> DEFINE P == {p \in 1..used : elems[p] = n}
  <2>1. n \in 1..Len(items)
    BY <1>1
  <2>2. /\ items[n] # "freed_twice"
        /\ items[n] = "stored" => \E p \in 1..used : kept[p] = n
    BY <1>1, <2>1 DEF Owned
  <2>3. ASSUME items[n] = "stored" PROVE Cardinality(P) = 1
    <3>1. PICK p \in 1..used : kept[p] = n
      BY <2>2, <2>3
    <3>2. \A q \in 1..used : kept[q] = n => q = p
      BY <1>1, <2>1, <3>1 DEF Owned
    <3>3. P = {p}
      BY <1>1, <3>1, <3>2
    <3> QED
      BY <3>3, FS_Singleton
  <2>4. ASSUME Cardinality(P) = 1 PROVE items[n] = "stored"
    <3>1. P # {}
      BY <2>4, FS_EmptySet
    <3>2. PICK p \in 1..used : kept[p] = n
      BY <1>1, <3>1
    <3> QED
      BY <1>1, <2>1, <3>2 DEF Owned
  <2> QED
    BY <2>2, <2>3, <2>4 DEF D!Places
<1>4. used = Len(kept) /\ (D!HasFailed => used = 0) /\ used <= Len(elems)
  BY <1>1
<1>5. heap = IF on_heap THEN 1 ELSE 0
  BY <1>1
<1> QED
  BY <1>2, <1>3, <1>4, <1>5, SameCardinality DEF D!ElementsHaveOneOwner

\* Every element of a dynamic array is in the array, in the place it was stored,
\* or was freed once, or went to the result, and no array stays on the heap behind
\* a list that is in its scratch buffer, whatever is added, stored, resized and
\* finalized and wherever memory runs out (dynarray-skeleton.c lines 241-253,
\* 295-333; dynarray_emplace_enlarge.c lines 27-71).
THEOREM ElementsCorrect == StoreSpec => []ElementsHaveOneOwner
<1>1. StoreInit => DynInv
  BY DynBegins DEF StoreInit
<1>2. DynInv /\ [StoreNext]_storevars => DynInv'
  <2>1. [StoreNext]_storevars => [D!DynNext]_list
    BY DEF StoreNext, UseObstack, UseHsearch, UseDynarray, UseServices, UseNodeSet, storevars
  <2> QED
    BY <2>1, DynSteps
<1> QED
  BY <1>1, <1>2, OneOwner, PTL DEF StoreSpec

--------------------------------------------------------------------------------
(* Services: what is true throughout.                                      *)

Mem == MallocPlaces \union {0}

WalkTypes ==
    /\ file \in Files
    /\ sd \in [fp : Int, aliases : Mem, maxaliases : Nat, stayopen : BOOLEAN, line : Mem]
    /\ sd.fp >= -1
    /\ se \in [s_name : Mem, s_aliases : Mem, s_port : Int, s_proto : Mem]
    /\ at \in {"idle", "again", "aliases", "cells"} /\ alias \in Nat \ {0}
    /\ held \in Nat /\ cells \in Seq(Nat) /\ since \in Nat

\* What is allocated is the line and the vector, and they are two blocks.
Blocks ==
    /\ live = {sd.line, sd.aliases} \ {0}
    /\ sd.line = sd.aliases => sd.line = 0
    /\ Len(cells) <= sd.maxaliases
    /\ IF sd.aliases = 0 THEN sd.maxaliases = 0 ELSE sd.maxaliases > 1

NoEntryIn(a, b) == \A n \in (a + 1)..b : ~S!IsEntry(n)

\* The entry of the line that was read last, but for its aliases.
InHand ==
    /\ since < sd.fp /\ held = sd.fp /\ S!IsEntry(held) /\ NoEntryIn(since, sd.fp - 1)
    /\ sd.line # 0 /\ held \in 1..Len(file)
    /\ se.s_name = sd.line /\ se.s_proto = sd.line /\ se.s_port = file[held].port

Written(k) == k <= Len(cells) /\ \A i \in 1..k : cells[i] = i

\* How far the call has come.
Walk ==
    /\ at = "again" => since <= sd.fp /\ NoEntryIn(since, sd.fp)
    /\ at \in {"aliases", "cells"} => InHand
    /\ at = "cells" =>
          /\ se.s_aliases = sd.aliases /\ sd.aliases # 0
          /\ alias <= sd.maxaliases /\ alias <= Len(S!Aliases(held)) + 1
          /\ Written(alias - 1)
    /\ S!EntryIsItsLine

WalkInv == WalkTypes /\ Blocks /\ Walk

LEMMA PlacesAreBlocks ==
    0 \notin MallocPlaces /\ FirstAliases \in Nat /\ FirstAliases > 1
<1>1. 0 \notin MallocPlaces /\ FirstAliases \in Nat \ {0, 1}
  BY StoreAssumption DEF S!ServicesAssumption
<1> QED
  BY <1>1

\* The file is a sequence of lines, some with a port.
LEMMA FileIsLines ==
    ASSUME file \in Files
    PROVE  /\ Len(file) \in Nat /\ DOMAIN file = 1..Len(file)
           /\ \A n \in 1..Len(file) : /\ file[n].port \in Int
                                      /\ file[n].aliases \in Seq(STRING)
<1>1. \A port \in S!Ports : port \in Int
  BY SMTT(30) DEF S!Ports, S!NoPort
<1>2. \A line \in S!Lines : line.port \in Int /\ line.aliases \in Seq(STRING)
  <2>1. \A line \in S!Lines : line.port \in S!Ports /\ line.aliases \in Seq(STRING)
    BY DEF S!Lines
  <2> QED
    BY <1>1, <2>1
<1>3. file \in Seq(S!Lines)
  BY StoreAssumption DEF S!ServicesAssumption
<1> QED
  BY <1>2, <1>3

LEMMA WalkBegins == S!ServicesInit => WalkInv
<1> SUFFICES ASSUME S!ServicesInit PROVE WalkInv
  OBVIOUS
<1>1. /\ file \in Files /\ sd = S!NoData /\ se = S!NoEntry /\ at = "idle" /\ alias = 1
      /\ held = 0 /\ cells = << >> /\ live = {} /\ result = 0 /\ since = 0
  BY DEF S!ServicesInit
<1>2. /\ sd = [fp |-> -1, aliases |-> 0, maxaliases |-> 0, stayopen |-> FALSE, line |-> 0]
      /\ se = [s_name |-> 0, s_aliases |-> 0, s_port |-> -1, s_proto |-> 0]
  BY <1>1 DEF S!NoData, S!NoEntry, S!NULL, S!Closed, S!NoPort
<1>3. 0 \in Mem
  BY DEF Mem
<1>4. WalkTypes
  BY <1>1, <1>2, <1>3 DEF WalkTypes
<1>5. Blocks
  BY <1>1, <1>2 DEF Blocks
<1>6. Walk
  BY <1>1, <1>2 DEF Walk, S!EntryIsItsLine
<1> QED
  BY <1>4, <1>5, <1>6 DEF WalkInv

\* Nothing is kept of the file (endservent_r).
LEMMA EndedKeeps ==
    ASSUME WalkInv, S!Ended, at' = "idle", result' = -1, UNCHANGED <<file, alias, se, since>>
    PROVE  WalkInv'
<1>1. /\ sd' = [fp |-> -1, aliases |-> 0, maxaliases |-> 0, stayopen |-> FALSE, line |-> 0]
      /\ live' = live \ {sd.aliases, sd.line} /\ cells' = << >> /\ held' = 0
  BY DEF S!Ended, S!NoData, S!NULL, S!Closed
<1>2. live' = {}
  BY <1>1 DEF WalkInv, Blocks
<1>3. 0 \in Mem
  BY DEF Mem
<1>4. WalkTypes'
  BY <1>1, <1>3 DEF WalkInv, WalkTypes
<1>5. Blocks'
  BY <1>1, <1>2 DEF Blocks
<1>6. Walk'
  BY DEF Walk, S!EntryIsItsLine
<1> QED
  BY <1>4, <1>5, <1>6 DEF WalkInv

LEMMA EndKeeps == ASSUME WalkInv, S!endservent_r PROVE WalkInv'
BY EndedKeeps DEF S!endservent_r

LEMMA SetKeeps == ASSUME WalkInv, S!setservent_r PROVE WalkInv'
<1>1. PICK stay \in BOOLEAN, fp \in {-1, 0} : sd' = [sd EXCEPT !.fp = fp, !.stayopen = @ \/ stay]
  BY DEF S!setservent_r, S!Closed
<1>2. at = "idle" /\ result' = -1 /\ UNCHANGED <<file, alias, se, at, held, cells, live, since>>
  BY DEF S!setservent_r
<1>3. WalkTypes'
  <2>1. sd.stayopen \in BOOLEAN /\ (sd.stayopen \/ stay) \in BOOLEAN
    BY DEF WalkInv, WalkTypes
  <2>2. sd' = [sd EXCEPT !.fp = fp, !.stayopen = sd.stayopen \/ stay]
    BY <1>1
  <2>3. /\ sd' \in [fp : Int, aliases : Mem, maxaliases : Nat, stayopen : BOOLEAN, line : Mem]
        /\ sd'.fp = fp
    <3>1. PICK open \in BOOLEAN : open = (sd.stayopen \/ stay)
      BY <2>1
    <3>2. sd' = [sd EXCEPT !.fp = fp, !.stayopen = open]
      BY <2>2, <3>1
    <3>3. fp \in Int
      OBVIOUS
    <3> QED
      BY <3>2, <3>3, Zenon DEF WalkInv, WalkTypes
  <2> QED
    BY <1>1, <1>2, <2>3 DEF WalkInv, WalkTypes
<1>4. /\ sd'.aliases = sd.aliases /\ sd'.line = sd.line /\ sd'.maxaliases = sd.maxaliases
  BY <1>1 DEF WalkInv, WalkTypes
<1>5. Blocks'
  BY <1>2, <1>4 DEF WalkInv, Blocks
<1>6. Walk'
  BY <1>2 DEF Walk, S!EntryIsItsLine
<1> QED
  BY <1>3, <1>5, <1>6 DEF WalkInv

LEMMA GetKeeps == ASSUME WalkInv, S!getservent_r PROVE WalkInv'
<1>1. /\ at = "idle" /\ UNCHANGED <<file, alias, se, held, cells, live>>
      /\ since' = IF sd.fp = -1 THEN 0 ELSE sd.fp
  BY DEF S!getservent_r, S!Closed
<1>2. CASE at' = "again" /\ sd' = [sd EXCEPT !.fp = IF @ = -1 THEN 0 ELSE @]
  <2>1. /\ sd'.aliases = sd.aliases /\ sd'.line = sd.line /\ sd'.maxaliases = sd.maxaliases
        /\ sd'.fp = since' /\ sd'.fp \in Nat
        /\ sd' \in [fp : Int, aliases : Mem, maxaliases : Nat, stayopen : BOOLEAN, line : Mem]
    BY <1>1, <1>2, SMTT(30) DEF WalkInv, WalkTypes
  <2>2. WalkTypes'
    BY <1>1, <1>2, <2>1 DEF WalkInv, WalkTypes
  <2>3. Blocks'
    BY <1>1, <2>1 DEF WalkInv, Blocks
  <2>4. Walk'
    BY <1>2, <2>1 DEF Walk, NoEntryIn, S!EntryIsItsLine
  <2> QED
    BY <2>2, <2>3, <2>4 DEF WalkInv
<1>3. CASE at' = "idle" /\ result' = -1 /\ sd' = sd
  <2>1. WalkTypes'
    BY <1>1, <1>3 DEF WalkInv, WalkTypes
  <2>2. Blocks'
    BY <1>1, <1>3 DEF WalkInv, Blocks
  <2>3. Walk'
    BY <1>3 DEF Walk, S!EntryIsItsLine
  <2> QED
    BY <2>1, <2>2, <2>3 DEF WalkInv
<1> QED
  BY <1>2, <1>3 DEF S!getservent_r, S!Returns, S!Closed

\* What realloc may return is not the other block.
LEMMA NewPlaces ==
    ASSUME WalkInv, NEW q
    PROVE  /\ q \in S!Places(sd.line) => q \in Mem /\ q # 0 /\ q # sd.aliases
           /\ q \in S!Places(sd.aliases) => q \in Mem /\ q # 0 /\ q # sd.line
<1>1. /\ live = {sd.line, sd.aliases} \ {0}
      /\ sd.line = sd.aliases => sd.line = 0
      /\ sd.line \in Mem /\ sd.aliases \in Mem
  BY DEF WalkInv, Blocks, WalkTypes
<1> QED
  BY <1>1, PlacesAreBlocks DEF S!Places, S!NULL, Mem

LEMMA SkipKeeps == ASSUME WalkInv, S!SkipLine PROVE WalkInv'
<1>1. at = "again" /\ UNCHANGED <<file, alias, se, held, cells, live, since>>
  BY DEF S!SkipLine
<1>2. CASE at' = "idle" /\ result' = -1 /\ sd' = sd
  <2>1. WalkTypes'
    BY <1>1, <1>2 DEF WalkInv, WalkTypes
  <2>2. Blocks'
    BY <1>1, <1>2 DEF WalkInv, Blocks
  <2>3. Walk'
    BY <1>2 DEF Walk, S!EntryIsItsLine
  <2> QED
    BY <2>1, <2>2, <2>3 DEF WalkInv
<1>3. CASE /\ file[sd.fp + 1].name = S!NoName
           /\ sd' = [sd EXCEPT !.fp = @ + 1] /\ UNCHANGED <<at, result>>
  <2>1. /\ sd'.aliases = sd.aliases /\ sd'.line = sd.line /\ sd'.maxaliases = sd.maxaliases
        /\ sd'.fp = sd.fp + 1 /\ sd.fp \in Int /\ sd.fp >= -1 /\ since \in Nat
        /\ sd' \in [fp : Int, aliases : Mem, maxaliases : Nat, stayopen : BOOLEAN, line : Mem]
    BY <1>1, <1>3 DEF WalkInv, WalkTypes
  <2>2. WalkTypes'
    BY <1>1, <1>3, <2>1 DEF WalkInv, WalkTypes
  <2>3. Blocks'
    BY <1>1, <2>1 DEF WalkInv, Blocks
  <2>4. Walk'
    <3>1. since <= sd.fp /\ NoEntryIn(since, sd.fp)
      BY <1>1 DEF WalkInv, Walk
    <3>2. ~S!IsEntry(sd.fp + 1)
      BY <1>3 DEF S!IsEntry
    <3>3. ASSUME NEW n \in (since + 1)..(sd.fp + 1) PROVE ~S!IsEntry(n)
      BY <2>1, <3>1, <3>2 DEF NoEntryIn
    <3>4. \A n \in (since + 1)..(sd.fp + 1) : ~S!IsEntry(n)'
      BY <1>1, <3>3 DEF S!IsEntry
    <3>5. NoEntryIn(since, sd.fp)'
      BY <1>1, <2>1, <3>4 DEF NoEntryIn
    <3>6. since' <= sd'.fp
      BY <1>1, <2>1, <3>1
    <3> QED
      BY <1>1, <1>3, <3>5, <3>6 DEF Walk, S!EntryIsItsLine
  <2> QED
    BY <2>2, <2>3, <2>4 DEF WalkInv
<1> QED
  BY <1>2, <1>3 DEF S!SkipLine, S!Returns

LEMMA TakeFailsKeeps == ASSUME WalkInv, S!TakeLineFails PROVE WalkInv'
<1>1. /\ at' = "idle" /\ result' = -1 /\ sd' = [sd EXCEPT !.fp = @ + 1]
      /\ UNCHANGED <<file, alias, se, held, cells, live, since>>
  BY DEF S!TakeLineFails, S!Returns
<1>2. /\ sd'.aliases = sd.aliases /\ sd'.line = sd.line /\ sd'.maxaliases = sd.maxaliases
      /\ sd'.fp = sd.fp + 1 /\ sd.fp \in Int /\ sd.fp >= -1 /\ since \in Nat
      /\ sd' \in [fp : Int, aliases : Mem, maxaliases : Nat, stayopen : BOOLEAN, line : Mem]
  <2>1. /\ sd \in [fp : Int, aliases : Mem, maxaliases : Nat, stayopen : BOOLEAN, line : Mem]
        /\ sd.fp + 1 \in Int /\ sd.fp >= -1 /\ since \in Nat
    BY DEF WalkInv, WalkTypes
  <2> QED
    BY <1>1, <2>1
<1>3. WalkTypes'
  BY <1>1, <1>2 DEF WalkInv, WalkTypes
<1>4. Blocks'
  BY <1>1, <1>2 DEF WalkInv, Blocks
<1>5. Walk'
  BY <1>1 DEF Walk, S!EntryIsItsLine
<1> QED
  BY <1>3, <1>4, <1>5 DEF WalkInv

\* The next line takes the place of the one before, an entry or not.
LEMMA TakeKeeps == ASSUME WalkInv, S!TakeLine PROVE WalkInv'
<1>1. PICK next : next = sd.fp + 1
  OBVIOUS
<1>2. PICK q \in S!Places(sd.line) :
         /\ live' = (live \ {sd.line}) \union {q}
         /\ sd' = [sd EXCEPT !.fp = next, !.line = q]
         /\ held' = next
         /\ IF S!IsEntry(next)
            THEN /\ se' = [se EXCEPT !.s_name = q, !.s_port = file[next].port, !.s_proto = q]
                 /\ at' = "aliases"
            ELSE se' = [se EXCEPT !.s_name = q] /\ UNCHANGED at
  BY <1>1 DEF S!TakeLine, S!Given
<1>0. file \in Files /\ sd.fp \in Int
  BY DEF WalkInv, WalkTypes
<1>3. at = "again" /\ next <= Len(file) /\ UNCHANGED <<file, alias, cells, result, since>>
  BY <1>0, <1>1, FileIsLines DEF S!TakeLine
<1>4. q \in Mem /\ q # 0 /\ q # sd.aliases
  BY NewPlaces
<1>5. /\ sd.fp \in Int /\ sd.fp >= -1 /\ since \in Nat /\ next \in Nat
      /\ since <= sd.fp /\ NoEntryIn(since, sd.fp)
  BY <1>1, <1>3 DEF WalkInv, WalkTypes, Walk
<1>6. /\ sd'.aliases = sd.aliases /\ sd'.line = q /\ sd'.maxaliases = sd.maxaliases
      /\ sd'.fp = next
      /\ sd' \in [fp : Int, aliases : Mem, maxaliases : Nat, stayopen : BOOLEAN, line : Mem]
  <2>1. sd \in [fp : Int, aliases : Mem, maxaliases : Nat, stayopen : BOOLEAN, line : Mem]
    BY DEF WalkInv, WalkTypes
  <2>2. next \in Int
    BY <1>5
  <2> QED
    BY <1>2, <1>4, <2>1, <2>2
<1>7. next \in 1..Len(file) /\ file[next].port \in Int
  <2>1. next \in 1..Len(file)
    BY <1>0, <1>1, <1>3, <1>5, FileIsLines
  <2> QED
    BY <1>0, <2>1, FileIsLines
<1>8. se' \in [s_name : Mem, s_aliases : Mem, s_port : Int, s_proto : Mem]
  BY <1>2, <1>4, <1>7 DEF WalkInv, WalkTypes
<1>9. WalkTypes'
  BY <1>2, <1>3, <1>5, <1>6, <1>8 DEF WalkInv, WalkTypes
<1>10. Blocks'
  <2>1. live' = {q, sd.aliases} \ {0}
    BY <1>2, <1>4 DEF WalkInv, Blocks
  <2> QED
    BY <1>3, <1>4, <1>6, <2>1 DEF WalkInv, Blocks
<1>11. \A n : S!IsEntry(n)' <=> S!IsEntry(n)
  BY <1>3 DEF S!IsEntry
<1>12. CASE S!IsEntry(next)
  <2>1. InHand'
    <3>1. NoEntryIn(since, sd.fp - 1)'
      <4>1. sd'.fp - 1 = sd.fp /\ since' = since
        BY <1>0, <1>1, <1>3, <1>6
      <4> QED
        BY <1>5, <1>11, <4>1 DEF NoEntryIn
    <3>2. S!IsEntry(held)'
      BY <1>2, <1>3, <1>12 DEF S!IsEntry
    <3>3. since' < sd'.fp /\ held' = sd'.fp
      BY <1>1, <1>2, <1>3, <1>5, <1>6
    <3>4. se'.s_name = q /\ se'.s_proto = q /\ se'.s_port = file[next].port
      BY <1>2, <1>12 DEF WalkInv, WalkTypes
    <3>5. /\ se'.s_name = sd'.line /\ se'.s_proto = sd'.line
          /\ se'.s_port = file'[held'].port
      BY <1>2, <1>3, <1>6, <3>4
    <3>6. sd'.line # 0 /\ held' \in 1..Len(file')
      BY <1>2, <1>3, <1>4, <1>6, <1>7
    <3> QED
      BY <3>1, <3>2, <3>3, <3>5, <3>6 DEF InHand
  <2> QED
    BY <1>2, <1>9, <1>10, <1>12, <2>1 DEF WalkInv, Walk, S!EntryIsItsLine
<1>13. CASE ~S!IsEntry(next)
  <2>1. at' = "again" /\ since' <= sd'.fp
    BY <1>1, <1>2, <1>3, <1>5, <1>6, <1>13
  <2>2. ASSUME NEW n \in (since + 1)..next PROVE ~S!IsEntry(n)
    BY <1>1, <1>5, <1>13 DEF NoEntryIn
  <2>3. NoEntryIn(since, sd.fp)'
    BY <1>3, <1>6, <1>11, <2>2 DEF NoEntryIn
  <2> QED
    BY <1>9, <1>10, <2>1, <2>3 DEF WalkInv, Walk, S!EntryIsItsLine
<1> QED
  BY <1>12, <1>13

\* The steps with the aliases leave the line in hand as it is.
LEMMA HandKept ==
    ASSUME InHand, UNCHANGED <<file, held, since>>,
           sd'.fp = sd.fp, sd'.line = sd.line,
           se'.s_name = se.s_name, se'.s_proto = se.s_proto, se'.s_port = se.s_port
    PROVE  InHand'
<1>1. \A n : S!IsEntry(n)' <=> S!IsEntry(n)
  BY DEF S!IsEntry
<1>2. NoEntryIn(since, sd.fp - 1)'
  BY <1>1 DEF InHand, NoEntryIn
<1>3. S!IsEntry(held)'
  BY DEF InHand, S!IsEntry
<1> QED
  BY <1>2, <1>3 DEF InHand

LEMMA FirstKeeps == ASSUME WalkInv, S!FirstCells PROVE WalkInv'
<1>1. PICK q \in IF sd.aliases = 0 THEN S!Places(0) ELSE {sd.aliases} :
         /\ live' = (live \ {sd.aliases}) \union {q}
         /\ sd' = [sd EXCEPT !.aliases = q,
                             !.maxaliases = IF sd.aliases = 0 THEN FirstAliases ELSE @]
         /\ se' = [se EXCEPT !.s_aliases = q]
         /\ cells' = IF sd.aliases = 0 THEN << >> ELSE cells
  BY DEF S!FirstCells, S!Given, S!NULL
<1>2. /\ at = "aliases" /\ at' = "cells" /\ alias' = 1
      /\ UNCHANGED <<file, held, result, since>>
  BY DEF S!FirstCells
<1>3. /\ sd \in [fp : Int, aliases : Mem, maxaliases : Nat, stayopen : BOOLEAN, line : Mem]
      /\ se \in [s_name : Mem, s_aliases : Mem, s_port : Int, s_proto : Mem]
      /\ sd.fp >= -1 /\ cells \in Seq(Nat) /\ FirstAliases \in Nat /\ FirstAliases > 1
      /\ InHand /\ file \in Files
  BY <1>2, PlacesAreBlocks DEF WalkInv, WalkTypes, Walk
<1>4. /\ live = {sd.line, sd.aliases} \ {0} /\ sd.line # 0
      /\ Len(cells) <= sd.maxaliases
      /\ IF sd.aliases = 0 THEN sd.maxaliases = 0 ELSE sd.maxaliases > 1
      /\ sd.line = sd.aliases => sd.line = 0
  BY <1>3 DEF WalkInv, Blocks, InHand
<1>5. q \in Mem /\ q # 0 /\ q # sd.line
  <2>1. CASE sd.aliases = 0
    BY <1>1, <2>1, NewPlaces
  <2>2. CASE sd.aliases # 0
    BY <1>1, <1>3, <1>4, <2>2
  <2> QED
    BY <2>1, <2>2
<1>6. PICK room \in Nat : /\ room = IF sd.aliases = 0 THEN FirstAliases ELSE sd.maxaliases
                          /\ room > 1
  BY <1>3, <1>4
<1>7. /\ sd'.aliases = q /\ sd'.maxaliases = room /\ sd'.fp = sd.fp /\ sd'.line = sd.line
      /\ sd' \in [fp : Int, aliases : Mem, maxaliases : Nat, stayopen : BOOLEAN, line : Mem]
  BY <1>1, <1>3, <1>5, <1>6
<1>8. /\ se'.s_aliases = q /\ se'.s_name = se.s_name /\ se'.s_proto = se.s_proto
      /\ se'.s_port = se.s_port
      /\ se' \in [s_name : Mem, s_aliases : Mem, s_port : Int, s_proto : Mem]
  BY <1>1, <1>3, <1>5
<1>9. cells' \in Seq(Nat) /\ Len(cells') <= room
  BY <1>1, <1>3, <1>4, <1>6
<1>10. WalkTypes'
  BY <1>2, <1>3, <1>7, <1>8, <1>9 DEF WalkInv, WalkTypes
<1>11. Blocks'
  <2>1. live' = {sd.line, q} \ {0}
    BY <1>1, <1>4, <1>5
  <2> QED
    BY <1>4, <1>5, <1>6, <1>7, <1>9, <2>1 DEF Blocks
<1>12. Walk'
  <2>1. InHand'
    BY <1>2, <1>3, <1>7, <1>8, HandKept
  <2>2. Len(S!Aliases(held))' \in Nat
    <3>1. held \in 1..Len(file) /\ file[held].aliases \in Seq(STRING)
      BY <1>3, FileIsLines DEF InHand
    <3>2. S!Aliases(held)' = file[held].aliases
      BY <1>2 DEF S!Aliases
    <3> QED
      BY <3>1, <3>2
  <2>3. alias' <= sd'.maxaliases /\ alias' <= Len(S!Aliases(held))' + 1
    BY <1>2, <1>6, <1>7, <2>2
  <2>4. Written(alias - 1)'
    BY <1>2, <1>9 DEF Written
  <2> QED
    BY <1>2, <1>5, <1>7, <1>8, <2>1, <2>3, <2>4 DEF Walk, S!EntryIsItsLine
<1> QED
  BY <1>10, <1>11, <1>12 DEF WalkInv

LEMMA GreaterOfTwo ==
    ASSUME NEW x \in Nat, NEW y \in Nat
    PROVE  S!Max({x, y}) = IF x <= y THEN y ELSE x
<1>1. \E m \in {x, y} : \A z \in {x, y} : m >= z
  OBVIOUS
<1>2. S!Max({x, y}) \in {x, y} /\ \A z \in {x, y} : S!Max({x, y}) >= z
  BY <1>1 DEF S!Max
<1> QED
  BY <1>2

\* One cell is written, among those that are or next to them.
LEMMA OneCell ==
    ASSUME NEW i \in Nat, i > 0, NEW value \in Nat, cells \in Seq(Nat), i <= Len(cells) + 1
    PROVE  /\ S!With(i, value) \in Seq(Nat)
           /\ Len(S!With(i, value)) = IF i <= Len(cells) THEN Len(cells) ELSE i
           /\ S!With(i, value)[i] = value
           /\ \A c \in 1..(i - 1) : S!With(i, value)[c] = cells[c]
<1> DEFINE W == S!With(i, value)
<1>1. PICK top \in Nat : top = IF i <= Len(cells) THEN Len(cells) ELSE i
  OBVIOUS
<1>2. W = [c \in 1..top |-> IF c = i THEN value ELSE cells[c]]
  <2>1. S!Max({i, Len(cells)}) = top
    BY <1>1, GreaterOfTwo
  <2> QED
    BY <2>1 DEF S!With
<1>3. \A c \in 1..top : (IF c = i THEN value ELSE cells[c]) \in Nat
  BY <1>1
<1> HIDE DEF W
<1>4. W \in Seq(Nat) /\ Len(W) = top
  BY <1>2, <1>3
<1>5. W[i] = value /\ \A c \in 1..(i - 1) : W[c] = cells[c]
  BY <1>1, <1>2
<1> QED
  BY <1>1, <1>4, <1>5 DEF W

LEMMA PutKeeps == ASSUME WalkInv, S!PutAlias PROVE WalkInv'
<1>1. /\ at = "cells" /\ alias <= Len(S!Aliases(held)) /\ alias # sd.maxaliases
      /\ cells' = S!With(alias, alias) /\ alias' = alias + 1
      /\ UNCHANGED <<file, sd, se, at, held, live, result, since>>
  BY DEF S!PutAlias, S!MoreAliases
<1>2. /\ cells \in Seq(Nat) /\ alias \in Nat /\ alias > 0 /\ sd.maxaliases \in Nat
      /\ InHand /\ file \in Files
      /\ se.s_aliases = sd.aliases /\ sd.aliases # 0
      /\ alias <= sd.maxaliases /\ Written(alias - 1) /\ Len(cells) <= sd.maxaliases
  BY <1>1 DEF WalkInv, WalkTypes, Walk, Blocks
<1>3. alias <= Len(cells) + 1 /\ \A i \in 1..(alias - 1) : cells[i] = i
  BY <1>2 DEF Written
<1>4. /\ cells' \in Seq(Nat)
      /\ Len(cells') = IF alias <= Len(cells) THEN Len(cells) ELSE alias
      /\ cells'[alias] = alias /\ \A c \in 1..(alias - 1) : cells'[c] = cells[c]
  BY <1>1, <1>2, <1>3, OneCell
<1>5. WalkTypes'
  BY <1>1, <1>2, <1>4 DEF WalkInv, WalkTypes
<1>6. Blocks'
  <2>1. Len(cells') <= sd.maxaliases
    BY <1>2, <1>4
  <2> QED
    BY <1>1, <2>1 DEF WalkInv, Blocks
<1>7. Walk'
  <2>1. InHand'
    BY <1>1, <1>2, HandKept
  <2>2. Len(S!Aliases(held))' = Len(S!Aliases(held)) /\ Len(S!Aliases(held)) \in Nat
    <3>1. held \in 1..Len(file) /\ file[held].aliases \in Seq(STRING)
      BY <1>2, FileIsLines DEF InHand
    <3> QED
      BY <1>1, <3>1 DEF S!Aliases
  <2>3. alias' <= sd'.maxaliases /\ alias' <= Len(S!Aliases(held))' + 1
    BY <1>1, <1>2, <2>2
  <2>4. Written(alias - 1)'
    <3>1. alias' - 1 = alias /\ alias <= Len(cells')
      BY <1>1, <1>2, <1>4
    <3>2. \A i \in 1..alias : cells'[i] = i
      BY <1>2, <1>3, <1>4, SMTT(30)
    <3> QED
      BY <3>1, <3>2 DEF Written
  <2> QED
    BY <1>1, <1>2, <2>1, <2>3, <2>4 DEF Walk, S!EntryIsItsLine
<1> QED
  BY <1>5, <1>6, <1>7 DEF WalkInv

LEMMA GrowCellsKeeps == ASSUME WalkInv, S!GrowCells PROVE WalkInv'
<1>1. PICK q \in S!Places(sd.aliases) :
         /\ live' = (live \ {sd.aliases}) \union {q}
         /\ sd' = [sd EXCEPT !.aliases = q, !.maxaliases = 2 * @]
         /\ se' = [se EXCEPT !.s_aliases = q]
  BY DEF S!GrowCells, S!Given
<1>2. /\ at = "cells" /\ alias <= Len(S!Aliases(held)) /\ alias = sd.maxaliases
      /\ UNCHANGED <<file, alias, at, held, cells, result, since>>
  BY DEF S!GrowCells, S!MoreAliases
<1>3. /\ sd \in [fp : Int, aliases : Mem, maxaliases : Nat, stayopen : BOOLEAN, line : Mem]
      /\ se \in [s_name : Mem, s_aliases : Mem, s_port : Int, s_proto : Mem]
      /\ sd.fp >= -1 /\ cells \in Seq(Nat) /\ file \in Files
  BY DEF WalkInv, WalkTypes
<1>4. /\ live = {sd.line, sd.aliases} \ {0} /\ sd.aliases # 0
      /\ Len(cells) <= sd.maxaliases /\ sd.maxaliases > 1
      /\ sd.line = sd.aliases => sd.line = 0
      /\ InHand /\ alias <= Len(S!Aliases(held)) + 1 /\ Written(alias - 1)
  BY <1>2 DEF WalkInv, Walk, Blocks
<1>5. q \in Mem /\ q # 0 /\ q # sd.line
  BY NewPlaces
<1>6. PICK room \in Nat : room = 2 * sd.maxaliases /\ room > sd.maxaliases
  BY <1>3, <1>4
<1>7. /\ sd'.aliases = q /\ sd'.maxaliases = room /\ sd'.fp = sd.fp /\ sd'.line = sd.line
      /\ sd' \in [fp : Int, aliases : Mem, maxaliases : Nat, stayopen : BOOLEAN, line : Mem]
  BY <1>1, <1>3, <1>5, <1>6
<1>8. /\ se'.s_aliases = q /\ se'.s_name = se.s_name /\ se'.s_proto = se.s_proto
      /\ se'.s_port = se.s_port
      /\ se' \in [s_name : Mem, s_aliases : Mem, s_port : Int, s_proto : Mem]
  BY <1>1, <1>3, <1>5
<1>9. WalkTypes'
  BY <1>2, <1>3, <1>7, <1>8 DEF WalkInv, WalkTypes
<1>10. Blocks'
  <2>1. live' = {sd.line, q} \ {0}
    BY <1>1, <1>4, <1>5
  <2>2. Len(cells') <= room /\ room > 1
    BY <1>2, <1>3, <1>4, <1>6
  <2> QED
    BY <1>4, <1>5, <1>7, <2>1, <2>2 DEF Blocks
<1>11. Walk'
  <2>1. InHand'
    BY <1>2, <1>4, <1>7, <1>8, HandKept
  <2>2. S!Aliases(held)' = S!Aliases(held)
    BY <1>2 DEF S!Aliases
  <2>3. alias' <= sd'.maxaliases
    BY <1>2, <1>3, <1>6, <1>7
  <2>4. Written(alias - 1)'
    BY <1>2, <1>4 DEF Written
  <2> QED
    BY <1>2, <1>4, <1>5, <1>7, <1>8, <2>1, <2>2, <2>3, <2>4 DEF Walk, S!EntryIsItsLine
<1> QED
  BY <1>9, <1>10, <1>11 DEF WalkInv

LEMMA CellsFailKeeps == ASSUME WalkInv, S!CellsFail PROVE WalkInv'
BY EndedKeeps DEF S!CellsFail, S!Returns

\* The entry is whole when its vector has its NULL.
LEMMA LastKeeps == ASSUME WalkInv, S!LastAlias PROVE WalkInv'
<1>1. /\ at = "cells" /\ alias > Len(S!Aliases(held))
      /\ cells' = S!With(alias, 0) /\ at' = "idle" /\ result' = 0
      /\ UNCHANGED <<file, alias, sd, se, held, live, since>>
  BY DEF S!LastAlias, S!Returns, S!NULL
<1>2. /\ cells \in Seq(Nat) /\ alias \in Nat /\ alias > 0 /\ sd.maxaliases \in Nat
      /\ InHand /\ file \in Files
      /\ se.s_aliases = sd.aliases /\ sd.aliases # 0
      /\ alias <= sd.maxaliases /\ Written(alias - 1) /\ Len(cells) <= sd.maxaliases
      /\ alias <= Len(S!Aliases(held)) + 1
  BY <1>1 DEF WalkInv, WalkTypes, Walk, Blocks
<1>3. alias <= Len(cells) + 1 /\ \A i \in 1..(alias - 1) : cells[i] = i
  BY <1>2 DEF Written
<1>4. /\ cells' \in Seq(Nat)
      /\ Len(cells') = IF alias <= Len(cells) THEN Len(cells) ELSE alias
      /\ cells'[alias] = 0 /\ \A c \in 1..(alias - 1) : cells'[c] = cells[c]
  <2>1. 0 \in Nat
    OBVIOUS
  <2>2. /\ S!With(alias, 0) \in Seq(Nat)
        /\ Len(S!With(alias, 0)) = IF alias <= Len(cells) THEN Len(cells) ELSE alias
        /\ S!With(alias, 0)[alias] = 0
        /\ \A c \in 1..(alias - 1) : S!With(alias, 0)[c] = cells[c]
    BY <1>2, <1>3, <2>1, OneCell
  <2> QED
    BY <1>1, <2>2
<1>5. WalkTypes'
  BY <1>1, <1>2, <1>4 DEF WalkInv, WalkTypes
<1>6. Blocks'
  <2>1. Len(cells') <= sd.maxaliases
    BY <1>2, <1>4
  <2> QED
    BY <1>1, <2>1 DEF WalkInv, Blocks
<1>7. S!EntryIsItsLine'
  <2>1. held \in 1..Len(file) /\ file[held].aliases \in Seq(STRING)
    BY <1>2, FileIsLines DEF InHand
  <2>2. S!Aliases(held)' = S!Aliases(held) /\ Len(S!Aliases(held)) \in Nat
    BY <1>1, <2>1 DEF S!Aliases
  <2>3. alias = Len(S!Aliases(held)) + 1
    BY <1>1, <1>2, <2>2
  <2>4. /\ cells'[Len(S!Aliases(held)) + 1] = 0
        /\ \A i \in 1..Len(S!Aliases(held)) : cells'[i] = i
    BY <1>3, <1>4, <2>2, <2>3
  <2>5. InHand'
    BY <1>1, <1>2, HandKept
  <2>6. {se'.s_name, se'.s_proto} = {sd'.line}
    BY <2>5 DEF InHand
  <2>7. /\ S!IsEntry(sd.fp)' /\ held' = sd'.fp /\ se'.s_port = file'[held'].port
        /\ \A n \in (since' + 1)..(sd'.fp - 1) : ~S!IsEntry(n)'
    BY <2>5 DEF InHand, NoEntryIn, S!IsEntry
  <2>8. /\ cells'[Len(S!Aliases(held))' + 1] = 0
        /\ \A i \in 1..((Len(S!Aliases(held))' + 1) - 1) : cells'[i] = i
    BY <2>2, <2>4
  <2> QED
    BY <1>1, <1>2, <2>6, <2>7, <2>8 DEF S!EntryIsItsLine, S!NULL, S!IsEntry
<1>8. Walk'
  BY <1>1, <1>7 DEF Walk
<1> QED
  BY <1>5, <1>6, <1>8 DEF WalkInv

LEMMA WalkSteps == WalkInv /\ [S!ServicesNext]_services => WalkInv'
<1> SUFFICES ASSUME WalkInv, [S!ServicesNext]_services PROVE WalkInv'
  OBVIOUS
<1>1. CASE UNCHANGED services
  <2>1. \A n : S!IsEntry(n)' <=> S!IsEntry(n)
    BY <1>1 DEF services, S!IsEntry
  <2>2. S!EntryIsItsLine' <=> S!EntryIsItsLine
    BY <1>1 DEF services, S!EntryIsItsLine, S!IsEntry, S!Aliases
  <2>3. InHand' <=> InHand
    BY <1>1, <2>1 DEF services, InHand, NoEntryIn
  <2>4. NoEntryIn(since, sd.fp)' <=> NoEntryIn(since, sd.fp)
    BY <1>1, <2>1 DEF services, NoEntryIn
  <2>5. Written(alias - 1)' <=> Written(alias - 1)
    BY <1>1 DEF services, Written
  <2>6. WalkTypes' /\ Blocks'
    BY <1>1 DEF services, WalkInv, WalkTypes, Blocks
  <2>7. Walk'
    BY <1>1, <2>2, <2>3, <2>4, <2>5 DEF services, WalkInv, Walk, S!Aliases
  <2> QED
    BY <2>6, <2>7 DEF WalkInv
<1> QED
  BY <1>1, EndKeeps, SetKeeps, GetKeeps, SkipKeeps, TakeKeeps, TakeFailsKeeps,
     FirstKeeps, PutKeeps, GrowCellsKeeps, CellsFailKeeps, LastKeeps
  DEF S!ServicesNext

--------------------------------------------------------------------------------
(* Services: what the lookup of a name finds.                              *)

Svc(n) == S!Service(file[n].port, S!ProtoOf(n))

\* What the lookup has after each line.
Bufs(name, proto) ==
    LET buf[n \in 0..Len(file)] ==
            IF n = 0 THEN << >>
            ELSE LET before == buf[n - 1]
                 IN  IF Len(before) < 2 /\ S!Hit(n, name, proto)
                     THEN Append(before, Svc(n)) ELSE before
    IN  buf

\* The loop over the lines, round by round.
LEMMA BufsAreFilled ==
    ASSUME file \in Files, NEW name, NEW proto
    PROVE  /\ Bufs(name, proto)[0] = << >>
           /\ \A n \in 1..Len(file) :
                 Bufs(name, proto)[n] =
                    IF Len(Bufs(name, proto)[n - 1]) < 2 /\ S!Hit(n, name, proto)
                    THEN Append(Bufs(name, proto)[n - 1], Svc(n))
                    ELSE Bufs(name, proto)[n - 1]
<1>1. PICK last : last = Len(file)
  OBVIOUS
<1>2. last \in Nat
  BY <1>1, FileIsLines
<1> DEFINE V == {Svc(n) : n \in 1..last}
           After(n, before) == IF Len(before) < 2 /\ S!Hit(n, name, proto)
                               THEN Append(before, Svc(n)) ELSE before
           Round == [n \in 1..last |-> [before \in Seq(V) |-> After(n, before)]]
<1>3. Round \in [1..last -> [Seq(V) -> Seq(V)]]
  <2>1. ASSUME NEW n \in 1..last, NEW before \in Seq(V) PROVE After(n, before) \in Seq(V)
    <3>1. Svc(n) \in V
      OBVIOUS
    <3> HIDE DEF V
    <3>2. Append(before, Svc(n)) \in Seq(V)
      BY <3>1
    <3> QED
      BY <3>2
  <2> HIDE DEF V, After
  <2> QED
    BY <2>1
<1>4. << >> \in Seq(V)
  OBVIOUS
<1> HIDE DEF V
<1>5. PICK f \in [0..last -> Seq(V)] : Computes(f, last, << >>, Round)
  <2> HIDE DEF Round
  <2> QED
    BY <1>2, <1>3, <1>4, Rounds
<1>6. f = [n \in 0..last |-> IF n = 0 THEN << >> ELSE After(n, f[n - 1])]
  <2>1. \A n \in 1..last : n - 1 \in 0..last /\ f[n - 1] \in Seq(V)
    BY <1>2
  <2>2. \A n \in 1..last : f[n] = Round[n][f[n - 1]]
    BY <1>5 DEF Computes
  <2>3. \A n \in 1..last : f[n] = After(n, f[n - 1])
    <3> HIDE DEF After
    <3> QED
      BY <2>1, <2>2
  <2>4. f[0] = << >>
    BY <1>5 DEF Computes
  <2>5. \A n \in 0..last : n = 0 \/ n \in 1..last
    BY <1>2
  <2> HIDE DEF After, Round
  <2>6. \A n \in 0..last : f[n] = IF n = 0 THEN << >> ELSE After(n, f[n - 1])
    BY <2>3, <2>4, <2>5
  <2>7. f = [n \in 0..last |-> f[n]]
    OBVIOUS
  <2> QED
    BY <2>6, <2>7
<1> DEFINE g == Bufs(name, proto)
<1>7. g = [n \in 0..last |-> IF n = 0 THEN << >> ELSE After(n, g[n - 1])]
  BY <1>1, <1>6 DEF Bufs
<1> HIDE DEF g
<1>8. g[0] = << >>
  <2>1. 0 \in 0..last
    BY <1>2
  <2> HIDE DEF After
  <2> QED
    BY <1>7, <2>1
<1>9. ASSUME NEW n \in 1..last PROVE g[n] = After(n, g[n - 1])
  <2>1. n \in 0..last /\ n # 0
    BY <1>2
  <2> HIDE DEF After
  <2> QED
    BY <1>7, <2>1
<1> QED
  BY <1>1, <1>8, <1>9 DEF g

LEMMA LookupIsLoop ==
    ASSUME NEW name, name \notin DOMAIN Numerals, NEW proto
    PROVE  S!LookupServ(name, proto) = Bufs(name, proto)[Len(file)]
BY DEF S!LookupServ, Bufs, Svc, S!MAXSERVS

\* The first line that is hit is what comes first.
LEMMA FirstHit ==
    ASSUME file \in Files, NEW name, NEW proto, NEW m \in 1..Len(file),
           S!Hit(m, name, proto), \A n \in 1..(m - 1) : ~S!Hit(n, name, proto)
    PROVE  /\ Bufs(name, proto)[Len(file)] # << >>
           /\ Bufs(name, proto)[Len(file)][1] = Svc(m)
<1>1. PICK g : g = Bufs(name, proto)
  OBVIOUS
<1>2. PICK last \in Nat : last = Len(file)
  BY FileIsLines
<1> DEFINE Right(n) == /\ n < m => g[n] = << >>
                       /\ n >= m => /\ g[n] \in Seq({Svc(k) : k \in 1..last})
                                    /\ Len(g[n]) > 0 /\ g[n][1] = Svc(m)
           P == {n \in 0..last : Right(n)}
<1>3. P \in SUBSET Nat
  OBVIOUS
<1>4. 0 \in P
  BY <1>1, BufsAreFilled
<1>5. ASSUME NEW n \in 0..last, n \in P, n < last PROVE n + 1 \in P
  <2>1. /\ n + 1 \in 1..last /\ (n + 1) - 1 = n
    BY <1>2, <1>5
  <2>2. g[n + 1] = IF Len(g[n]) < 2 /\ S!Hit(n + 1, name, proto)
                   THEN Append(g[n], Svc(n + 1)) ELSE g[n]
    BY <1>1, <1>2, <2>1, BufsAreFilled
  <2>3. Right(n)
    BY <1>5
  <2> DEFINE V == {Svc(k) : k \in 1..last}
  <2>4. Svc(n + 1) \in V
    BY <2>1
  <2> HIDE DEF V
  <2>5. CASE n + 1 < m
    <3>1. n + 1 \in 1..(m - 1) /\ n < m
      BY <2>1, <2>5
    <3> QED
      BY <2>1, <2>2, <2>3, <2>5, <3>1
  <2>6. CASE n + 1 = m
    <3>1. g[n] = << >> /\ Len(g[n]) = 0
      BY <2>1, <2>3, <2>6
    <3>2. g[n + 1] = <<Svc(m)>>
      BY <2>2, <2>6, <3>1
    <3>3. <<Svc(m)>> \in Seq(V) /\ Len(<<Svc(m)>>) = 1 /\ <<Svc(m)>>[1] = Svc(m)
      BY <2>4, <2>6
    <3>4. Right(n + 1)
      BY <2>6, <3>2, <3>3 DEF V
    <3> QED
      BY <2>1, <3>4
  <2>7. CASE n >= m
    <3>1. g[n] \in Seq(V) /\ Len(g[n]) > 0 /\ g[n][1] = Svc(m)
      BY <2>3, <2>7 DEF V
    <3>2. g[n + 1] \in Seq(V) /\ Len(g[n + 1]) > 0 /\ g[n + 1][1] = Svc(m)
      BY <2>2, <2>4, <3>1
    <3> QED
      BY <2>1, <2>7, <3>2 DEF V
  <2> QED
    BY <2>5, <2>6, <2>7, <2>1
<1>6. 0..last \subseteq P
  <2> HIDE DEF P
  <2> QED
    BY <1>3, <1>4, <1>5, UpTo
<1>7. last \in P
  <2> HIDE DEF P
  <2> QED
    BY <1>6
<1>8. Right(last) /\ last >= m
  BY <1>2, <1>7
<1> QED
  BY <1>1, <1>2, <1>8

LEMMA NoHit ==
    ASSUME file \in Files, NEW name, NEW proto, \A n \in 1..Len(file) : ~S!Hit(n, name, proto)
    PROVE  Bufs(name, proto)[Len(file)] = << >>
<1>1. PICK g : g = Bufs(name, proto)
  OBVIOUS
<1>2. PICK last \in Nat : last = Len(file)
  BY FileIsLines
<1> DEFINE P == {n \in 0..last : g[n] = << >>}
<1>3. P \in SUBSET Nat
  OBVIOUS
<1>4. 0 \in P
  BY <1>1, BufsAreFilled
<1>5. ASSUME NEW n \in 0..last, n \in P, n < last PROVE n + 1 \in P
  <2>1. n + 1 \in 1..last /\ (n + 1) - 1 = n
    BY <1>2, <1>5
  <2>2. g[n + 1] = IF Len(g[n]) < 2 /\ S!Hit(n + 1, name, proto)
                   THEN Append(g[n], Svc(n + 1)) ELSE g[n]
    BY <1>1, <1>2, <2>1, BufsAreFilled
  <2> QED
    BY <1>2, <1>5, <2>1, <2>2
<1>6. 0..last \subseteq P
  <2> HIDE DEF P
  <2> QED
    BY <1>3, <1>4, <1>5, UpTo
<1> QED
  BY <1>1, <1>2, <1>6

\* The search agrees with the walk.
LEMMA NamesAreFound == file \in Files => S!NameIsInFile
<1> SUFFICES ASSUME file \in Files, NEW name \in (Asked \ DOMAIN Numerals) \ S!PortWords,
                    NEW proto \in {S!AnyProto, "tcp", "udp"}
             PROVE  LET mine == {n \in DOMAIN file :
                                    /\ S!IsEntry(n) /\ file[n].mark = "slash"
                                    /\ name = file[n].name \/ name \in S!ToSet(S!Aliases(n))
                                    /\ file[n].proto \in S!WordsFor[proto]}
                        servs == S!LookupServ(name, proto)
                        first == file[S!Min(mine)]
                    IN  /\ servs = << >> <=> mine = {}
                        /\ mine # {} => servs[1] = S!Service(first.port,
                                              IF first.proto = "tcp" THEN "tcp" ELSE "udp")
  BY DEF S!NameIsInFile
<1> DEFINE mine == {n \in DOMAIN file :
                       /\ S!IsEntry(n) /\ file[n].mark = "slash"
                       /\ name = file[n].name \/ name \in S!ToSet(S!Aliases(n))
                       /\ file[n].proto \in S!WordsFor[proto]}
           servs == S!LookupServ(name, proto)
           first == file[S!Min(mine)]
<1>0. ASSUME NEW n
      PROVE  /\ file[n].proto \in S!WordsFor[proto] <=>
                     file[n].proto \in DOMAIN S!Told /\ proto \in {S!AnyProto, S!ProtoOf(n)}
             /\ file[n].proto \in DOMAIN S!Told =>
                     S!ProtoOf(n) = IF file[n].proto = "tcp" THEN "tcp" ELSE "udp"
  <2>1. PICK word : word = file[n].proto
    OBVIOUS
  <2>2. DOMAIN S!Told = {"tcp", "udp", "udplite"}
    BY DEF S!Told
  <2>3. S!Told["tcp"] = "tcp" /\ S!Told["udp"] = "udp" /\ S!Told["udplite"] = "udp"
    BY DEF S!Told
  <2>4. /\ S!WordsFor["any"] = {"tcp", "udp", "udplite"} /\ S!WordsFor["tcp"] = {"tcp"}
        /\ S!WordsFor["udp"] = {"udp", "udplite"}
    BY DEF S!WordsFor
  <2>5. S!ProtoOf(n) = S!Told[word]
    BY <2>1 DEF S!ProtoOf
  <2>6. proto \in {"any", "tcp", "udp"}
    BY DEF S!AnyProto
  <2>7. word \in S!WordsFor[proto] <=> word \in DOMAIN S!Told /\ proto \in {"any", S!Told[word]}
    BY ONLY <2>2, <2>3, <2>4, <2>6
  <2>8. word \in DOMAIN S!Told => S!Told[word] = IF word = "tcp" THEN "tcp" ELSE "udp"
    BY ONLY <2>2, <2>3
  <2> QED
    BY <2>1, <2>5, <2>7, <2>8 DEF S!AnyProto
<1>1. mine = {n \in 1..Len(file) : S!Hit(n, name, proto)}
  <2>1. DOMAIN file = 1..Len(file)
    BY FileIsLines
  <2>2. ASSUME NEW n \in 1..Len(file)
        PROVE  name \in S!Words(n) <=> name = file[n].name \/ name \in S!ToSet(S!Aliases(n))
    <3>1. name # file[n].word
      BY <2>1 DEF S!PortWords
    <3> QED
      BY <3>1 DEF S!Words
  <2>3. ASSUME NEW n \in 1..Len(file)
        PROVE  S!Hit(n, name, proto) <=>
                   /\ S!IsEntry(n) /\ file[n].mark = "slash"
                   /\ name = file[n].name \/ name \in S!ToSet(S!Aliases(n))
                   /\ file[n].proto \in S!WordsFor[proto]
    BY <1>0, <2>2, Zenon DEF S!Hit, S!IsEntry
  <2> QED
    BY <2>1, <2>3
<1>2. servs = Bufs(name, proto)[Len(file)]
  BY LookupIsLoop
<1> HIDE DEF mine, servs, first
<1>3. CASE mine = {}
  <2>1. \A n \in 1..Len(file) : ~S!Hit(n, name, proto)
    BY <1>1, <1>3
  <2> QED
    BY <1>2, <1>3, <2>1, NoHit DEF mine, servs
<1>4. CASE mine # {}
  <2>1. mine \in SUBSET Nat
    BY <1>1
  <2>2. \E x \in mine : \A y \in mine : x <= y
    BY <1>4, <2>1, LeastOf
  <2>3. PICK m \in mine : m = S!Min(mine) /\ \A y \in mine : m <= y
    BY <2>2 DEF S!Min
  <2>4. m \in 1..Len(file) /\ S!Hit(m, name, proto)
    BY <1>1
  <2>5. \A n \in 1..(m - 1) : ~S!Hit(n, name, proto)
    <3> SUFFICES ASSUME NEW n \in 1..(m - 1), S!Hit(n, name, proto) PROVE FALSE
      OBVIOUS
    <3>1. n \in 1..Len(file) /\ ~(m <= n)
      BY <2>4, FileIsLines
    <3> QED
      BY <1>1, <2>3, <3>1
  <2>6. servs # << >> /\ servs[1] = Svc(m)
    BY <1>2, <2>4, <2>5, FirstHit
  <2>7. file[m].proto \in DOMAIN S!Told
    BY <2>4 DEF S!Hit
  <2>8. servs[1] = S!Service(first.port, IF first.proto = "tcp" THEN "tcp" ELSE "udp")
    BY <1>0, <2>3, <2>6, <2>7 DEF Svc, first
  <2> QED
    BY <1>4, <2>6, <2>8 DEF mine, servs, first
<1> QED
  BY <1>3, <1>4

LEMMA Remainders ==
    ASSUME NEW p \in Nat, p > 0, NEW b \in 0..(p - 1)
    PROVE  /\ (-b) % p = IF b = 0 THEN 0 ELSE p - b
           /\ b % p = b /\ p % p = 0
<1>1. \A x \in Int, k \in Int, r \in 0..(p - 1) : x = k * p + r => x % p = r
  OBVIOUS
<1>2. b % p = b
  BY <1>1
<1>3. p % p = 0
  BY <1>1
<1>4. (-b) % p = IF b = 0 THEN 0 ELSE p - b
  BY <1>1
<1> QED
  BY <1>2, <1>3, <1>4

\* What a buffer that is not too small has room for.
Fitting(answer, buf, buflen) ==
    answer.rc = "ok" => /\ answer.s_aliases % PointerSize = 0
                       /\ answer.s_aliases >= buf
                       /\ answer.s_aliases + 2 * PointerSize <= answer.end
                       /\ answer.end <= buf + buflen

LEMMA FailuresFit ==
    ASSUME NEW rc \in {"ERANGE", "EINVAL", "ENOENT"}, NEW buf, NEW buflen
    PROVE  Fitting(S!Fails(rc), buf, buflen)
BY DEF Fitting, S!Fails

LEMMA FoundFits ==
    ASSUME NEW service, NEW aliases \in Nat, NEW end \in Nat, NEW buf \in Nat, NEW buflen \in Nat,
           aliases % PointerSize = 0, aliases >= buf, aliases + 2 * PointerSize <= end,
           end <= buf + buflen
    PROVE  Fitting(S!Found(service, aliases, end), buf, buflen)
BY DEF Fitting, S!Found

LEMMA ByNameFits ==
    ASSUME NEW name, NEW prots, NEW buf \in 0..(PointerSize - 1), NEW buflen \in Nat
    PROVE  Fitting(S!ByName(name, prots, buf, buflen), buf, buflen)
<1>1. PointerSize \in Nat /\ PointerSize > 0
  BY StoreAssumption DEF S!ServicesAssumption
<1>2. PICK align : align = (-buf) % PointerSize
  OBVIOUS
<1>3. align \in Nat /\ (buf + align) % PointerSize = 0
  <2>1. align = (IF buf = 0 THEN 0 ELSE PointerSize - buf) /\ PointerSize % PointerSize = 0
    BY <1>1, <1>2, Remainders
  <2>2. 0 % PointerSize = 0
    BY <1>1, Remainders
  <2>3. align \in Nat /\ (buf + align = 0 \/ buf + align = PointerSize)
    BY <1>1, <2>1
  <2> QED
    BY <2>1, <2>2, <2>3
<1>4. PICK servs : servs = S!LookupServ(name, prots)
  OBVIOUS
<1>5. S!ByName(name, prots, buf, buflen) =
         IF buflen < 2 * PointerSize + align THEN S!Fails("ERANGE")
         ELSE IF prots \notin {S!AnyProto, "tcp", "udp"} THEN S!Fails("EINVAL")
         ELSE IF servs = << >> THEN S!Fails("ENOENT")
         ELSE S!Found(servs[1], buf + align, buf + align + 2 * PointerSize)
  BY <1>2, <1>4 DEF S!ByName
<1>6. CASE buflen < 2 * PointerSize + align
  BY <1>5, <1>6, FailuresFit
<1>7. CASE ~(buflen < 2 * PointerSize + align)
  <2>1. /\ buf + align \in Nat /\ buf + align + 2 * PointerSize \in Nat
        /\ buf + align >= buf
        /\ (buf + align) + 2 * PointerSize <= buf + align + 2 * PointerSize
        /\ buf + align + 2 * PointerSize <= buf + buflen
        /\ buf \in Nat
    BY <1>1, <1>3, <1>7
  <2>2. Fitting(S!Found(servs[1], buf + align, buf + align + 2 * PointerSize), buf, buflen)
    BY <1>3, <2>1, FoundFits
  <2> QED
    BY <1>5, <1>7, <2>2, FailuresFit
<1> QED
  BY <1>6, <1>7

LEMMA ByOnePortFits ==
    ASSUME NEW port, NEW proto, NEW nameinfo,
           NEW buf \in 0..(PointerSize - 1), NEW buflen \in Nat
    PROVE  Fitting(S!ByPortAndProto(port, proto, buf, buflen, nameinfo), buf, buflen)
<1>1. PointerSize \in Nat /\ PointerSize > 0
  BY StoreAssumption DEF S!ServicesAssumption
<1>2. PICK i : i = IF buf = 0 THEN PointerSize ELSE buf
  OBVIOUS
<1>3. PICK to : to = buf + (PointerSize - i)
  OBVIOUS
<1>4. i \in Nat /\ to \in Nat /\ to % PointerSize = 0 /\ to >= buf
  <2>1. PointerSize % PointerSize = 0 /\ 0 % PointerSize = 0
    BY <1>1, Remainders
  <2>2. /\ i \in Nat /\ to \in Nat /\ to >= buf
        /\ to = 0 \/ to = PointerSize
    BY <1>1, <1>2, <1>3
  <2> QED
    BY <2>1, <2>2
<1>5. S!ByPortAndProto(port, proto, buf, buflen, nameinfo) =
         IF buflen < 3 * PointerSize - i THEN S!Fails("ERANGE")
         ELSE IF proto \notin {"tcp", "udp"} THEN S!Fails("EINVAL")
         ELSE IF nameinfo # "name" THEN S!Fails("ENOENT")
         ELSE S!Found(S!Service(port, proto), to, buf + buflen)
  <2>1. buf % PointerSize = buf
    BY <1>1, Remainders
  <2> QED
    BY <1>2, <1>3, <2>1 DEF S!ByPortAndProto
<1>6. CASE buflen < 3 * PointerSize - i
  BY <1>5, <1>6, FailuresFit
<1>7. CASE ~(buflen < 3 * PointerSize - i)
  <2>1. /\ to + 2 * PointerSize <= buf + buflen /\ buf + buflen \in Nat /\ buf \in Nat
        /\ buf + buflen <= buf + buflen
    BY <1>1, <1>3, <1>4, <1>7
  <2>2. Fitting(S!Found(S!Service(port, proto), to, buf + buflen), buf, buflen)
    BY <1>4, <2>1, FoundFits
  <2> QED
    BY <1>5, <1>7, <2>2, FailuresFit
<1> QED
  BY <1>6, <1>7

\* The buffer of the caller holds what the entry points to.
LEMMA BuffersSuffice == S!BufferIsEnough
<1>1. MaxBuflen \in Nat
  BY StoreAssumption DEF S!ServicesAssumption
<1> DEFINE nameinfo == [tcp |-> "number", udp |-> "name"]
<1>2. ASSUME NEW buf \in 0..(PointerSize - 1), NEW buflen \in 0..MaxBuflen, NEW name \in Asked
      PROVE  /\ Fitting(S!ByName(name, S!AnyProto, buf, buflen), buf, buflen)
             /\ Fitting(S!ByPort(1, S!AnyProto, buf, buflen, nameinfo), buf, buflen)
  <2>1. buflen \in Nat
    BY <1>1
  <2>2. /\ Fitting(S!ByPortAndProto(1, "tcp", buf, buflen, nameinfo["tcp"]), buf, buflen)
        /\ Fitting(S!ByPortAndProto(1, "udp", buf, buflen, nameinfo["udp"]), buf, buflen)
    BY <2>1, ByOnePortFits
  <2>3. Fitting(S!ByPort(1, S!AnyProto, buf, buflen, nameinfo), buf, buflen)
    <3> HIDE DEF nameinfo
    <3> QED
      BY <2>2 DEF S!ByPort
  <2> QED
    BY <2>1, <2>3, ByNameFits
<1> QED
  BY <1>2, Zenon DEF S!BufferIsEnough, Fitting

\* The walk through the services file returns every entry once, whole and in
\* order, with its aliases inside their vector; it loses no memory, whatever
\* fails; a name is found in the first line the walk would return for it; and what
\* the entry points to lies in the buffer of the caller (servent_r.c lines 44-119,
\* lookup_serv.c lines 48-79, getservbyname_r.c lines 26-53).
THEOREM ServicesCorrect == StoreSpec => []ServicesAreTheFile
<1>1. StoreInit => WalkInv
  BY WalkBegins DEF StoreInit
<1>2. WalkInv /\ [StoreNext]_storevars => WalkInv'
  <2>1. [StoreNext]_storevars => [S!ServicesNext]_services
    BY DEF StoreNext, UseObstack, UseHsearch, UseDynarray, UseServices, UseNodeSet, storevars
  <2> QED
    BY <2>1, WalkSteps
<1>3. WalkInv => ServicesAreTheFile
  <2> SUFFICES ASSUME WalkInv PROVE S!ServicesAreTheFile
    BY DEF ServicesAreTheFile
  <2>1. S!EntryIsItsLine /\ S!NothingLost /\ file \in Files
    BY DEF WalkInv, WalkTypes, Walk, Blocks, S!NothingLost, S!NULL
  <2> QED
    BY <2>1, NamesAreFound, BuffersSuffice DEF S!ServicesAreTheFile
<1> QED
  BY <1>1, <1>2, <1>3, PTL DEF StoreSpec

--------------------------------------------------------------------------------
(* Hash tables: the numbers.                                               *)

\* A prime that divides no factor does not divide the product.
LEMMA PrimeDividesFactor ==
    ASSUME NEW p \in Nat, H!isprime(p), NEW a \in 1..(p - 1), NEW b \in 1..(p - 1), NEW c \in Int
    PROVE  a * b # c * p
<1> DEFINE T == {x \in 1..(p - 1) : \E t \in Int : x * b = t * p}
<1>1. ASSUME T # {} PROVE FALSE
  <2>1. T \in SUBSET Nat
    OBVIOUS
  <2>2. PICK m \in T : \A x \in T : m <= x
    <3> HIDE DEF T
    <3> QED
      BY <1>1, <2>1, LeastOf
  <2>3. PICK t \in Int : m * b = t * p
    OBVIOUS
  <2>4. m \in 1..(p - 1) /\ b \in Int /\ p \in Int /\ p > 0
    OBVIOUS
  <2>5. m # 1
    <3>1. ASSUME m = 1 PROVE FALSE
      <4>1. b = t * p
        BY <2>3, <2>4, <3>1
      <4>2. t <= 0 => t * p <= 0
        BY <2>4
      <4>3. t >= 1 => t * p >= p
        BY <2>4
      <4> QED
        BY <4>1, <4>2, <4>3
    <3> QED
      BY <3>1
  <2>6. PICK r \in 0..(m - 1), q \in Int : p = q * m + r
    <3>1. m \in Nat /\ m > 0 /\ p \in Nat
      BY <2>4
    <3>2. PICK k \in Nat, l \in 0..(m - 1) : p = k * m + l
      BY <3>1, Division, Zenon
    <3>3. k \in Int
      OBVIOUS
    <3> QED
      BY <3>2, <3>3, Zenon
  <2>7. r # 0
    <3>1. p % m # 0
      <4>1. m \in 2..(p - 1)
        BY <2>4, <2>5
      <4> QED
        BY <4>1 DEF H!isprime
    <3>2. \A x \in Int, k \in Int : x = k * m + 0 => x % m = 0
      BY <2>4
    <3> QED
      BY <2>4, <2>6, <3>1, <3>2
  <2>8. r * b = (b - q * t) * p
    <3>1. q * (m * b) = q * (t * p)
      BY <2>3
    <3>2. r = p - q * m
      BY <2>4, <2>6
    <3>3. r * b = p * b - q * (m * b)
      BY <2>4, <3>2
    <3> QED
      BY <2>4, <3>1, <3>3
  <2>9. r \in 1..(p - 1) /\ b - q * t \in Int
    BY <2>4, <2>6, <2>7
  <2>10. r \in T
    BY <2>8, <2>9
  <2> HIDE DEF T
  <2> QED
    BY <2>2, <2>4, <2>6, <2>10
<1>2. a \notin T
  BY <1>1
<1> QED
  BY <1>2

\* Two numbers below p that differ by a multiple of p are the same.
LEMMA LessThanOneRound ==
    ASSUME NEW p \in Nat, p > 0, NEW x \in 1..p, NEW y \in 1..p, NEW c \in Int, x - y = c * p
    PROVE  x = y
<1>1. c >= 1 => c * p >= p
  OBVIOUS
<1>2. c <= -1 => c * p <= -p
  OBVIOUS
<1>3. c = 0 => c * p = 0
  OBVIOUS
<1>4. c >= 1 \/ c <= -1 \/ c = 0
  OBVIOUS
<1> QED
  BY <1>1, <1>2, <1>3, <1>4

\* The places a search looks at.
LEMMA ProbesAreLoop ==
    ASSUME size \in Nat, size >= 3, NEW hval \in Nat
    PROVE  /\ H!Probes(hval) \in [0..size -> 1..size]
           /\ H!Probes(hval)[0] = H!FirstIdx(hval)
           /\ \A k \in 1..size : H!Probes(hval)[k] = H!Before(H!Probes(hval)[k - 1], H!Hval2(hval))
           /\ H!Hval2(hval) \in 1..(size - 2)
<1> DEFINE Step(ix) == H!Before(ix, H!Hval2(hval))
           Round == [k \in 1..size |-> [ix \in 1..size |-> Step(ix)]]
<1>1. H!Hval2(hval) \in 1..(size - 2) /\ H!FirstIdx(hval) \in 1..size
  BY DEF H!Hval2, H!FirstIdx
<1>2. \A ix \in 1..size : Step(ix) \in 1..size
  BY <1>1 DEF H!Before
<1> HIDE DEF Step
<1>3. Round \in [1..size -> [1..size -> 1..size]]
  BY <1>2
<1>4. PICK f \in [0..size -> 1..size] : Computes(f, size, H!FirstIdx(hval), Round)
  <2> HIDE DEF Round
  <2> QED
    BY <1>1, <1>3, Rounds
<1>5. f = [k \in 0..size |-> IF k = 0 THEN H!FirstIdx(hval) ELSE Step(f[k - 1])]
  <2>1. \A k \in 1..size : k - 1 \in 0..size /\ f[k - 1] \in 1..size
    OBVIOUS
  <2>2. \A k \in 1..size : f[k] = Round[k][f[k - 1]]
    BY <1>4 DEF Computes
  <2>3. \A k \in 1..size : f[k] = Step(f[k - 1])
    BY <2>1, <2>2
  <2>4. f[0] = H!FirstIdx(hval)
    BY <1>4 DEF Computes
  <2>5. \A k \in 0..size : k = 0 \/ k \in 1..size
    OBVIOUS
  <2> HIDE DEF Round
  <2>6. \A k \in 0..size : f[k] = IF k = 0 THEN H!FirstIdx(hval) ELSE Step(f[k - 1])
    BY <2>3, <2>4, <2>5
  <2>7. f = [k \in 0..size |-> f[k]]
    OBVIOUS
  <2> QED
    BY <2>6, <2>7
<1> DEFINE g == H!Probes(hval)
<1>6. g = [k \in 0..size |-> IF k = 0 THEN H!FirstIdx(hval) ELSE Step(g[k - 1])]
  BY <1>5 DEF H!Probes, Step
<1> HIDE DEF g
<1>7. g[0] = H!FirstIdx(hval)
  <2>1. 0 \in 0..size
    OBVIOUS
  <2> QED
    BY <1>6, <2>1
<1>8. ASSUME NEW k \in 1..size PROVE g[k] = Step(g[k - 1])
  <2>1. k \in 0..size /\ k # 0
    OBVIOUS
  <2> QED
    BY <1>6, <2>1
<1> DEFINE In == {k \in 0..size : g[k] \in 1..size}
<1>9. 0..size \subseteq In
  <2>1. 0 \in In
    <3>1. 0 \in 0..size /\ g[0] \in 1..size
      BY <1>1, <1>7
    <3> QED
      BY <3>1
  <2>2. ASSUME NEW k \in 0..size, k \in In, k < size PROVE k + 1 \in In
    <3>1. k + 1 \in 1..size /\ (k + 1) - 1 = k /\ g[k] \in 1..size
      BY <2>2
    <3>2. g[k + 1] = Step(g[k])
      BY <1>8, <3>1
    <3>3. k + 1 \in 0..size
      BY <3>1
    <3>4. Step(g[k]) \in 1..size
      BY <1>2, <3>1
    <3>5. g[k + 1] \in 1..size
      BY <3>2, <3>4
    <3> QED
      BY <3>3, <3>5
  <2>3. In \in SUBSET Nat
    OBVIOUS
  <2> HIDE DEF In
  <2> QED
    BY <2>1, <2>2, <2>3, UpTo
<1>10. g \in [0..size -> 1..size]
  <2>1. g = [k \in 0..size |-> g[k]]
    BY <1>6
  <2>2. \A k \in 0..size : g[k] \in 1..size
    BY <1>9
  <2> QED
    BY <2>1, <2>2
<1> QED
  BY <1>1, <1>7, <1>8, <1>10 DEF g, Step

\* In size probes the search comes by every bucket, and then to the first again.
LEMMA ProbesComeBy ==
    ASSUME size \in Nat, size >= 3, H!isprime(size), NEW hval \in Nat
    PROVE  /\ H!Probes(hval)[size] = H!Probes(hval)[0]
           /\ \A j, k \in 0..(size - 1) : H!Probes(hval)[j] = H!Probes(hval)[k] => j = k
           /\ \A i \in 1..size : \E k \in 0..(size - 1) : H!Probes(hval)[k] = i
<1>1. PICK g, h : g = H!Probes(hval) /\ h = H!Hval2(hval)
  OBVIOUS
<1>2. /\ g \in [0..size -> 1..size] /\ h \in 1..(size - 2)
      /\ \A k \in 1..size : g[k] = H!Before(g[k - 1], h)
  BY <1>1, ProbesAreLoop
<1>3. 0 \in 0..size /\ size \in 0..size /\ g[0] \in Int /\ h \in Int
  BY <1>2
<1> DEFINE At == {k \in 0..size : \E c \in Int : g[k] = g[0] - k * h + c * size}
<1>4. 0..size \subseteq At
  <2>1. 0 \in At
    <3> DEFINE To(c) == g[0] - 0 * h + c * size
    <3>1. 0 \in Int /\ g[0] = To(0)
      BY <1>3
    <3>2. \E c \in Int : g[0] = To(c)
      <4> HIDE DEF To
      <4> QED
        BY <3>1
    <3> QED
      BY <1>3, <3>2
  <2>2. ASSUME NEW k \in 0..size, k \in At, k < size PROVE k + 1 \in At
    <3>1. PICK c \in Int : g[k] = g[0] - k * h + c * size
      BY <2>2
    <3>2. k + 1 \in 1..size /\ (k + 1) - 1 = k /\ g[k] \in 1..size /\ k \in Int
      BY <1>2, <2>2
    <3>3. g[k + 1] = H!Before(g[k], h)
      BY <1>2, <3>2
    <3>4. g[k + 1] = g[k] - h + 0 * size \/ g[k + 1] = g[k] - h + 1 * size
      BY <1>3, <3>2, <3>3 DEF H!Before
    <3>5. (k + 1) * h = k * h + h
      BY <1>3, <3>2
    <3>6. (c + 0) * size = c * size + 0 * size /\ (c + 1) * size = c * size + 1 * size
      OBVIOUS
    <3>7. k * h \in Int /\ c * size \in Int /\ (k + 1) * h \in Int
      BY <1>3, <3>2
    <3>8. \/ g[k + 1] = g[0] - (k + 1) * h + (c + 0) * size
          \/ g[k + 1] = g[0] - (k + 1) * h + (c + 1) * size
      BY <1>3, <3>1, <3>2, <3>4, <3>5, <3>6, <3>7
    <3>9. c + 0 \in Int /\ c + 1 \in Int /\ k + 1 \in 0..size
      BY <3>2
    <3> QED
      BY <3>8, <3>9
  <2>3. At \in SUBSET Nat
    OBVIOUS
  <2> HIDE DEF At
  <2> QED
    BY <2>1, <2>2, <2>3, UpTo
<1>5. g[size] = g[0]
  <2>1. PICK c \in Int : g[size] = g[0] - size * h + c * size
    BY <1>3, <1>4
  <2>2. size * h \in Int /\ c * size \in Int /\ (c - h) * size = c * size - size * h
    BY <1>3
  <2>3. g[size] - g[0] = (c - h) * size
    BY <1>3, <2>1, <2>2
  <2>4. c - h \in Int /\ g[size] \in 1..size /\ g[0] \in 1..size
    BY <1>2, <1>3
  <2> QED
    BY <2>3, <2>4, LessThanOneRound
<1>6. ASSUME NEW j \in 0..(size - 1), NEW k \in 0..(size - 1), g[j] = g[k], j < k PROVE FALSE
  <2>1. j \in 0..size /\ k \in 0..size /\ j \in Int /\ k \in Int
    OBVIOUS
  <2>2. PICK c \in Int : g[j] = g[0] - j * h + c * size
    BY <1>4, <2>1
  <2>3. PICK d \in Int : g[k] = g[0] - k * h + d * size
    BY <1>4, <2>1
  <2>4. /\ j * h \in Int /\ k * h \in Int /\ c * size \in Int /\ d * size \in Int
        /\ (k - j) * h = k * h - j * h /\ (d - c) * size = d * size - c * size
    BY <1>3, <2>1
  <2>5. (k - j) * h = (d - c) * size
    <3>1. g[0] - j * h + c * size = g[0] - k * h + d * size
      BY <1>6, <2>2, <2>3
    <3>2. \A x, a, b, u, v \in Int : x - a + u = x - b + v => b - a = v - u
      OBVIOUS
    <3>3. k * h - j * h = d * size - c * size
      BY <1>3, <2>4, <3>1, <3>2
    <3> QED
      BY <2>4, <3>3
  <2>6. k - j \in 1..(size - 1) /\ h \in 1..(size - 1) /\ d - c \in Int
    BY <1>2, <1>6
  <2> QED
    BY <2>5, <2>6, PrimeDividesFactor
<1>7. \A j, k \in 0..(size - 1) : g[j] = g[k] => j = k
  BY <1>6
<1> DEFINE f == [k \in 0..(size - 1) |-> g[k]]
<1>8. f \in Injection(0..(size - 1), 1..size)
  <2>1. f \in [0..(size - 1) -> 1..size]
    <3>1. \A k \in 0..(size - 1) : k \in 0..size
      OBVIOUS
    <3> QED
      BY <1>2, <3>1
  <2>2. IsInjective(f)
    BY <1>7 DEF IsInjective
  <2> QED
    BY <2>1, <2>2 DEF Injection
<1>9. f \in Surjection(0..(size - 1), 1..size)
  <2>1. IsFiniteSet(1..size) /\ Cardinality(1..size) = size
    BY FS_Interval
  <2>2. Cardinality(0..(size - 1)) = size
    BY FS_Interval
  <2> HIDE DEF f
  <2> QED
    BY <1>8, <2>1, <2>2, FS_Injection
<1>10. \A i \in 1..size : \E k \in 0..(size - 1) : g[k] = i
  BY <1>9 DEF Surjection
<1> QED
  BY <1>1, <1>5, <1>7, <1>10

LEMMA HashesAreNumbers ==
    ASSUME NEW key \in Keys
    PROVE  H!Hval(key) \in Nat /\ H!Hval(key) # 0
<1>1. UintRange \in Nat /\ UintRange > 0 /\ key \in Seq(Int)
  BY StoreAssumption DEF H!KeyAssumption
<1>2. PICK count : count = Len(key)
  OBVIOUS
<1>3. count \in Nat /\ \A k \in 1..count : key[count - k + 1] \in Int
  <2>1. count \in Nat
    BY <1>1, <1>2
  <2>2. \A i \in 1..count : key[i] \in Int
    BY <1>1, <1>2
  <2>3. \A k \in 1..count : count - k + 1 \in 1..count
    BY <2>1
  <2> QED
    BY <2>1, <2>2, <2>3
<1> DEFINE After(k, hval) == (hval * 16 + key[count - k + 1]) % UintRange
           Round == [k \in 1..count |-> [hval \in Nat |-> After(k, hval)]]
<1>4. \A x \in Int : x % UintRange \in Nat
  BY <1>1
<1>5. \A k \in 1..count, hval \in Nat : After(k, hval) \in Nat
  <2>1. \A k \in 1..count, hval \in Nat : hval * 16 + key[count - k + 1] \in Int
    BY <1>3
  <2> QED
    BY <1>4, <2>1
<1> HIDE DEF After
<1>6. Round \in [1..count -> [Nat -> Nat]]
  BY <1>5
<1>7. PICK f \in [0..count -> Nat] : Computes(f, count, count % UintRange, Round)
  <2>1. count % UintRange \in Nat
    BY <1>3, <1>4
  <2> HIDE DEF Round
  <2> QED
    BY <1>3, <1>6, <2>1, Rounds
<1>8. f = [k \in 0..count |-> IF k = 0 THEN count % UintRange ELSE After(k, f[k - 1])]
  <2>1. \A k \in 1..count : k - 1 \in 0..count /\ f[k - 1] \in Nat
    BY <1>3
  <2>2. \A k \in 1..count : f[k] = Round[k][f[k - 1]]
    BY <1>7 DEF Computes
  <2>3. \A k \in 1..count : f[k] = After(k, f[k - 1])
    BY <2>1, <2>2
  <2>4. f[0] = count % UintRange
    BY <1>7 DEF Computes
  <2>5. \A k \in 0..count : k = 0 \/ k \in 1..count
    BY <1>3
  <2> HIDE DEF Round
  <2>6. \A k \in 0..count : f[k] = IF k = 0 THEN count % UintRange ELSE After(k, f[k - 1])
    BY <2>3, <2>4, <2>5
  <2>7. f = [k \in 0..count |-> f[k]]
    OBVIOUS
  <2> QED
    BY <2>6, <2>7
<1>9. PICK g :
          g = CHOOSE hval : hval = [k \in 0..count |-> IF k = 0 THEN count % UintRange
                                                     ELSE After(k, hval[k - 1])]
  OBVIOUS
<1>10. g = [k \in 0..count |-> IF k = 0 THEN count % UintRange ELSE After(k, g[k - 1])]
  BY <1>8, <1>9
<1>11. H!Hval(key) = IF g[count] = 0 THEN 1 ELSE g[count]
  BY <1>2, <1>9 DEF H!Hval, After
<1> DEFINE In == {k \in 0..count : g[k] \in Nat}
<1>12. 0..count \subseteq In
  <2>1. 0 \in In
    <3>1. 0 \in 0..count
      BY <1>3
    <3>2. g[0] = count % UintRange
      BY <1>10, <3>1
    <3>3. g[0] \in Nat
      BY <1>3, <1>4, <3>2
    <3> QED
      BY <3>1, <3>3
  <2>2. ASSUME NEW k \in 0..count, k \in In, k < count PROVE k + 1 \in In
    <3>1. k + 1 \in 0..count /\ k + 1 \in 1..count /\ k + 1 # 0 /\ (k + 1) - 1 = k /\ g[k] \in Nat
      BY <1>3, <2>2
    <3>2. g[k + 1] = After(k + 1, g[k])
      BY <1>10, <3>1
    <3>3. After(k + 1, g[k]) \in Nat
      BY <1>5, <3>1
    <3>4. g[k + 1] \in Nat
      BY <3>2, <3>3
    <3> QED
      BY <3>1, <3>4
  <2>3. In \in SUBSET Nat
    BY <1>3
  <2> HIDE DEF In
  <2> QED
    BY <1>3, <2>1, <2>2, <2>3, UpTo
<1>13. g[count] \in Nat
  BY <1>3, <1>12
<1> QED
  BY <1>11, <1>13

--------------------------------------------------------------------------------
(* Hash tables: what is true throughout.                                   *)

\* The places a search for a key looks at, one after the other.
Places(key) == H!Probes(H!Hval(key))
Taken == {i \in 1..size : buckets[i].used # 0}

\* The key stands in its k-th place, and the places before are taken.
Chain(key, k) ==
    /\ Places(key)[k] \in Taken /\ buckets[Places(key)[k]].key = key
    /\ \A j \in 0..(k - 1) : Places(key)[j] \in Taken

PrimeTable ==
    /\ size \in Nat /\ size >= 3 /\ H!isprime(size)
    /\ buckets = [i \in 1..size |-> buckets[i]]

Counted ==
    /\ filled \in Nat /\ IsFiniteSet(DOMAIN entered)
    /\ Cardinality(DOMAIN entered) = filled /\ Cardinality(Taken) = filled

\* What stands in the table was entered, and what was entered can be found.
Entered ==
    /\ \A i \in Taken : /\ buckets[i].used = H!Hval(buckets[i].key)
                        /\ buckets[i].key \in DOMAIN entered
                        /\ buckets[i].data = entered[buckets[i].key]
    /\ \A key \in DOMAIN entered : key \in Keys /\ \E k \in 0..(size - 1) : Chain(key, k)

TableInv == IF H!Created THEN PrimeTable /\ Counted /\ Entered ELSE entered = << >>

\* Where the search for a key ends.
Same(key, k) ==
    /\ buckets[Places(key)[k]].used = H!Hval(key)
    /\ buckets[Places(key)[k]].key = key

LEMMA SearchEnds ==
    ASSUME PrimeTable, NEW key \in Keys
    PROVE  \E k \in 0..size :
              /\ H!Probe(key) = [idx |-> Places(key)[k], found |-> k # size /\ Same(key, k)]
              /\ k = size \/ Same(key, k) \/ buckets[Places(key)[k]].used = 0
              /\ \A j \in 0..(k - 1) : ~Same(key, j) /\ buckets[Places(key)[j]].used # 0
<1>1. /\ size \in Nat /\ size >= 3 /\ H!isprime(size)
      /\ H!Hval(key) \in Nat
  BY HashesAreNumbers DEF PrimeTable
<1>2. /\ Places(key)[size] = Places(key)[0]
      /\ \A j, k \in 0..(size - 1) : Places(key)[j] = Places(key)[k] => j = k
  BY <1>1, ProbesComeBy DEF Places
<1> DEFINE Around(k) == k > 0 /\ Places(key)[k] = Places(key)[0]
           Unused(k) == buckets[Places(key)[k]].used = 0
           Ends == {k \in 0..size : Around(k) \/ Same(key, k) \/ Unused(k)}
           Stops(k) == /\ Around(k) \/ Same(key, k) \/ Unused(k)
                       /\ \A j \in 0..(k - 1) : ~Around(j) /\ ~Same(key, j) /\ ~Unused(j)
<1>3. \A k \in 0..size : Around(k) <=> k = size
  <2>1. Around(size)
    BY <1>1, <1>2
  <2>2. ASSUME NEW k \in 0..size, Around(k), k # size PROVE FALSE
    <3>1. k \in 0..(size - 1) /\ 0 \in 0..(size - 1) /\ k # 0
      BY <1>1, <2>2
    <3> QED
      BY <1>2, <2>2, <3>1
  <2> QED
    BY <2>1, <2>2
<1> HIDE DEF Around, Unused
<1>4. \E k \in 0..size : Stops(k)
  <2>1. size \in Ends /\ Ends \in SUBSET Nat
    BY <1>1, <1>3
  <2>2. PICK k \in Ends : \A j \in Ends : k <= j
    <3> HIDE DEF Ends
    <3> QED
      BY <2>1, LeastOf
  <2>3. ASSUME NEW j \in 0..(k - 1) PROVE ~Around(j) /\ ~Same(key, j) /\ ~Unused(j)
    <3>1. j \in 0..size /\ ~(k <= j)
      BY <1>1
    <3>2. j \notin Ends
      <4> HIDE DEF Ends
      <4> QED
        BY <2>2, <3>1
    <3> QED
      BY <3>1, <3>2
  <2> QED
    BY <2>3
<1>5. PICK k : k = CHOOSE n \in 0..size : Stops(n)
  OBVIOUS
<1>6. k \in 0..size /\ Stops(k)
  <2> HIDE DEF Stops
  <2> QED
    BY <1>4, <1>5
<1>7. H!Probe(key) = [idx |-> Places(key)[k], found |-> ~Around(k) /\ Same(key, k)]
  BY <1>5 DEF H!Probe, Places, Same, Around, Unused, H!Unused
<1>8. H!Probe(key) = [idx |-> Places(key)[k], found |-> k # size /\ Same(key, k)]
  BY <1>3, <1>6, <1>7
<1>9. /\ k = size \/ Same(key, k) \/ buckets[Places(key)[k]].used = 0
      /\ \A j \in 0..(k - 1) : ~Same(key, j) /\ buckets[Places(key)[j]].used # 0
  BY <1>3, <1>6 DEF Unused
<1> QED
  BY <1>6, <1>8, <1>9

\* What the search for a key comes to.
LEMMA SearchFinds ==
    ASSUME H!Created, TableInv, NEW key \in Keys
    PROVE  \E k \in 0..size :
              /\ H!Probe(key) = [idx |-> Places(key)[k], found |-> key \in DOMAIN entered]
              /\ Places(key)[k] \in 1..size
              /\ key \in DOMAIN entered => buckets[Places(key)[k]].data = entered[key]
              /\ (key \notin DOMAIN entered /\ filled # size)
                    => k \in 0..(size - 1) /\ buckets[Places(key)[k]].used = 0
              /\ \A j \in 0..(k - 1) : Places(key)[j] \in Taken
<1>1. PrimeTable /\ Counted /\ Entered
  BY DEF TableInv
<1>2. /\ size \in Nat /\ size >= 3 /\ H!isprime(size)
      /\ H!Hval(key) \in Nat /\ H!Hval(key) # 0
  BY <1>1, HashesAreNumbers DEF PrimeTable
<1>3. /\ Places(key) \in [0..size -> 1..size]
      /\ \A i \in 1..size : \E k \in 0..(size - 1) : Places(key)[k] = i
  BY <1>2, ProbesAreLoop, ProbesComeBy DEF Places
<1>4. PICK k \in 0..size :
          /\ H!Probe(key) = [idx |-> Places(key)[k], found |-> k # size /\ Same(key, k)]
          /\ k = size \/ Same(key, k) \/ buckets[Places(key)[k]].used = 0
          /\ \A j \in 0..(k - 1) : ~Same(key, j) /\ buckets[Places(key)[j]].used # 0
  BY <1>1, SearchEnds
<1>5. ASSUME NEW j \in 0..(k - 1) PROVE Places(key)[j] \in Taken
  <2>1. j \in 0..size
    BY <1>2
  <2> QED
    BY <1>3, <1>4, <2>1 DEF Taken
<1>6. Places(key)[k] \in 1..size
  BY <1>3
<1>7. ASSUME k # size, Same(key, k)
      PROVE  key \in DOMAIN entered /\ buckets[Places(key)[k]].data = entered[key]
  <2>1. Places(key)[k] \in Taken /\ buckets[Places(key)[k]].key = key
    BY <1>2, <1>6, <1>7 DEF Taken, Same
  <2> QED
    BY <1>1, <2>1 DEF Entered
<1>8. ASSUME key \in DOMAIN entered PROVE k # size /\ Same(key, k)
  <2>1. PICK n \in 0..(size - 1) : Chain(key, n)
    BY <1>1, <1>8 DEF Entered
  <2>2. Same(key, n) /\ n \in Int /\ k \in Int
    <3>1. Places(key)[n] \in Taken /\ buckets[Places(key)[n]].key = key
      BY <2>1 DEF Chain
    <3>2. buckets[Places(key)[n]].used = H!Hval(buckets[Places(key)[n]].key)
      BY <1>1, <3>1 DEF Entered
    <3>3. Same(key, n)
      BY <3>1, <3>2 DEF Same
    <3> QED
      BY <1>2, <3>3
  <2>3. ~(n < k)
    <3>1. n < k => n \in 0..(k - 1)
      BY <1>2, <2>2
    <3> QED
      BY <1>4, <2>2, <3>1
  <2>4. k # size
    BY <1>2, <2>2, <2>3
  <2>5. CASE k = n
    BY <2>2, <2>4, <2>5
  <2>6. CASE k < n
    <3>1. k \in 0..(n - 1)
      BY <1>2, <2>6
    <3>2. Places(key)[k] \in Taken
      BY <2>1, <3>1 DEF Chain
    <3>3. buckets[Places(key)[k]].used # 0
      BY <3>2 DEF Taken
    <3> QED
      BY <1>4, <2>4, <3>3
  <2> QED
    BY <1>2, <2>2, <2>3, <2>5, <2>6
<1>9. ASSUME key \notin DOMAIN entered, filled # size
      PROVE  k \in 0..(size - 1) /\ buckets[Places(key)[k]].used = 0
  <2>1. k # size
    <3>1. ASSUME k = size PROVE FALSE
      <4>1. Taken = 1..size
        <5>1. \A i \in 1..size : i \in Taken
          BY <1>3, <1>5, <3>1
        <5> QED
          BY <5>1 DEF Taken
      <4>2. Cardinality(1..size) = size
        BY <1>2, FS_Interval
      <4> QED
        BY <1>1, <1>9, <4>1, <4>2 DEF Counted
    <3> QED
      BY <3>1
  <2>2. k \in 0..(size - 1)
    BY <1>2, <2>1
  <2>3. ~Same(key, k)
    BY <1>7, <1>9, <2>1
  <2> QED
    BY <1>4, <2>1, <2>2, <2>3
<1>10. (k # size /\ Same(key, k)) = (key \in DOMAIN entered)
  <2>1. (k # size /\ Same(key, k)) <=> (key \in DOMAIN entered)
    BY <1>7, <1>8
  <2>2. (k # size /\ Same(key, k)) \in BOOLEAN
    OBVIOUS
  <2> QED
    BY <2>1, <2>2
<1>11. H!Probe(key) = [idx |-> Places(key)[k], found |-> key \in DOMAIN entered]
  BY <1>4, <1>10
<1> QED
  BY <1>5, <1>6, <1>7, <1>8, <1>9, <1>11

LEMMA SameCount == \A P : H!Cardinality(P) = Cardinality(P)
BY DEF H!Cardinality, Cardinality

LEMMA TableSearches == TableInv => SearchIsMap
<1> SUFFICES ASSUME TableInv, H!Created PROVE H!SearchIsMap
  BY DEF SearchIsMap, H!SearchIsMap
<1>1. PrimeTable /\ Counted
  BY DEF TableInv
<1>2. filled = H!Cardinality(DOMAIN entered) /\ filled <= size
  <2>1. size \in Nat
    BY <1>1 DEF PrimeTable
  <2>2. IsFiniteSet(1..size) /\ Cardinality(1..size) = size
    BY <2>1, FS_Interval
  <2>3. Taken \in SUBSET (1..size)
    BY DEF Taken
  <2>4. Cardinality(Taken) <= size
    BY <2>2, <2>3, FS_Subset
  <2> QED
    BY <1>1, <2>4, SameCount DEF Counted
<1>3. ASSUME NEW key \in Keys
      PROVE  /\ H!Probe(key).found <=> key \in DOMAIN entered
             /\ H!Probe(key).found => buckets[H!Probe(key).idx].data = entered[key]
             /\ (~H!Probe(key).found /\ filled # size) => buckets[H!Probe(key).idx].used = 0
  <2>1. PICK k \in 0..size :
          /\ H!Probe(key) = [idx |-> Places(key)[k], found |-> key \in DOMAIN entered]
          /\ key \in DOMAIN entered => buckets[Places(key)[k]].data = entered[key]
          /\ (key \notin DOMAIN entered /\ filled # size)
                => buckets[Places(key)[k]].used = 0
    BY SearchFinds
  <2>2. /\ H!Probe(key).idx = Places(key)[k]
        /\ H!Probe(key).found = (key \in DOMAIN entered)
    BY <2>1
  <2> QED
    BY <2>1, <2>2
<1> QED
  BY <1>2, <1>3 DEF H!SearchIsMap, H!Unused

--------------------------------------------------------------------------------
(* Hash tables: every call keeps it so.                                    *)

LEMMA TableBegins == H!Init => TableInv
BY DEF H!Init, TableInv, H!Created

LEMMA DestroyKeeps == ASSUME TableInv, H!Destroy PROVE TableInv'
BY DEF TableInv, H!Destroy, H!Created

LEMMA CreateKeeps == ASSUME TableInv, H!Create PROVE TableInv'
<1>1. PICK nel \in Nels : /\ H!Sizes(nel) # {}
                          /\ size' = CHOOSE n \in H!Sizes(nel) : \A m \in H!Sizes(nel) : n <= m
  BY DEF H!Create
<1>2. /\ buckets' \in {<< >>, [ix \in 1..size' |-> H!NoBucket]}
      /\ filled' = 0 /\ entered' = << >>
  BY DEF H!Create, TableInv
<1>3. CASE buckets' = << >>
  BY <1>2, <1>3 DEF TableInv, H!Created
<1>4. CASE buckets' = [ix \in 1..size' |-> H!NoBucket]
  <2>1. size' \in H!Sizes(nel)
    <3>1. H!Sizes(nel) \in SUBSET Nat
      BY StoreAssumption DEF H!Sizes, H!KeyAssumption
    <3>2. \E n \in H!Sizes(nel) : \A m \in H!Sizes(nel) : n <= m
      BY <1>1, <3>1, LeastOf
    <3> QED
      BY <1>1, <3>2
  <2>2. size' \in Nat /\ size' >= 3 /\ H!isprime(size')
    <3>1. nel \in Nat
      BY StoreAssumption DEF H!KeyAssumption
    <3>2. \A n \in H!Sizes(nel) : n \in Int /\ n >= nel /\ n >= 3 /\ H!isprime(n)
      BY <3>1 DEF H!Sizes
    <3> QED
      BY <2>1, <3>1, <3>2
  <2>3. PrimeTable'
    BY <1>4, <2>2 DEF PrimeTable
  <2>4. Taken' = {}
    BY <1>4 DEF Taken, H!NoBucket, H!Unused
  <2>5. DOMAIN entered' = {}
    BY <1>2
  <2>6. Counted'
    BY <1>2, <2>4, <2>5, FS_EmptySet DEF Counted
  <2>7. Entered'
    BY <2>4, <2>5 DEF Entered
  <2> QED
    BY <1>2, <2>3, <2>6, <2>7 DEF TableInv
<1> QED
  BY <1>2, <1>3, <1>4

LEMMA EnterKeeps == ASSUME TableInv, H!Enter PROVE TableInv'
<1>1. H!Created /\ PrimeTable /\ Counted /\ Entered
  BY DEF H!Enter, TableInv
<1>2. PICK new \in Keys, data \in Data :
          /\ ~H!Probe(new).found /\ filled # size
          /\ buckets' = [buckets EXCEPT ![H!Probe(new).idx] =
                            [used |-> H!Hval(new), key |-> new, data |-> data]]
          /\ filled' = filled + 1
          /\ entered' = [key \in DOMAIN entered \union {new} |->
                            IF key = new THEN data ELSE entered[key]]
  BY DEF H!Enter
<1>3. size' = size
  BY DEF H!Enter
<1>4. PICK last \in 0..size :
          /\ H!Probe(new) = [idx |-> Places(new)[last], found |-> new \in DOMAIN entered]
          /\ Places(new)[last] \in 1..size
          /\ (new \notin DOMAIN entered /\ filled # size)
                => last \in 0..(size - 1) /\ buckets[Places(new)[last]].used = 0
          /\ \A j \in 0..(last - 1) : Places(new)[j] \in Taken
  BY <1>1, SearchFinds
<1>5. PICK ix : ix = Places(new)[last]
  OBVIOUS
<1>6. /\ new \notin DOMAIN entered /\ ix \in 1..size /\ ix \notin Taken
      /\ last \in 0..(size - 1)
  <2>1. H!Probe(new).found = (new \in DOMAIN entered)
    BY <1>4
  <2>2. new \notin DOMAIN entered /\ filled # size
    BY <1>2, <2>1
  <2> QED
    BY <1>4, <1>5, <2>2 DEF Taken
<1>7. /\ buckets' = [i \in 1..size |-> buckets'[i]]
      /\ buckets'[ix] = [used |-> H!Hval(new), key |-> new, data |-> data]
      /\ \A i \in 1..size : i # ix => buckets'[i] = buckets[i]
  <2>1. H!Probe(new).idx = ix
    BY <1>4, <1>5
  <2>2. buckets = [i \in 1..size |-> buckets[i]]
    BY <1>1 DEF PrimeTable
  <2> QED
    BY <1>2, <1>6, <2>1, <2>2
<1>8. PrimeTable'
  <2>1. size \in Nat /\ size >= 3 /\ H!isprime(size)
    BY <1>1 DEF PrimeTable
  <2>2. H!isprime(size')
    BY <1>3, <2>1
  <2> QED
    BY <1>3, <1>7, <2>1, <2>2 DEF PrimeTable
<1>9. H!Created'
  <2>1. ix \in DOMAIN buckets'
    BY <1>6, <1>7
  <2> QED
    BY <2>1 DEF H!Created
<1>10. Taken' = Taken \union {ix}
  <2>1. H!Hval(new) # 0
    BY HashesAreNumbers
  <2>2. \A i \in 1..size : buckets'[i].used # 0 <=> (buckets[i].used # 0 \/ i = ix)
    BY <1>7, <2>1
  <2> QED
    BY <1>3, <1>6, <2>2 DEF Taken
<1>11. /\ DOMAIN entered' = DOMAIN entered \union {new}
       /\ entered'[new] = data
       /\ \A key \in DOMAIN entered : entered'[key] = entered[key]
  BY <1>2, <1>6
<1>12. Counted'
  <2>1. IsFiniteSet(Taken)
    <3>1. IsFiniteSet(1..size)
      BY <1>1, FS_Interval DEF PrimeTable
    <3>2. Taken \in SUBSET (1..size)
      BY DEF Taken
    <3> QED
      BY <3>1, <3>2, FS_Subset
  <2>2. Cardinality(Taken') = Cardinality(Taken) + 1
    BY <1>6, <1>10, <2>1, FS_AddElement
  <2>3. /\ IsFiniteSet(DOMAIN entered')
        /\ Cardinality(DOMAIN entered') = Cardinality(DOMAIN entered) + 1
    BY <1>1, <1>6, <1>11, FS_AddElement DEF Counted
  <2> QED
    BY <1>1, <1>2, <2>2, <2>3 DEF Counted
<1>13. ASSUME NEW i \in Taken'
       PROVE  /\ buckets'[i].used = H!Hval(buckets'[i].key)
              /\ buckets'[i].key \in DOMAIN entered'
              /\ buckets'[i].data = entered'[buckets'[i].key]
  <2>1. CASE i = ix
    BY <1>7, <1>11, <2>1
  <2>2. CASE i # ix
    <3>1. i \in Taken /\ i \in 1..size
      BY <1>10, <2>2 DEF Taken
    <3>2. /\ buckets[i].used = H!Hval(buckets[i].key)
          /\ buckets[i].key \in DOMAIN entered
          /\ buckets[i].data = entered[buckets[i].key]
      BY <1>1, <3>1 DEF Entered
    <3> QED
      BY <1>7, <1>11, <2>2, <3>1, <3>2
  <2> QED
    BY <2>1, <2>2
<1>14. \A key : Places(key)' = Places(key)
  BY <1>3 DEF Places, H!Hval, H!Probes, H!FirstIdx, H!Hval2, H!Before
<1>15. ASSUME NEW key \in DOMAIN entered'
       PROVE  key \in Keys /\ \E k \in 0..(size - 1) : Chain(key, k)'
  <2>1. CASE key = new
    <3>1. Places(new)[last] \in Taken' /\ buckets'[Places(new)[last]].key = new
      BY <1>5, <1>7, <1>10
    <3>2. \A j \in 0..(last - 1) : Places(new)[j] \in Taken'
      BY <1>4, <1>10
    <3>3. Chain(new, last)'
      BY <1>14, <3>1, <3>2 DEF Chain
    <3> QED
      BY <1>6, <2>1, <3>3
  <2>2. CASE key # new
    <3>1. key \in DOMAIN entered
      BY <1>11, <2>2
    <3>2. key \in Keys
      BY <1>1, <3>1 DEF Entered
    <3>3. PICK k \in 0..(size - 1) : Chain(key, k)
      BY <1>1, <3>1 DEF Entered
    <3>4. Places(key)[k] \in Taken /\ Places(key)[k] \in 1..size /\ Places(key)[k] # ix
      BY <1>6, <3>3 DEF Chain, Taken
    <3>5. buckets'[Places(key)[k]].key = key
      BY <1>7, <3>3, <3>4 DEF Chain
    <3>6. \A j \in 0..(k - 1) : Places(key)[j] \in Taken'
      BY <1>10, <3>3 DEF Chain
    <3>7. Chain(key, k)'
      BY <1>10, <1>14, <3>4, <3>5, <3>6 DEF Chain
    <3> QED
      BY <3>2, <3>7
  <2> QED
    BY <2>1, <2>2
<1>16. Entered'
  BY <1>3, <1>13, <1>15 DEF Entered
<1> QED
  BY <1>8, <1>9, <1>12, <1>16 DEF TableInv

LEMMA TableSteps == TableInv /\ [H!Next]_htab => TableInv'
<1> SUFFICES ASSUME TableInv, [H!Next]_htab PROVE TableInv'
  OBVIOUS
<1>1. CASE UNCHANGED htab
  <2>1. buckets' = buckets /\ size' = size /\ filled' = filled /\ entered' = entered
    BY <1>1 DEF htab
  <2>2. Taken' = Taken
    BY <2>1 DEF Taken
  <2>3. \A key : Places(key)' = Places(key)
    BY <2>1 DEF Places, H!Hval, H!Probes, H!FirstIdx, H!Hval2, H!Before
  <2>4. \A key, k : Chain(key, k)' = Chain(key, k)
    BY <2>1, <2>2, <2>3 DEF Chain
  <2>5. PrimeTable' = PrimeTable /\ Counted' = Counted /\ H!Created' = H!Created
    BY <2>1, <2>2 DEF PrimeTable, H!isprime, Counted, H!Created
  <2>6. Entered => Entered'
    BY <2>1, <2>2, <2>4 DEF Entered
  <2> QED
    BY <2>1, <2>5, <2>6 DEF TableInv
<1>2. CASE H!Next
  BY <1>2, CreateKeeps, DestroyKeeps, EnterKeeps DEF H!Next
<1> QED
  BY <1>1, <1>2

\* A search finds what was entered under its key and nothing else, and ENTER is
\* refused only when every bucket is taken: for the sizes the table may have,
\* which are prime, the probes of a missing key come by all buckets before they
\* are back at the first (hsearch_r.c lines 82-98, 158-242).
THEOREM SearchCorrect == StoreSpec => []SearchIsMap
<1>1. StoreInit => TableInv
  BY TableBegins DEF StoreInit
<1>2. TableInv /\ [StoreNext]_storevars => TableInv'
  <2>1. [StoreNext]_storevars => [H!Next]_htab
    BY DEF StoreNext, UseObstack, UseHsearch, UseDynarray, UseServices, UseNodeSet, storevars
  <2> QED
    BY <2>1, TableSteps
<1> QED
  BY <1>1, <1>2, TableSearches, PTL DEF StoreSpec

--------------------------------------------------------------------------------
(* Obstacks: addresses.                                                    *)

LEMMA AlignedIs ==
    ASSUME NEW a \in Nat
    PROVE  O!Aligned(a) \in Nat /\ a <= O!Aligned(a) /\ O!Aligned(a) < a + Alignment
<1>1. Alignment \in Nat /\ Alignment > 0
  BY StoreAssumption DEF O!SizeAssumption
<1>2. PICK n : n = a + Alignment - 1
  OBVIOUS
<1>3. n \in Nat
  BY <1>1, <1>2
<1>4. PICK q \in Nat, r \in 0..(Alignment - 1) : n = q * Alignment + r
  BY <1>1, <1>3, Division
<1>5. n \div Alignment = q
  BY <1>1, <1>3, <1>4
<1>6. O!Aligned(a) = q * Alignment
  BY <1>2, <1>5 DEF O!Aligned
<1>7. q * Alignment \in Nat
  BY <1>1
<1> QED
  BY <1>1, <1>2, <1>4, <1>6, <1>7

--------------------------------------------------------------------------------
(* Obstacks: what is true throughout.                                      *)

Sound(c) ==
    /\ c.base \in Nat /\ c.limit \in Nat /\ O!Contents(c) \in Nat
    /\ 0 < c.base /\ c.base < O!Contents(c) /\ O!Contents(c) <= c.limit
    /\ c.limit <= Memory + 1
Apart(c, d) == c.limit <= d.base \/ d.limit <= c.base

ChunksApart ==
    /\ \A k \in 1..Len(chunks) : Sound(chunks[k])
    /\ \A k, l \in 1..Len(chunks) : k # l => Apart(chunks[k], chunks[l])

\* An object in a chunk.
End(object) == object.at + Len(object.bytes)
Lies(object, c) ==
    object.chunk = c.base /\ O!Contents(c) <= object.at /\ End(object) <= c.limit

Placed(n) ==
    /\ O!Holds(objects[n].at, objects[n].bytes)
    /\ \E k \in 1..Len(chunks) : Lies(objects[n], chunks[k])

\* The later of two objects is in the same chunk, behind the first, or in a later
\* chunk, which is nearer to the top.
Stacked(m, n) ==
    \A k, l \in 1..Len(chunks) :
        Lies(objects[m], chunks[k]) /\ Lies(objects[n], chunks[l]) =>
            l <= k /\ (l = k => End(objects[m]) <= objects[n].at)

\* The object on top is behind the finished ones of its chunk, and none of these
\* is overlooked where chunks are freed.
OnTop ==
    /\ O!Holds(object_base, growing) /\ next_free = object_base + Len(growing)
    /\ O!Contents(chunks[1]) <= object_base /\ next_free <= chunks[1].limit
    /\ \A n \in 1..Len(objects) : Lies(objects[n], chunks[1]) =>
          /\ End(objects[n]) <= object_base
          /\ ~maybe_empty_object => Len(objects[n].bytes) > 0

ObInv ==
    /\ O!TypeOK
    /\ ChunksApart
    /\ \A n \in 1..Len(objects) : Placed(n)
    /\ \A m, n \in 1..Len(objects) : m < n => Stacked(m, n)
    /\ IF chunks = << >> THEN objects = << >> /\ growing = << >> ELSE OnTop

\* What the types say of each part.
LEMMA ObTypes ==
    ASSUME O!TypeOK
    PROVE  /\ Len(chunks) \in Nat /\ Len(objects) \in Nat /\ Len(growing) \in Nat
           /\ object_base \in Nat /\ next_free \in Nat /\ Memory \in Nat
           /\ \A k \in 1..Len(chunks) :
                 /\ chunks[k] \in [base : O!Addresses, limit : 1..(Memory + 1)]
                 /\ chunks[k].base \in Nat /\ chunks[k].limit \in Nat
           /\ \A n \in 1..Len(objects) :
                 /\ objects[n].at \in Nat /\ objects[n].bytes \in Seq(O!Byte)
                 /\ objects[n].chunk \in Nat
                 /\ Len(objects[n].bytes) \in Nat /\ End(objects[n]) \in Nat
           /\ chunks = << >> <=> Len(chunks) = 0
<1>1. Memory \in Nat
  BY StoreAssumption DEF O!SizeAssumption
<1>2. /\ chunks \in Seq([base : O!Addresses, limit : 1..(Memory + 1)])
      /\ objects \in Seq([at : 1..(Memory + 1), bytes : Seq(O!Byte), chunk : O!Addresses])
      /\ growing \in Seq(O!Byte)
  BY DEF O!TypeOK
<1>3. Len(chunks) \in Nat /\ Len(objects) \in Nat /\ Len(growing) \in Nat
  BY <1>2
<1>4. object_base \in Nat /\ next_free \in Nat
  BY <1>1 DEF O!TypeOK
<1>5. ASSUME NEW k \in 1..Len(chunks)
      PROVE  /\ chunks[k] \in [base : O!Addresses, limit : 1..(Memory + 1)]
             /\ chunks[k].base \in Nat /\ chunks[k].limit \in Nat
  <2> DEFINE R == [base : O!Addresses, limit : 1..(Memory + 1)]
  <2>1. chunks[k] \in R
    <3>1. chunks \in Seq(R)
      BY <1>2
    <3> HIDE DEF R
    <3> QED
      BY <3>1
  <2> QED
    BY <1>1, <2>1 DEF O!Addresses
<1>6. ASSUME NEW n \in 1..Len(objects)
      PROVE  /\ objects[n].at \in Nat /\ objects[n].bytes \in Seq(O!Byte)
             /\ objects[n].chunk \in Nat
             /\ Len(objects[n].bytes) \in Nat /\ End(objects[n]) \in Nat
  <2> DEFINE R == [at : 1..(Memory + 1), bytes : Seq(O!Byte), chunk : O!Addresses]
  <2>1. objects[n] \in R
    <3>1. objects \in Seq(R)
      BY <1>2
    <3> HIDE DEF R
    <3> QED
      BY <3>1
  <2>2. /\ objects[n].at \in Nat /\ objects[n].bytes \in Seq(O!Byte)
        /\ objects[n].chunk \in Nat
    BY <1>1, <2>1 DEF O!Addresses
  <2>3. Len(objects[n].bytes) \in Nat
    BY <2>2
  <2> QED
    BY <2>2, <2>3 DEF End
<1>7. chunks = << >> <=> Len(chunks) = 0
  BY <1>2
<1> QED
  BY <1>1, <1>3, <1>4, <1>5, <1>6, <1>7

\* A chunk is told by its base.
LEMMA OneChunk ==
    ASSUME O!TypeOK, ChunksApart, NEW k \in 1..Len(chunks), NEW l \in 1..Len(chunks),
           chunks[k].base = chunks[l].base
    PROVE  k = l
<1>1. Sound(chunks[k]) /\ Sound(chunks[l])
  BY DEF ChunksApart
<1>2. ASSUME k # l PROVE FALSE
  <2>1. Apart(chunks[k], chunks[l])
    BY <1>2 DEF ChunksApart
  <2>2. PICK c, d : c = chunks[k].base /\ d = chunks[k].limit
    OBVIOUS
  <2>3. c \in Nat /\ d \in Nat /\ c < d
    BY <1>1, <2>2 DEF Sound
  <2>4. d <= c \/ chunks[l].limit <= c
    BY <2>1, <2>2 DEF Apart
  <2>5. c < chunks[l].limit /\ chunks[l].limit \in Nat
    BY <1>1, <2>2 DEF Sound
  <2> QED
    BY <2>3, <2>4, <2>5
<1> QED
  BY <1>2

\* The least of a set, as the module's Min finds it.
LEMMA MinIs ==
    ASSUME NEW T \in SUBSET Nat, NEW x \in T, \A y \in T : x <= y
    PROVE  O!Min(T) = x
<1>1. O!Min(T) = CHOOSE m \in T : \A y \in T : m <= y
  BY DEF O!Min
<1>2. \E m \in T : \A y \in T : m <= y
  OBVIOUS
<1> DEFINE Least(m) == \A y \in T : m <= y
<1>3. O!Min(T) \in T /\ Least(O!Min(T))
  <2>1. \E m \in T : Least(m)
    BY <1>2
  <2>2. O!Min(T) = CHOOSE m \in T : Least(m)
    BY <1>1
  <2> HIDE DEF Least
  <2> QED
    BY <2>1, <2>2
<1>4. PICK m \in T : m = O!Min(T)
  BY <1>3
<1>5. x <= m /\ m <= x
  BY <1>3, <1>4
<1>6. x \in Int /\ m \in Int
  OBVIOUS
<1> QED
  BY <1>4, <1>5, <1>6

\* The search of obstack_free comes to the chunk of an object.
LEMMA FoundIs ==
    ASSUME O!TypeOK, ChunksApart, NEW k \in 1..Len(chunks), NEW obj \in Nat,
           O!Contents(chunks[k]) <= obj, obj <= chunks[k].limit
    PROVE  O!Found(obj) = k
<1> DEFINE Ks == {j \in 1..(Len(chunks) + 1) : j > Len(chunks) \/ O!FoundIn(chunks[j], obj)}
<1>1. Len(chunks) \in Nat
  BY ObTypes
<1>2. k \in Ks
  <2>1. chunks[k].base < obj
    BY DEF ChunksApart, Sound
  <2> QED
    BY <1>1, <2>1 DEF O!FoundIn
<1>3. ASSUME NEW j \in Ks PROVE k <= j
  <2>1. CASE j > Len(chunks)
    BY <1>1, <2>1
  <2>2. CASE j \in 1..Len(chunks) /\ O!FoundIn(chunks[j], obj)
    <3>1. ASSUME j # k PROVE FALSE
      <4>1. Apart(chunks[j], chunks[k]) /\ Sound(chunks[j]) /\ Sound(chunks[k])
        BY <2>2, <3>1 DEF ChunksApart
      <4>2. chunks[j].base < obj /\ obj <= chunks[j].limit
        BY <2>2 DEF O!FoundIn
      <4> QED
        BY <4>1, <4>2 DEF Apart, Sound
    <3> QED
      BY <1>1, <3>1
  <2> QED
    BY <1>1, <2>1, <2>2
<1>4. Ks \in SUBSET Nat
  OBVIOUS
<1> HIDE DEF Ks
<1>5. O!Min(Ks) = k
  BY <1>2, <1>3, <1>4, MinIs
<1> QED
  BY <1>5 DEF O!Found, Ks

LEMMA ObjectsAreKept == ObInv => ObjectsSurvive
<1> SUFFICES ASSUME ObInv PROVE O!Kept /\ O!FreeFindsObjects
  BY DEF ObjectsSurvive, O!ObjectsSurvive
<1>1. O!TypeOK /\ ChunksApart
  BY DEF ObInv
<1>2. DOMAIN objects = 1..Len(objects) /\ DOMAIN chunks = 1..Len(chunks)
  BY DEF ObInv, O!TypeOK
<1>3. ASSUME NEW n \in 1..Len(objects)
      PROVE  /\ O!Holds(objects[n].at, objects[n].bytes)
             /\ \E k \in 1..Len(chunks) :
                   /\ chunks[k].base = objects[n].chunk
                   /\ O!Contents(chunks[k]) <= objects[n].at
                   /\ objects[n].at + Len(objects[n].bytes) <= chunks[k].limit
             /\ O!Found(objects[n].at) <= Len(chunks)
             /\ chunks[O!Found(objects[n].at)].base = objects[n].chunk
  <2>1. PICK k \in 1..Len(chunks) : Lies(objects[n], chunks[k])
    BY DEF ObInv, Placed
  <2>2. O!Found(objects[n].at) = k
    <3>1. objects[n].at \in Nat /\ Len(objects[n].bytes) \in Nat /\ chunks[k].limit \in Nat
      BY <1>1, ObTypes
    <3>2. O!Contents(chunks[k]) <= objects[n].at /\ objects[n].at <= chunks[k].limit
      BY <2>1, <3>1 DEF Lies, End
    <3> QED
      BY <1>1, <3>1, <3>2, FoundIs
  <2> QED
    BY <2>1, <2>2 DEF ObInv, Placed, Lies, End
<1>4. chunks # << >> =>
          /\ O!Holds(object_base, growing) /\ O!ObjectSize = Len(growing)
          /\ O!Contents(O!Chunk) <= object_base /\ next_free <= O!Chunk.limit
  <2> SUFFICES ASSUME chunks # << >>, OnTop
               PROVE  /\ O!Holds(object_base, growing) /\ O!ObjectSize = Len(growing)
                      /\ O!Contents(O!Chunk) <= object_base /\ next_free <= O!Chunk.limit
    BY DEF ObInv
  <2>1. object_base \in Nat /\ Len(growing) \in Nat
    BY <1>1, ObTypes
  <2> QED
    BY <2>1 DEF OnTop, O!ObjectSize, O!Chunk
<1> QED
  BY <1>2, <1>3, <1>4 DEF O!Kept, O!FreeFindsObjects

--------------------------------------------------------------------------------
(* Obstacks: what a step keeps.                                            *)

LEMMA HoldsStays ==
    ASSUME NEW from \in Nat, NEW bytes \in Seq(O!Byte), O!Holds(from, bytes),
           \A a \in from..(from + Len(bytes) - 1) : memory'[a] = memory[a]
    PROVE  O!Holds(from, bytes)'
<1>1. ASSUME NEW k \in DOMAIN bytes
      PROVE  from + k - 1 \in O!Addresses /\ memory'[from + k - 1] = bytes[k]
  <2>1. k \in 1..Len(bytes) /\ Len(bytes) \in Nat
    OBVIOUS
  <2>2. from + k - 1 \in from..(from + Len(bytes) - 1)
    BY <2>1
  <2> QED
    BY <2>2 DEF O!Holds
<1> QED
  BY <1>1 DEF O!Holds, O!Addresses

\* Where an object lies, none lies in another chunk.
LEMMA LiesApart ==
    ASSUME O!TypeOK, NEW n \in 1..Len(objects), NEW c, Sound(c), Lies(objects[n], c)
    PROVE  /\ objects[n].at..(End(objects[n]) - 1) \subseteq c.base..(c.limit - 1)
           /\ \A d : Sound(d) /\ Apart(c, d) =>
                 /\ ~Lies(objects[n], d)
                 /\ \A a \in objects[n].at..(End(objects[n]) - 1) : a \notin d.base..(d.limit - 1)
<1>1. objects[n].at \in Nat /\ End(objects[n]) \in Nat
  BY ObTypes
<1>2. /\ c.base \in Nat /\ c.limit \in Nat /\ O!Contents(c) \in Nat
      /\ c.base < O!Contents(c) /\ O!Contents(c) <= objects[n].at /\ End(objects[n]) <= c.limit
      /\ O!Contents(c) <= c.limit /\ objects[n].chunk = c.base
  BY DEF Sound, Lies
<1>3. objects[n].at..(End(objects[n]) - 1) \subseteq c.base..(c.limit - 1)
  BY <1>1, <1>2
<1>4. ASSUME NEW d, Sound(d), Apart(c, d)
      PROVE  /\ ~Lies(objects[n], d)
             /\ \A a \in objects[n].at..(End(objects[n]) - 1) : a \notin d.base..(d.limit - 1)
  <2>1. /\ d.base \in Nat /\ d.limit \in Nat /\ d.base < d.limit
        /\ c.limit <= d.base \/ d.limit <= c.base
    BY <1>4 DEF Sound, Apart
  <2>2. c.base # d.base
    BY <1>2, <2>1
  <2>3. ~Lies(objects[n], d)
    BY <1>2, <2>2 DEF Lies
  <2>4. \A a \in c.base..(c.limit - 1) : a \notin d.base..(d.limit - 1)
    BY <1>2, <2>1
  <2> QED
    BY <1>3, <2>3, <2>4
<1> QED
  BY <1>3, <1>4

\* The chunks move along the chain, and none takes the place of another.
Moved(s) ==
    \A j \in 1..Len(chunks') :
        \/ j + s \in 1..Len(chunks) /\ chunks'[j] = chunks[j + s]
        \/ Sound(chunks'[j]) /\ \A k \in 1..Len(chunks) : Apart(chunks[k], chunks'[j])

LEMMA ObjectsMoved ==
    ASSUME ObInv, NEW s \in Int, Moved(s), NEW count \in 0..Len(objects),
           \A n \in 1..count :
              /\ objects'[n] = objects[n]
              /\ \E j \in 1..Len(chunks') : Lies(objects[n], chunks'[j])
              /\ \A a \in objects[n].at..(End(objects[n]) - 1) : memory'[a] = memory[a]
    PROVE  /\ \A n \in 1..count : Placed(n)'
           /\ \A m, n \in 1..count : m < n => Stacked(m, n)'
<1>1. O!TypeOK /\ ChunksApart /\ Len(objects) \in Nat /\ Len(chunks) \in Nat
  BY ObTypes DEF ObInv
<1>2. ASSUME NEW n \in 1..count PROVE n \in 1..Len(objects)
  BY <1>1
<1>3. ASSUME NEW n \in 1..count PROVE Placed(n)'
  <2>1. n \in 1..Len(objects)
    BY <1>2
  <2>2. PICK from, bytes : from = objects[n].at /\ bytes = objects[n].bytes
    OBVIOUS
  <2>3. from \in Nat /\ bytes \in Seq(O!Byte)
    BY <1>1, <2>1, <2>2, ObTypes
  <2>4. O!Holds(from, bytes)
    BY <2>1, <2>2 DEF ObInv, Placed
  <2>5. \A a \in from..(from + Len(bytes) - 1) : memory'[a] = memory[a]
    <3>1. from + Len(bytes) = End(objects[n])
      BY <2>2 DEF End
    <3>2. \A a \in from..(End(objects[n]) - 1) : memory'[a] = memory[a]
      BY <2>2
    <3>3. from..(from + Len(bytes) - 1) = from..(End(objects[n]) - 1)
      <4>1. from \in Int /\ Len(bytes) \in Int /\ End(objects[n]) \in Int
        BY <1>1, <2>1, <2>3, ObTypes
      <4> QED
        BY <3>1, <4>1
    <3> QED
      BY <3>2, <3>3, Zenon
  <2>6. O!Holds(from, bytes)'
    BY <2>3, <2>4, <2>5, HoldsStays
  <2>7. objects'[n].at = from /\ objects'[n].bytes = bytes
    BY <2>2
  <2>8. O!Holds(objects[n].at, objects[n].bytes)'
    BY <2>6, <2>7 DEF O!Holds, O!Addresses
  <2>9. \E j \in 1..Len(chunks') : Lies(objects'[n], chunks'[j])
    OBVIOUS
  <2> QED
    BY <2>8, <2>9 DEF Placed, Lies, End, O!Contents, O!Aligned
<1>4. ASSUME NEW n \in 1..count, NEW j \in 1..Len(chunks'), Lies(objects[n], chunks'[j])
      PROVE  j + s \in 1..Len(chunks) /\ Lies(objects[n], chunks[j + s])
  <2>1. n \in 1..Len(objects)
    BY <1>2
  <2>2. PICK k \in 1..Len(chunks) : Lies(objects[n], chunks[k])
    BY <2>1 DEF ObInv, Placed
  <2>3. ASSUME Sound(chunks'[j]), Apart(chunks[k], chunks'[j]) PROVE FALSE
    <3>1. Sound(chunks[k])
      BY <1>1 DEF ChunksApart
    <3> QED
      BY <1>1, <1>4, <2>1, <2>2, <2>3, <3>1, LiesApart
  <2> QED
    BY <1>4, <2>3 DEF Moved
<1>5. ASSUME NEW m \in 1..count, NEW n \in 1..count, m < n PROVE Stacked(m, n)'
  <2>1. m \in 1..Len(objects) /\ n \in 1..Len(objects)
    BY <1>2
  <2>2. Stacked(m, n)
    BY <1>5, <2>1 DEF ObInv
  <2>3. ASSUME NEW k \in 1..Len(chunks'), NEW l \in 1..Len(chunks'),
               Lies(objects[m], chunks'[k]), Lies(objects[n], chunks'[l])
        PROVE  l <= k /\ (l = k => End(objects[m]) <= objects[n].at)
    <3>1. /\ k + s \in 1..Len(chunks) /\ Lies(objects[m], chunks[k + s])
          /\ l + s \in 1..Len(chunks) /\ Lies(objects[n], chunks[l + s])
      BY <1>4, <2>3
    <3>2. l + s <= k + s /\ (l + s = k + s => End(objects[m]) <= objects[n].at)
      BY <2>2, <3>1 DEF Stacked
    <3> QED
      BY <3>2
  <2>4. objects'[m] = objects[m] /\ objects'[n] = objects[n]
    OBVIOUS
  <2> QED
    BY <2>3, <2>4 DEF Stacked, Lies, End, O!Contents, O!Aligned
<1> QED
  BY <1>3, <1>5

\* What the allocator returns.
LEMMA PlaceFor ==
    ASSUME O!TypeOK, ChunksApart, NEW wanted \in Nat, ChunkSize <= wanted,
           NEW c \in O!Places(wanted)
    PROVE  /\ c \in [base : O!Addresses, limit : 1..(Memory + 1)]
           /\ Sound(c) /\ c.limit = c.base + wanted
           /\ O!Contents(c) < c.base + Header + Alignment
           /\ \A k \in 1..Len(chunks) : Apart(chunks[k], c)
<1>1. /\ Memory \in Nat /\ Header \in Nat /\ Header > 0 /\ Alignment \in Nat /\ ChunkSize \in Nat
      /\ Header + Alignment <= ChunkSize /\ Alignment > 0
  BY StoreAssumption DEF O!SizeAssumption
<1>2. PICK b \in O!Addresses : c = [base |-> b, limit |-> b + wanted]
  BY DEF O!Places
<1>3. /\ c.limit <= Memory + 1
      /\ \A k \in DOMAIN chunks : O!In(c) \intersect O!In(chunks[k]) = {}
  BY DEF O!Places
<1>4. b \in Nat /\ b > 0 /\ c.base = b /\ c.limit = b + wanted
  BY <1>1, <1>2 DEF O!Addresses
<1>5. c \in [base : O!Addresses, limit : 1..(Memory + 1)]
  <2>1. b + wanted \in 1..(Memory + 1)
    BY <1>1, <1>3, <1>4
  <2> QED
    BY <1>2, <2>1
<1>6. /\ O!Contents(c) \in Nat /\ b + Header <= O!Contents(c)
      /\ O!Contents(c) < b + Header + Alignment
  <2>1. b + Header \in Nat
    BY <1>1, <1>4
  <2> QED
    BY <1>4, <2>1, AlignedIs DEF O!Contents
<1>7. Sound(c)
  BY <1>1, <1>3, <1>4, <1>6 DEF Sound
<1>8. ASSUME NEW k \in 1..Len(chunks) PROVE Apart(chunks[k], c)
  <2>1. k \in DOMAIN chunks /\ Sound(chunks[k])
    BY DEF O!TypeOK, ChunksApart
  <2>2. PICK d, e : d = chunks[k].base /\ e = chunks[k].limit
    OBVIOUS
  <2>3. d \in Nat /\ e \in Nat /\ d < e
    BY <2>1, <2>2 DEF Sound
  <2>4. \A a : ~(a \in b..(b + wanted - 1) /\ a \in d..(e - 1))
    BY <1>3, <1>4, <2>1, <2>2 DEF O!In
  <2>5. b < b + wanted
    BY <1>1, <1>4
  <2>6. b + wanted \in Nat
    BY <1>4
  <2>7. e <= b \/ b + wanted <= d
    <3>1. ~(b \in d..(e - 1))
      BY <1>4, <2>4, <2>5, <2>6
    <3>2. ~(d \in b..(b + wanted - 1))
      BY <2>3, <2>4
    <3> QED
      BY <1>4, <2>3, <2>6, <3>1, <3>2
  <2> QED
    BY <1>4, <2>2, <2>7 DEF Apart
<1> QED
  BY <1>4, <1>5, <1>6, <1>7, <1>8

LEMMA ObBegins == O!Init => ObInv
<1> SUFFICES ASSUME O!Init PROVE ObInv
  OBVIOUS
<1>1. /\ chunks = << >> /\ objects = << >> /\ growing = << >> /\ object_base = 0 /\ next_free = 0
      /\ maybe_empty_object = FALSE /\ memory = [a \in O!Addresses |-> <<0, 0>>]
  BY DEF O!Init, O!Null, O!Junk
<1>2. O!TypeOK
  <2>1. Memory \in Nat
    BY StoreAssumption DEF O!SizeAssumption
  <2>2. <<0, 0>> \in O!Byte
    BY DEF O!Byte
  <2>3. 0 \in 0..(Memory + 1)
    BY <2>1
  <2>4. memory \in [O!Addresses -> O!Byte]
    BY <1>1, <2>2
  <2>5. /\ chunks \in Seq([base : O!Addresses, limit : 1..(Memory + 1)])
        /\ objects \in Seq([at : 1..(Memory + 1), bytes : Seq(O!Byte), chunk : O!Addresses])
        /\ growing \in Seq(O!Byte)
    BY <1>1
  <2>7. maybe_empty_object \in BOOLEAN
    BY <1>1
  <2>6. object_base \in 0..(Memory + 1) /\ next_free \in 0..(Memory + 1)
    BY <1>1, <2>3
  <2> QED
    BY <2>4, <2>5, <2>6, <2>7 DEF O!TypeOK
<1>3. Len(chunks) = 0 /\ Len(objects) = 0
  BY <1>1
<1> QED
  BY <1>1, <1>2, <1>3 DEF ObInv, ChunksApart

LEMMA BeginKeeps == ASSUME ObInv, O!Begin PROVE ObInv'
<1>1. O!TypeOK /\ ChunksApart
  BY DEF ObInv
<1>2. PICK c \in O!Places(ChunkSize) :
          chunks' = <<c>> /\ object_base' = O!Contents(c) /\ next_free' = O!Contents(c)
  BY DEF O!Begin
<1>3. /\ maybe_empty_object' = FALSE /\ memory' = memory
      /\ objects' = << >> /\ growing' = << >>
  BY DEF O!Begin, ObInv
<1>4. /\ c \in [base : O!Addresses, limit : 1..(Memory + 1)]
      /\ Sound(c) /\ Memory \in Nat
  <2>1. ChunkSize \in Nat /\ ChunkSize <= ChunkSize /\ Memory \in Nat
    BY StoreAssumption DEF O!SizeAssumption
  <2> QED
    BY <1>1, <2>1, PlaceFor
<1>5. O!Contents(c) \in 0..(Memory + 1)
  BY <1>4 DEF Sound
<1>6. O!TypeOK'
  <2>1. chunks' \in Seq([base : O!Addresses, limit : 1..(Memory + 1)])
    BY <1>2, <1>4
  <2>2. /\ objects' \in Seq([at : 1..(Memory + 1), bytes : Seq(O!Byte), chunk : O!Addresses])
        /\ growing' \in Seq(O!Byte)
    BY <1>3
  <2>4. maybe_empty_object' \in BOOLEAN
    BY <1>3
  <2>3. memory' \in [O!Addresses -> O!Byte]
    BY <1>1, <1>3 DEF O!TypeOK
  <2> QED
    BY <1>2, <1>5, <2>1, <2>2, <2>3, <2>4 DEF O!TypeOK, O!Addresses
<1>7. /\ Len(chunks') = 1 /\ chunks'[1] = c /\ chunks' # << >>
      /\ Len(objects') = 0 /\ Len(growing') = 0
  BY <1>2, <1>3
<1>8. ChunksApart'
  BY <1>4, <1>7 DEF ChunksApart, Sound, O!Contents, O!Aligned
<1>9. OnTop'
  <2>1. O!Holds(object_base, growing)'
    BY <1>3 DEF O!Holds
  <2>2. next_free' = object_base' + Len(growing')
    BY <1>2, <1>5, <1>7
  <2>3. O!Contents(chunks[1])' = O!Contents(c)
    BY <1>7 DEF O!Contents, O!Aligned
  <2>4. O!Contents(c) <= O!Contents(c) /\ O!Contents(c) <= c.limit
    BY <1>4 DEF Sound
  <2> QED
    BY <1>2, <1>7, <2>1, <2>2, <2>3, <2>4 DEF OnTop
<1> QED
  BY <1>6, <1>7, <1>8, <1>9 DEF ObInv

LEMMA FreeAllKeeps == ASSUME ObInv, O!FreeAll PROVE ObInv'
<1>1. O!TypeOK
  BY DEF ObInv
<1>2. chunks' = << >>
  <2>1. chunks' = SubSeq(chunks, Len(chunks) + 1, Len(chunks))
    BY DEF O!FreeAll, O!FreeChunks
  <2> QED
    BY <1>1, <2>1 DEF O!TypeOK
<1>3. /\ objects' = << >> /\ growing' = << >> /\ maybe_empty_object' = TRUE
      /\ object_base' = object_base /\ next_free' = next_free
  BY DEF O!FreeAll
<1>4. memory' \in [O!Addresses -> O!Byte]
  <2>1. O!Junk \in O!Byte
    BY DEF O!Junk, O!Byte
  <2> QED
    BY <1>1, <2>1 DEF O!FreeAll, O!FreeChunks, O!TypeOK
<1>5. O!TypeOK'
  BY <1>1, <1>2, <1>3, <1>4 DEF O!TypeOK, O!Addresses
<1>6. Len(chunks') = 0 /\ Len(objects') = 0
  BY <1>2, <1>3
<1> QED
  BY <1>2, <1>3, <1>5, <1>6 DEF ObInv, ChunksApart

\* Where the chunks stay, what lies in them is the same.
LEMMA ChunksStay ==
    ASSUME ChunksApart, chunks' = chunks, Len(chunks) \in Nat
    PROVE  /\ Moved(0) /\ ChunksApart'
           /\ \A n \in 1..Len(objects) : Placed(n) =>
                 \E j \in 1..Len(chunks') : Lies(objects[n], chunks'[j])
<1>1. Moved(0)
  BY DEF Moved
<1>2. ChunksApart'
  BY DEF ChunksApart, Sound, Apart, O!Contents, O!Aligned
<1>3. ASSUME NEW n \in 1..Len(objects), Placed(n)
      PROVE  \E j \in 1..Len(chunks') : Lies(objects[n], chunks'[j])
  BY <1>3 DEF Placed
<1> QED
  BY <1>1, <1>2, <1>3

LEMMA FinishKeeps == ASSUME ObInv, O!Finish PROVE ObInv'
<1>1. O!TypeOK /\ ChunksApart /\ chunks # << >>
  BY DEF ObInv, O!Finish
<1>2. /\ Len(chunks) \in Nat /\ Len(objects) \in Nat /\ Len(growing) \in Nat
      /\ object_base \in Nat /\ next_free \in Nat /\ Memory \in Nat
      /\ 1 \in 1..Len(chunks)
  BY <1>1, ObTypes
<1>3. OnTop
  BY <1>1 DEF ObInv
<1>4. PICK new : new = [at |-> object_base, bytes |-> growing, chunk |-> chunks[1].base]
  OBVIOUS
<1>5. /\ maybe_empty_object' = (maybe_empty_object \/ next_free = object_base)
      /\ next_free' = O!Min({O!Aligned(next_free), chunks[1].limit}) /\ object_base' = next_free'
      /\ objects' = Append(objects, new) /\ growing' = << >>
      /\ chunks' = chunks /\ memory' = memory
  BY <1>4 DEF O!Finish, O!Chunk
<1>6. Sound(chunks[1])
  BY <1>1, <1>2 DEF ChunksApart
<1>7. next_free' \in Nat /\ next_free <= next_free' /\ next_free' <= chunks[1].limit
  <2>1. PICK x, y : x = O!Aligned(next_free) /\ y = chunks[1].limit
    OBVIOUS
  <2>2. x \in Nat /\ y \in Nat /\ next_free <= x /\ next_free <= y
    BY <1>2, <1>3, <1>6, <2>1, AlignedIs DEF OnTop, Sound
  <2>3. O!Min({x, y}) \in {x, y} /\ O!Min({x, y}) <= y
    <3>1. CASE x <= y
      <4>1. O!Min({x, y}) = x
        BY <2>2, <3>1, MinIs
      <4> QED
        BY <3>1, <4>1
    <3>2. CASE ~(x <= y)
      <4>1. y <= x /\ y <= y
        BY <2>2, <3>2
      <4>2. O!Min({x, y}) = y
        BY <2>2, <4>1, MinIs
      <4> QED
        BY <4>1, <4>2
    <3> QED
      BY <3>1, <3>2
  <2> QED
    BY <1>5, <2>1, <2>2, <2>3
<1>8. new \in [at : 1..(Memory + 1), bytes : Seq(O!Byte), chunk : O!Addresses]
  <2>1. object_base \in 1..(Memory + 1)
    BY <1>1, <1>2, <1>3, <1>6 DEF OnTop, Sound
  <2>2. chunks[1].base \in O!Addresses
    BY <1>1, <1>2, ObTypes
  <2> QED
    BY <1>1, <1>4, <2>1, <2>2 DEF O!TypeOK
<1>9. O!TypeOK'
  <2>1. objects' \in Seq([at : 1..(Memory + 1), bytes : Seq(O!Byte), chunk : O!Addresses])
    <3> DEFINE R == [at : 1..(Memory + 1), bytes : Seq(O!Byte), chunk : O!Addresses]
    <3>1. objects \in Seq(R) /\ new \in R
      BY <1>1, <1>8 DEF O!TypeOK
    <3>2. objects' \in Seq(R)
      <4> HIDE DEF R
      <4> QED
        BY <1>5, <3>1
    <3> QED
      BY <3>2
  <2>2. growing' \in Seq(O!Byte)
    BY <1>5
  <2>3. maybe_empty_object' \in BOOLEAN
    BY <1>1, <1>5 DEF O!TypeOK
  <2>4. next_free' \in 0..(Memory + 1)
    BY <1>2, <1>6, <1>7 DEF Sound
  <2> QED
    BY <1>1, <1>5, <2>1, <2>2, <2>3, <2>4 DEF O!TypeOK, O!Addresses
<1>10. /\ Len(objects') = Len(objects) + 1 /\ objects'[Len(objects) + 1] = new
       /\ \A n \in 1..Len(objects) : objects'[n] = objects[n]
  <2>1. objects \in Seq([at : 1..(Memory + 1), bytes : Seq(O!Byte), chunk : O!Addresses])
    BY <1>1 DEF O!TypeOK
  <2> DEFINE R == [at : 1..(Memory + 1), bytes : Seq(O!Byte), chunk : O!Addresses]
  <2>2. objects \in Seq(R) /\ new \in R
    BY <1>8, <2>1
  <2> HIDE DEF R
  <2> QED
    BY <1>5, <2>2
<1>11. Moved(0) /\ ChunksApart'
  BY <1>1, <1>2, <1>5, ChunksStay
<1>12. /\ \A n \in 1..Len(objects) : Placed(n)'
       /\ \A m, n \in 1..Len(objects) : m < n => Stacked(m, n)'
  <2>1. \A n \in 1..Len(objects) :
            /\ objects'[n] = objects[n]
            /\ \E j \in 1..Len(chunks') : Lies(objects[n], chunks'[j])
            /\ \A a \in objects[n].at..(End(objects[n]) - 1) : memory'[a] = memory[a]
    BY <1>1, <1>2, <1>5, <1>10, ChunksStay DEF ObInv
  <2>2. Len(objects) \in 0..Len(objects) /\ 0 \in Int
    BY <1>2
  <2> QED
    BY <1>11, <2>1, <2>2, ObjectsMoved
<1>13. Lies(new, chunks[1]) /\ End(new) = next_free
  BY <1>3, <1>4 DEF Lies, End, OnTop
<1>14. PICK last : last = Len(objects) + 1
  OBVIOUS
<1>15. Placed(last)'
  <2>1. O!Holds(object_base, growing)
    BY <1>3 DEF OnTop
  <2>2. new.at = object_base /\ new.bytes = growing
    BY <1>4
  <2>3. O!Holds(new.at, new.bytes)
    BY <2>1, <2>2
  <2>4. objects'[last] = new
    BY <1>10, <1>14
  <2>5. O!Holds(objects[last].at, objects[last].bytes)'
    BY <1>5, <2>3, <2>4 DEF O!Holds, O!Addresses
  <2>6. \E k \in 1..Len(chunks') : Lies(new, chunks'[k])
    BY <1>2, <1>5, <1>13
  <2> QED
    BY <2>4, <2>5, <2>6 DEF Placed, Lies, End, O!Contents, O!Aligned
<1>16. ASSUME NEW m \in 1..Len(objects) PROVE Stacked(m, last)'
  <2>1. objects'[last] = new /\ objects'[m] = objects[m]
    BY <1>10, <1>14
  <2>2. ASSUME NEW k \in 1..Len(chunks), NEW l \in 1..Len(chunks),
               Lies(objects[m], chunks[k]), Lies(new, chunks[l])
        PROVE  l <= k /\ (l = k => End(objects[m]) <= new.at)
    <3>1. chunks[l].base = chunks[1].base
      BY <1>13, <2>2 DEF Lies
    <3>2. l = 1
      BY <1>1, <1>2, <3>1, OneChunk
    <3>3. k = 1 => End(objects[m]) <= object_base
      BY <1>3, <2>2 DEF OnTop
    <3> QED
      BY <1>2, <1>4, <3>2, <3>3
  <2> QED
    BY <1>5, <2>1, <2>2 DEF Stacked, Lies, End, O!Contents, O!Aligned
<1>17. OnTop'
  <2>1. O!Holds(object_base, growing)'
    BY <1>5 DEF O!Holds
  <2>2. Len(growing') = 0 /\ next_free' = object_base' + Len(growing')
    BY <1>5, <1>7
  <2>3. O!Contents(chunks[1])' = O!Contents(chunks[1])
    BY <1>5 DEF O!Contents, O!Aligned
  <2>4. object_base <= next_free
    BY <1>2, <1>3 DEF OnTop
  <2>5. O!Contents(chunks[1]) <= object_base'
    BY <1>2, <1>3, <1>5, <1>6, <1>7, <2>4 DEF OnTop, Sound
  <2>6. ASSUME NEW n \in 1..Len(objects'), Lies(objects'[n], chunks[1])
        PROVE  /\ End(objects'[n]) <= object_base'
               /\ ~maybe_empty_object' => Len(objects'[n].bytes) > 0
    <3>1. CASE n = last
      <4>1. objects'[n] = new
        BY <1>10, <1>14, <3>1
      <4>2. End(new) <= object_base'
        BY <1>5, <1>7, <1>13
      <4>3. ~maybe_empty_object' => next_free # object_base
        BY <1>5
      <4>4. next_free # object_base => Len(growing) > 0
        BY <1>2, <1>3 DEF OnTop
      <4> QED
        BY <1>4, <4>1, <4>2, <4>3, <4>4
    <3>2. CASE n # last
      <4>1. n \in 1..Len(objects) /\ objects'[n] = objects[n]
        BY <1>2, <1>10, <1>14, <3>2
      <4>2. /\ End(objects[n]) <= object_base /\ End(objects[n]) \in Nat
            /\ ~maybe_empty_object => Len(objects[n].bytes) > 0
        BY <1>1, <1>3, <2>6, <4>1, ObTypes DEF OnTop
      <4>3. End(objects[n]) <= object_base'
        BY <1>2, <1>5, <1>7, <2>4, <4>2
      <4> QED
        BY <1>5, <4>1, <4>2, <4>3
    <3> QED
      BY <3>1, <3>2
  <2> QED
    BY <1>5, <1>7, <2>1, <2>2, <2>3, <2>5, <2>6 DEF OnTop, Lies, End, O!Contents, O!Aligned
<1>18. \A n \in 1..Len(objects') : Placed(n)'
  BY <1>2, <1>10, <1>12, <1>14, <1>15
<1>19. \A m, n \in 1..Len(objects') : m < n => Stacked(m, n)'
  <2>1. ASSUME NEW m \in 1..Len(objects'), NEW n \in 1..Len(objects'), m < n PROVE Stacked(m, n)'
    <3>1. m \in 1..Len(objects) /\ (n \in 1..Len(objects) \/ n = last)
      BY <1>2, <1>10, <1>14, <2>1
    <3> QED
      BY <1>12, <1>16, <2>1, <3>1
  <2> QED
    BY <2>1
<1> QED
  BY <1>1, <1>5, <1>9, <1>11, <1>17, <1>18, <1>19 DEF ObInv

\* memory with bytes from base on, as Copied makes it.
Rewritten(base, bytes, freed) ==
    [a \in O!Addresses |->
        IF a \in base..(base + Len(bytes) - 1) THEN bytes[a - base + 1]
        ELSE IF a \in freed THEN O!Junk ELSE memory[a]]

\* The object on top is copied whole, with what is added to it.
LEMMA CopiedIs ==
    ASSUME O!TypeOK, OnTop, NEW base, NEW bytes \in Seq(O!Byte), NEW freed
    PROVE  O!Copied(base, bytes, freed) = Rewritten(base, growing \o bytes, freed)
<1>1. Len(growing) \in Nat /\ object_base \in Nat /\ growing \in Seq(O!Byte)
  BY ObTypes DEF O!TypeOK
<1>2. O!ObjectSize = Len(growing)
  BY <1>1 DEF OnTop, O!ObjectSize
<1>3. [k \in 1..Len(growing) |-> memory[object_base + k - 1]] = growing
  <2>1. \A k \in 1..Len(growing) : memory[object_base + k - 1] = growing[k]
    BY <1>1 DEF OnTop, O!Holds
  <2>2. growing = [k \in 1..Len(growing) |-> growing[k]]
    BY <1>1
  <2> QED
    BY <2>1, <2>2
<1>4. [k \in 1..O!ObjectSize |-> memory[object_base + k - 1]] \o bytes = growing \o bytes
  BY <1>2, <1>3
<1> QED
  BY <1>4 DEF O!Copied, Rewritten

LEMMA RewrittenIs ==
    ASSUME O!TypeOK, NEW base \in Nat, base > 0, NEW bytes \in Seq(O!Byte),
           base + Len(bytes) <= Memory + 1, NEW freed, memory' = Rewritten(base, bytes, freed)
    PROVE  /\ memory' \in [O!Addresses -> O!Byte]
           /\ O!Holds(base, bytes)'
           /\ \A a \in O!Addresses \ freed : a \notin base..(base + Len(bytes) - 1) =>
                 memory'[a] = memory[a]
<1>1. Memory \in Nat /\ Len(bytes) \in Nat
  BY ObTypes
<1>2. \A k \in 1..Len(bytes) : bytes[k] \in O!Byte
  OBVIOUS
<1>3. memory \in [O!Addresses -> O!Byte] /\ O!Junk \in O!Byte
  BY DEF O!TypeOK, O!Junk, O!Byte
<1>4. \A a \in base..(base + Len(bytes) - 1) : a - base + 1 \in 1..Len(bytes)
  BY <1>1
<1>5. memory' \in [O!Addresses -> O!Byte]
  <2>1. ASSUME NEW a \in O!Addresses
        PROVE  (IF a \in base..(base + Len(bytes) - 1) THEN bytes[a - base + 1]
                ELSE IF a \in freed THEN O!Junk ELSE memory[a]) \in O!Byte
    <3>1. CASE a \in base..(base + Len(bytes) - 1)
      BY <1>2, <1>4, <3>1
    <3>2. CASE a \notin base..(base + Len(bytes) - 1)
      BY <1>3, <3>2
    <3> QED
      BY <3>1, <3>2
  <2> QED
    BY <2>1 DEF Rewritten
<1>6. ASSUME NEW k \in 1..Len(bytes)
      PROVE  base + k - 1 \in O!Addresses /\ memory'[base + k - 1] = bytes[k]
  <2>1. /\ base + k - 1 \in O!Addresses /\ base + k - 1 \in base..(base + Len(bytes) - 1)
        /\ (base + k - 1) - base + 1 = k
    BY <1>1 DEF O!Addresses
  <2> QED
    BY <2>1 DEF Rewritten
<1>7. O!Holds(base, bytes)'
  BY <1>6 DEF O!Holds, O!Addresses
<1>8. \A a \in O!Addresses \ freed : a \notin base..(base + Len(bytes) - 1) =>
          memory'[a] = memory[a]
  BY DEF Rewritten
<1> QED
  BY <1>5, <1>7, <1>8

\* The bytes an object occupies are addresses.
LEMMA LiesInMemory ==
    ASSUME O!TypeOK, NEW n \in 1..Len(objects), NEW c, Sound(c), Lies(objects[n], c)
    PROVE  objects[n].at..(End(objects[n]) - 1) \subseteq O!Addresses
<1>1. objects[n].at..(End(objects[n]) - 1) \subseteq c.base..(c.limit - 1)
  BY LiesApart
<1>2. Memory \in Nat
  BY ObTypes
<1>3. c.base..(c.limit - 1) \subseteq 1..Memory
  BY <1>2 DEF Sound
<1> QED
  BY <1>1, <1>3 DEF O!Addresses

\* What obstack_grow adds.
Added(length) == [k \in 1..length |-> <<Len(objects) + 1, Len(growing) + k>>]

LEMMA AddedIs ==
    ASSUME O!TypeOK, NEW length \in Nat
    PROVE  /\ Added(length) \in Seq(O!Byte) /\ Len(Added(length)) = length
           /\ growing \o Added(length) \in Seq(O!Byte)
           /\ Len(growing \o Added(length)) = Len(growing) + length
<1>1. Len(objects) \in Nat /\ Len(growing) \in Nat /\ growing \in Seq(O!Byte)
  BY ObTypes DEF O!TypeOK
<1>2. \A k \in 1..length : <<Len(objects) + 1, Len(growing) + k>> \in O!Byte
  BY <1>1 DEF O!Byte
<1>3. Added(length) \in Seq(O!Byte) /\ Len(Added(length)) = length
  BY <1>2 DEF Added
<1> QED
  BY <1>1, <1>3

LEMMA InPlaceKeeps ==
    ASSUME ObInv, chunks # << >>, NEW length \in Nat, next_free + length <= chunks[1].limit,
           memory' = O!Copied(object_base, Added(length), {}), next_free' = next_free + length,
           growing' = growing \o Added(length),
           chunks' = chunks, object_base' = object_base, objects' = objects,
           maybe_empty_object' = maybe_empty_object
    PROVE  ObInv'
<1>1. O!TypeOK /\ ChunksApart /\ OnTop
  BY DEF ObInv
<1>2. /\ Len(chunks) \in Nat /\ Len(objects) \in Nat /\ Len(growing) \in Nat
      /\ object_base \in Nat /\ next_free \in Nat /\ Memory \in Nat
      /\ 1 \in 1..Len(chunks)
  BY <1>1, ObTypes
<1>3. PICK bytes : bytes = growing \o Added(length)
  OBVIOUS
<1>4. bytes \in Seq(O!Byte) /\ Len(bytes) = Len(growing) + length /\ growing' = bytes
  BY <1>1, <1>3, AddedIs
<1>5. Sound(chunks[1])
  BY <1>1, <1>2 DEF ChunksApart
<1>6. /\ object_base > 0 /\ next_free' = object_base + Len(bytes)
      /\ next_free' <= chunks[1].limit /\ next_free' <= Memory + 1
      /\ chunks[1].base < object_base /\ chunks[1].limit \in Nat /\ chunks[1].base \in Nat
  <2>1. /\ chunks[1].base \in Nat /\ chunks[1].limit \in Nat /\ O!Contents(chunks[1]) \in Nat
        /\ chunks[1].base < O!Contents(chunks[1]) /\ chunks[1].limit <= Memory + 1
    BY <1>5 DEF Sound
  <2>2. O!Contents(chunks[1]) <= object_base /\ next_free = object_base + Len(growing)
    BY <1>1 DEF OnTop
  <2>3. object_base > 0 /\ chunks[1].base < object_base
    BY <1>2, <2>1, <2>2
  <2>4. next_free' = object_base + Len(bytes) /\ next_free' = next_free + length
    BY <1>2, <1>4, <2>2
  <2>5. next_free' <= chunks[1].limit /\ next_free' <= Memory + 1
    BY <1>2, <2>1, <2>4
  <2> QED
    BY <2>1, <2>3, <2>4, <2>5
<1>7. memory' = Rewritten(object_base, bytes, {})
  BY <1>1, <1>3, AddedIs, CopiedIs
<1>8. /\ memory' \in [O!Addresses -> O!Byte] /\ O!Holds(object_base, bytes)'
      /\ \A a \in O!Addresses : a \notin object_base..(object_base + Len(bytes) - 1) =>
            memory'[a] = memory[a]
  <2>1. object_base + Len(bytes) <= Memory + 1
    BY <1>6
  <2>2. \A a \in O!Addresses \ {} : a \notin object_base..(object_base + Len(bytes) - 1) =>
            memory'[a] = memory[a]
    BY <1>1, <1>2, <1>4, <1>6, <1>7, <2>1, RewrittenIs
  <2>3. memory' \in [O!Addresses -> O!Byte] /\ O!Holds(object_base, bytes)'
    <3>1. PICK base : base = object_base
      OBVIOUS
    <3>2. memory' \in [O!Addresses -> O!Byte] /\ O!Holds(base, bytes)'
      BY <1>1, <1>2, <1>4, <1>6, <1>7, <2>1, <3>1, RewrittenIs
    <3> QED
      BY <3>1, <3>2 DEF O!Holds, O!Addresses
  <2> QED
    BY <2>2, <2>3
<1>9. O!TypeOK'
  <2>1. next_free' \in 0..(Memory + 1)
    BY <1>2, <1>6
  <2> QED
    BY <1>1, <1>4, <1>8, <2>1 DEF O!TypeOK, O!Addresses
<1>10. Moved(0) /\ ChunksApart'
  BY <1>1, <1>2, ChunksStay
<1>11. ASSUME NEW n \in 1..Len(objects), NEW a \in objects[n].at..(End(objects[n]) - 1)
       PROVE  memory'[a] = memory[a]
  <2>1. PICK k \in 1..Len(chunks) : Lies(objects[n], chunks[k])
    BY DEF ObInv, Placed
  <2>2. Sound(chunks[k]) /\ a \in O!Addresses
    <3>1. Sound(chunks[k])
      BY <1>1 DEF ChunksApart
    <3> QED
      BY <1>1, <2>1, <3>1, LiesInMemory
  <2>3. a \notin object_base..(object_base + Len(bytes) - 1)
    <3>1. CASE k = 1
      <4>1. End(objects[n]) <= object_base /\ End(objects[n]) \in Nat /\ objects[n].at \in Nat
        BY <1>1, <2>1, <3>1, ObTypes DEF OnTop
      <4> QED
        BY <1>2, <4>1
    <3>2. CASE k # 1
      <4>1. Apart(chunks[k], chunks[1])
        BY <1>1, <1>2, <3>2 DEF ChunksApart
      <4>2. a \notin chunks[1].base..(chunks[1].limit - 1)
        BY <1>1, <1>5, <2>1, <2>2, <4>1, LiesApart
      <4>3. \A x \in object_base..(object_base + Len(bytes) - 1) :
                x \in chunks[1].base..(chunks[1].limit - 1)
        <5>1. object_base + Len(bytes) <= chunks[1].limit /\ Len(bytes) \in Nat
          BY <1>4, <1>6
        <5>2. PICK b, l, len : b = chunks[1].base /\ l = chunks[1].limit /\ len = Len(bytes)
          OBVIOUS
        <5>3. b \in Nat /\ l \in Nat /\ len \in Nat /\ b < object_base /\ object_base + len <= l
          BY <1>6, <5>1, <5>2
        <5>4. \A x \in object_base..(object_base + len - 1) : x \in b..(l - 1)
          BY <1>2, <5>3
        <5> QED
          BY <5>2, <5>4
      <4> QED
        BY <4>2, <4>3
    <3> QED
      BY <3>1, <3>2
  <2> QED
    BY <1>8, <2>2, <2>3
<1>12. /\ \A n \in 1..Len(objects) : Placed(n)'
       /\ \A m, n \in 1..Len(objects) : m < n => Stacked(m, n)'
  <2>1. \A n \in 1..Len(objects) :
            /\ objects'[n] = objects[n]
            /\ \E j \in 1..Len(chunks') : Lies(objects[n], chunks'[j])
            /\ \A a \in objects[n].at..(End(objects[n]) - 1) : memory'[a] = memory[a]
    BY <1>1, <1>2, <1>11, ChunksStay DEF ObInv
  <2>2. Len(objects) \in 0..Len(objects) /\ 0 \in Int
    BY <1>2
  <2> QED
    BY <1>10, <2>1, <2>2, ObjectsMoved
<1>13. OnTop'
  <2>1. O!Holds(object_base, growing)'
    BY <1>4, <1>8 DEF O!Holds, O!Addresses
  <2>2. O!Contents(chunks[1])' = O!Contents(chunks[1])
    BY DEF O!Contents, O!Aligned
  <2> QED
    BY <1>1, <1>4, <1>6, <2>1, <2>2 DEF OnTop, Lies, End, O!Contents, O!Aligned
<1> QED
  BY <1>9, <1>10, <1>12, <1>13 DEF ObInv

LEMMA MaxIs ==
    ASSUME NEW x \in Nat, NEW y \in Nat
    PROVE  O!Max({x, y}) \in Nat /\ x <= O!Max({x, y}) /\ y <= O!Max({x, y})
<1>1. \E m \in {x, y} : \A z \in {x, y} : m >= z
  OBVIOUS
<1>2. O!Max({x, y}) \in {x, y} /\ \A z \in {x, y} : O!Max({x, y}) >= z
  BY <1>1 DEF O!Max
<1> QED
  BY <1>2

\* The new chunk has room for the object and the piece.
LEMMA NewSizeIs ==
    ASSUME O!TypeOK, OnTop, NEW length \in Nat
    PROVE  /\ O!NewSize(length) \in Nat /\ ChunkSize <= O!NewSize(length)
           /\ Len(growing) + length + Alignment + Header <= O!NewSize(length) + 1
<1>1. Len(growing) \in Nat /\ object_base \in Nat
  BY ObTypes
<1>2. O!ObjectSize = Len(growing)
  BY <1>1 DEF OnTop, O!ObjectSize
<1>3. PICK n, m : n = Len(growing) /\ m = n \div 8
  OBVIOUS
<1>4. n \in Nat /\ m \in Nat
  BY <1>1, <1>3
<1>5. /\ ChunkSize \in Nat /\ Alignment \in Nat /\ Alignment > 0 /\ Slack \in Nat /\ Header \in Nat
      /\ Header <= Slack
  BY StoreAssumption DEF O!SizeAssumption
<1>6. PICK wanted : wanted = n + length + m + (Alignment - 1) + Slack
  OBVIOUS
<1>7. wanted \in Nat /\ n + length + Alignment + Header <= wanted + 1
  BY <1>4, <1>5, <1>6
<1>8. O!NewSize(length) = O!Max({ChunkSize, wanted})
  BY <1>2, <1>3, <1>6 DEF O!NewSize
<1>9. PICK size_ : size_ = O!Max({ChunkSize, wanted})
  OBVIOUS
<1>10. size_ \in Nat /\ ChunkSize <= size_ /\ wanted <= size_
  BY <1>5, <1>7, <1>9, MaxIs
<1>11. n + length + Alignment + Header <= size_ + 1
  BY <1>4, <1>5, <1>7, <1>10
<1> QED
  BY <1>3, <1>8, <1>9, <1>10, <1>11

\* A chunk that is given up has no object in it.
LEMMA EmptiedIsEmpty ==
    ASSUME ObInv, chunks # << >>, O!Emptied, NEW n \in 1..Len(objects)
    PROVE  ~Lies(objects[n], chunks[1])
<1>1. O!TypeOK /\ ChunksApart /\ OnTop
  BY DEF ObInv
<1>2. /\ objects[n].at \in Nat /\ Len(objects[n].bytes) \in Nat /\ 1 \in 1..Len(chunks)
      /\ object_base \in Nat
  BY <1>1, ObTypes
<1>3. object_base = O!Contents(chunks[1]) /\ ~maybe_empty_object
  BY DEF O!Emptied, O!Chunk
<1>4. ASSUME Lies(objects[n], chunks[1]) PROVE FALSE
  <2>1. End(objects[n]) <= object_base /\ Len(objects[n].bytes) > 0
    BY <1>1, <1>3, <1>4 DEF OnTop
  <2>2. object_base <= objects[n].at
    BY <1>3, <1>4 DEF Lies
  <2> QED
    BY <1>2, <2>1, <2>2 DEF End
<1> QED
  BY <1>4

LEMMA NewChunkKeeps ==
    ASSUME ObInv, chunks # << >>, NEW length \in Nat, O!NewChunk(Added(length)),
           growing' = growing \o Added(length), objects' = objects
    PROVE  ObInv'
<1>1. O!TypeOK /\ ChunksApart /\ OnTop
  BY DEF ObInv
<1>2. /\ Len(chunks) \in Nat /\ Len(objects) \in Nat /\ Len(growing) \in Nat
      /\ object_base \in Nat /\ next_free \in Nat /\ Memory \in Nat
      /\ 1 \in 1..Len(chunks)
  BY <1>1, ObTypes
<1>3. Len(Added(length)) = length /\ Added(length) \in Seq(O!Byte)
  BY <1>1, AddedIs
<1>4. PICK c \in O!Places(O!NewSize(length)) :
          /\ chunks' = <<c>> \o (IF O!Emptied THEN Tail(chunks) ELSE chunks)
          /\ memory' = O!Copied(O!Contents(c), Added(length),
                                IF O!Emptied THEN O!In(chunks[1]) ELSE {})
          /\ object_base' = O!Contents(c)
          /\ next_free' = O!Contents(c) + O!ObjectSize + length
          /\ maybe_empty_object' = FALSE
  BY <1>3 DEF O!NewChunk, O!Chunk
<1>5. /\ O!NewSize(length) \in Nat /\ ChunkSize <= O!NewSize(length)
      /\ Len(growing) + length + Alignment + Header <= O!NewSize(length) + 1
  BY <1>1, NewSizeIs
<1>6. /\ c \in [base : O!Addresses, limit : 1..(Memory + 1)]
      /\ Sound(c) /\ c.limit = c.base + O!NewSize(length)
      /\ O!Contents(c) < c.base + Header + Alignment
      /\ \A k \in 1..Len(chunks) : Apart(chunks[k], c)
  BY <1>1, <1>5, PlaceFor
<1>7. PICK bytes, freed : /\ bytes = growing \o Added(length)
                          /\ freed = IF O!Emptied THEN O!In(chunks[1]) ELSE {}
  OBVIOUS
<1>8. /\ bytes \in Seq(O!Byte) /\ Len(bytes) = Len(growing) + length /\ growing' = bytes
      /\ Len(bytes) \in Nat
  BY <1>1, <1>2, <1>7, AddedIs
<1>9. PICK base : base = O!Contents(c)
  OBVIOUS
<1>10. /\ base \in Nat /\ c.base < base /\ base > 0 /\ base + Len(bytes) <= c.limit
       /\ c.limit <= Memory + 1 /\ c.limit \in Nat /\ c.base \in Nat
  <2>1. Header \in Nat /\ Alignment \in Nat
    BY StoreAssumption DEF O!SizeAssumption
  <2>2. /\ base \in Nat /\ c.base < base /\ base > 0 /\ c.limit <= Memory + 1
        /\ c.limit \in Nat /\ c.base \in Nat
    BY <1>6, <1>9 DEF Sound
  <2>3. PICK n, l, w : n = Len(growing) /\ l = c.limit /\ w = O!NewSize(length)
    OBVIOUS
  <2>4. /\ n \in Nat /\ w \in Nat /\ l = c.base + w /\ base < c.base + Header + Alignment
        /\ n + length + Alignment + Header <= w + 1 /\ Len(bytes) = n + length
    BY <1>2, <1>5, <1>6, <1>8, <1>9, <2>3
  <2>5. base + Len(bytes) <= l
    BY <2>1, <2>2, <2>4
  <2> QED
    BY <2>2, <2>3, <2>5
<1>11. memory' = Rewritten(base, bytes, freed)
  BY <1>1, <1>3, <1>4, <1>7, <1>9, CopiedIs
<1>12. /\ memory' \in [O!Addresses -> O!Byte] /\ O!Holds(base, bytes)'
       /\ \A a \in O!Addresses \ freed : a \notin base..(base + Len(bytes) - 1) =>
             memory'[a] = memory[a]
  <2>1. base + Len(bytes) <= Memory + 1
    BY <1>2, <1>8, <1>10
  <2> QED
    BY <1>1, <1>8, <1>10, <1>11, <2>1, RewrittenIs
<1>13. object_base' = base /\ next_free' = base + Len(bytes)
  <2>1. O!ObjectSize = Len(growing)
    BY <1>1, <1>2 DEF OnTop, O!ObjectSize
  <2> QED
    BY <1>2, <1>4, <1>8, <1>9, <1>10, <2>1
<1>14. PICK s : s = IF O!Emptied THEN 0 ELSE -1
  OBVIOUS
<1>15. /\ chunks' \in Seq([base : O!Addresses, limit : 1..(Memory + 1)])
       /\ Len(chunks') = Len(chunks) - s /\ chunks'[1] = c /\ chunks' # << >>
       /\ \A j \in 2..Len(chunks') : j + s \in 1..Len(chunks) /\ chunks'[j] = chunks[j + s]
  <2> DEFINE R == [base : O!Addresses, limit : 1..(Memory + 1)]
  <2>1. chunks \in Seq(R) /\ c \in R
    BY <1>1, <1>6 DEF O!TypeOK
  <2> HIDE DEF R
  <2>2. CASE O!Emptied
    <3>1. chunks' = <<c>> \o Tail(chunks) /\ s = 0
      BY <1>4, <1>14, <2>2
    <3>2. /\ Tail(chunks) \in Seq(R) /\ Len(Tail(chunks)) = Len(chunks) - 1
          /\ \A i \in 1..(Len(chunks) - 1) : Tail(chunks)[i] = chunks[i + 1]
      BY <2>1
    <3>3. /\ chunks' \in Seq(R) /\ Len(chunks') = Len(chunks) /\ chunks'[1] = c
          /\ \A j \in 2..Len(chunks) : chunks'[j] = Tail(chunks)[j - 1]
      BY <1>2, <2>1, <3>1, <3>2
    <3>4. \A j \in 2..Len(chunks) : chunks'[j] = chunks[j] /\ j \in 1..Len(chunks)
      BY <1>2, <3>2, <3>3
    <3>5. chunks' # << >>
      BY <1>2, <3>3
    <3> QED
      BY <1>2, <3>1, <3>3, <3>4, <3>5 DEF R
  <2>3. CASE ~O!Emptied
    <3>1. chunks' = <<c>> \o chunks /\ s = -1
      BY <1>4, <1>14, <2>3
    <3>2. /\ chunks' \in Seq(R) /\ Len(chunks') = Len(chunks) + 1 /\ chunks'[1] = c
          /\ \A j \in 2..(Len(chunks) + 1) : chunks'[j] = chunks[j - 1]
      BY <1>2, <2>1, <3>1
    <3>3. \A j \in 2..(Len(chunks) + 1) : j + -1 \in 1..Len(chunks) /\ chunks'[j] = chunks[j + -1]
      BY <1>2, <3>2
    <3>4. chunks' # << >>
      BY <1>2, <3>2
    <3> QED
      BY <1>2, <3>1, <3>2, <3>3, <3>4 DEF R
  <2> QED
    BY <2>2, <2>3
<1>16. Moved(s)
  <2>1. ASSUME NEW j \in 1..Len(chunks')
        PROVE  \/ j + s \in 1..Len(chunks) /\ chunks'[j] = chunks[j + s]
               \/ Sound(chunks'[j]) /\ \A k \in 1..Len(chunks) : Apart(chunks[k], chunks'[j])
    <3>1. CASE j = 1
      BY <1>6, <1>15, <3>1
    <3>2. CASE j # 1
      <4>1. j \in 2..Len(chunks')
        BY <3>2
      <4> QED
        BY <1>15, <4>1
    <3> QED
      BY <3>1, <3>2
  <2> QED
    BY <2>1 DEF Moved
<1>17. /\ \A j \in 1..Len(chunks') : Sound(chunks'[j])
       /\ \A i, j \in 1..Len(chunks') : i # j => Apart(chunks'[i], chunks'[j])
  <2>0. s \in Int
    BY <1>14
  <2>1. ASSUME NEW j \in 1..Len(chunks') PROVE j = 1 \/ j \in 2..Len(chunks')
    OBVIOUS
  <2>2. ASSUME NEW j \in 1..Len(chunks') PROVE Sound(chunks'[j])
    BY <1>1, <1>6, <1>15, <2>1 DEF ChunksApart
  <2>3. ASSUME NEW i \in 1..Len(chunks'), NEW j \in 1..Len(chunks'), i # j
        PROVE  Apart(chunks'[i], chunks'[j])
    <3>1. CASE i = 1
      <4>1. j + s \in 1..Len(chunks) /\ chunks'[j] = chunks[j + s]
        BY <1>15, <2>1, <2>3, <3>1
      <4> QED
        BY <1>6, <1>15, <3>1, <4>1 DEF Apart
    <3>2. CASE j = 1
      <4>1. i + s \in 1..Len(chunks) /\ chunks'[i] = chunks[i + s]
        BY <1>15, <2>1, <2>3, <3>2
      <4> QED
        BY <1>6, <1>15, <3>2, <4>1 DEF Apart
    <3>3. CASE i # 1 /\ j # 1
      <4>1. /\ i + s \in 1..Len(chunks) /\ chunks'[i] = chunks[i + s]
            /\ j + s \in 1..Len(chunks) /\ chunks'[j] = chunks[j + s]
        BY <1>15, <2>1, <3>3
      <4>2. i + s # j + s
        BY <2>0, <2>3
      <4> QED
        BY <1>1, <4>1, <4>2 DEF ChunksApart
    <3> QED
      BY <3>1, <3>2, <3>3
  <2> QED
    BY <2>2, <2>3
<1>18. ChunksApart'
  BY <1>17 DEF ChunksApart, Sound, Apart, O!Contents, O!Aligned
<1>19. O!TypeOK'
  <2>1. object_base' \in 0..(Memory + 1) /\ next_free' \in 0..(Memory + 1)
    <3>1. base + Len(bytes) <= Memory + 1
      BY <1>2, <1>8, <1>10
    <3> QED
      BY <1>2, <1>8, <1>10, <1>13, <3>1
  <2>2. maybe_empty_object' \in BOOLEAN
    BY <1>4
  <2>3. objects \in Seq([at : 1..(Memory + 1), bytes : Seq(O!Byte), chunk : O!Addresses])
    BY <1>1 DEF O!TypeOK
  <2> QED
    BY <1>8, <1>12, <1>15, <2>1, <2>2, <2>3 DEF O!TypeOK, O!Addresses
<1>20. ASSUME NEW n \in 1..Len(objects), NEW k \in 1..Len(chunks), Lies(objects[n], chunks[k])
       PROVE  /\ k - s \in 1..Len(chunks') /\ chunks'[k - s] = chunks[k]
              /\ \A a \in objects[n].at..(End(objects[n]) - 1) : memory'[a] = memory[a]
  <2>1. Sound(chunks[k]) /\ Apart(chunks[k], c)
    BY <1>1, <1>6 DEF ChunksApart
  <2>2. O!Emptied => k # 1
    BY <1>20, EmptiedIsEmpty
  <2>3. /\ k - s \in 2..Len(chunks') /\ (k - s) + s = k
    <3>1. CASE O!Emptied
      BY <1>2, <1>14, <1>15, <2>2, <3>1
    <3>2. CASE ~O!Emptied
      BY <1>2, <1>14, <1>15, <3>2
    <3> QED
      BY <3>1, <3>2
  <2>4. k - s \in 1..Len(chunks') /\ chunks'[k - s] = chunks[k]
    <3>1. PICK j : j = k - s
      OBVIOUS
    <3> QED
      BY <1>15, <2>3, <3>1
  <2>5. ASSUME NEW a \in objects[n].at..(End(objects[n]) - 1) PROVE memory'[a] = memory[a]
    <3>1. a \in O!Addresses
      BY <1>1, <1>20, <2>1, LiesInMemory
    <3>2. a \notin c.base..(c.limit - 1)
      BY <1>1, <1>6, <1>20, <2>1, LiesApart
    <3>3. a \notin base..(base + Len(bytes) - 1)
      <4>1. PICK l, m, len : l = c.base /\ m = c.limit /\ len = Len(bytes)
        OBVIOUS
      <4>2. l \in Nat /\ m \in Nat /\ len \in Nat /\ l < base /\ base + len <= m
        BY <1>8, <1>10, <4>1
      <4>3. \A x \in base..(base + len - 1) : x \in l..(m - 1)
        BY <1>10, <4>2, SMTT(30)
      <4> QED
        BY <3>2, <4>1, <4>3
    <3>4. a \notin freed
      <4>1. CASE O!Emptied
        <5>1. Apart(chunks[k], chunks[1]) /\ Sound(chunks[1])
          BY <1>1, <1>2, <2>2, <4>1 DEF ChunksApart
        <5>2. a \notin chunks[1].base..(chunks[1].limit - 1)
          BY <1>1, <1>20, <2>1, <5>1, LiesApart
        <5> QED
          BY <1>7, <4>1, <5>2 DEF O!In
      <4>2. CASE ~O!Emptied
        BY <1>7, <4>2
      <4> QED
        BY <4>1, <4>2
    <3> QED
      BY <1>12, <3>1, <3>3, <3>4
  <2> QED
    BY <2>4, <2>5
<1>21. /\ \A n \in 1..Len(objects) : Placed(n)'
       /\ \A m, n \in 1..Len(objects) : m < n => Stacked(m, n)'
  <2>1. ASSUME NEW n \in 1..Len(objects)
        PROVE  /\ objects'[n] = objects[n]
               /\ \E j \in 1..Len(chunks') : Lies(objects[n], chunks'[j])
               /\ \A a \in objects[n].at..(End(objects[n]) - 1) : memory'[a] = memory[a]
    <3>1. PICK k \in 1..Len(chunks) : Lies(objects[n], chunks[k])
      BY DEF ObInv, Placed
    <3>2. /\ k - s \in 1..Len(chunks') /\ chunks'[k - s] = chunks[k]
          /\ \A a \in objects[n].at..(End(objects[n]) - 1) : memory'[a] = memory[a]
      BY <1>20, <3>1
    <3>3. \E j \in 1..Len(chunks') : Lies(objects[n], chunks'[j])
      <4>1. PICK j : j = k - s
        OBVIOUS
      <4>2. j \in 1..Len(chunks') /\ chunks'[j] = chunks[k]
        BY <3>2, <4>1
      <4> QED
        BY <3>1, <4>2
    <3> QED
      BY <3>2, <3>3
  <2>2. Len(objects) \in 0..Len(objects) /\ s \in Int
    BY <1>2, <1>14
  <2> QED
    BY <1>16, <2>1, <2>2, ObjectsMoved
<1>22. OnTop'
  <2>1. O!Holds(object_base, growing)'
    BY <1>8, <1>12, <1>13 DEF O!Holds, O!Addresses
  <2>2. O!Contents(chunks[1])' = base
    <3>1. O!Contents(chunks[1])' = O!Contents(c)
      BY <1>15 DEF O!Contents, O!Aligned
    <3> QED
      BY <1>9, <3>1
  <2>3. ASSUME NEW n \in 1..Len(objects) PROVE ~Lies(objects[n], c)
    <3>1. PICK k \in 1..Len(chunks) : Lies(objects[n], chunks[k])
      BY DEF ObInv, Placed
    <3>2. Sound(chunks[k]) /\ Apart(chunks[k], c)
      BY <1>1, <1>6 DEF ChunksApart
    <3> QED
      BY <1>1, <1>6, <3>1, <3>2, LiesApart
  <2>4. /\ next_free' = object_base' + Len(growing') /\ base <= object_base'
        /\ next_free' <= chunks'[1].limit
    <3>1. next_free' <= c.limit
      BY <1>10, <1>13
    <3>2. next_free' <= chunks'[1].limit
      BY <1>15, <3>1
    <3>3. base <= object_base'
      BY <1>10, <1>13
    <3> QED
      BY <1>8, <1>13, <3>2, <3>3
  <2>5. \A n \in 1..Len(objects') : ~Lies(objects[n], chunks[1])'
    BY <1>15, <2>3 DEF Lies, End, O!Contents, O!Aligned
  <2> QED
    BY <2>1, <2>2, <2>4, <2>5 DEF OnTop
<1> QED
  BY <1>15, <1>18, <1>19, <1>21, <1>22 DEF ObInv

LEMMA ObjectGrowKeeps == ASSUME ObInv, O!Grow PROVE ObInv'
<1>1. chunks # << >> /\ O!TypeOK
  BY DEF O!Grow, ObInv
<1>2. PICK length \in 0..MaxLength :
          /\ growing' = growing \o Added(length)
          /\ IF next_free + length > chunks[1].limit
             THEN O!NewChunk(Added(length))
             ELSE /\ memory' = O!Copied(object_base, Added(length), {})
                  /\ next_free' = next_free + length
                  /\ chunks' = chunks /\ object_base' = object_base
                  /\ maybe_empty_object' = maybe_empty_object
  BY DEF O!Grow, O!Chunk, Added
<1>3. objects' = objects
  BY DEF O!Grow
<1>4. length \in Nat
  OBVIOUS
<1>5. CASE next_free + length > chunks[1].limit
  BY <1>1, <1>2, <1>3, <1>4, <1>5, NewChunkKeeps
<1>6. CASE ~(next_free + length > chunks[1].limit)
  <2>1. next_free + length <= chunks[1].limit
    <3>1. next_free \in Nat /\ chunks[1].limit \in Nat
      BY <1>1, ObTypes
    <3> QED
      BY <1>4, <1>6, <3>1
  <2> QED
    BY <1>1, <1>2, <1>3, <1>4, <1>6, <2>1, InPlaceKeeps
<1> QED
  BY <1>5, <1>6

\* obstack_free, with the object and the chunk it is in.
LEMMA ObjectFreed ==
    ASSUME ObInv, chunks # << >>, NEW n \in 1..Len(objects), NEW k \in 1..Len(chunks),
           Lies(objects[n], chunks[k]),
           object_base' = objects[n].at, next_free' = objects[n].at,
           chunks' = SubSeq(chunks, k, Len(chunks)),
           memory' \in [O!Addresses -> O!Byte],
           \A a \in O!Addresses :
              (\A j \in 1..(k - 1) : a \notin O!In(chunks[j])) => memory'[a] = memory[a],
           maybe_empty_object' = (maybe_empty_object \/ k > 1),
           objects' = SubSeq(objects, 1, n - 1), growing' = << >>
    PROVE  ObInv'
<1>1. O!TypeOK /\ ChunksApart /\ OnTop
  BY DEF ObInv
<1>2. /\ Len(chunks) \in Nat /\ Len(objects) \in Nat /\ Memory \in Nat
      /\ objects[n].at \in Nat /\ Len(objects[n].bytes) \in Nat
      /\ End(objects[n]) = objects[n].at + Len(objects[n].bytes)
  BY <1>1, ObTypes DEF End
<1>3. PICK s, count : s = k - 1 /\ count = n - 1
  OBVIOUS
<1>0. /\ Len(chunks) \in Nat /\ Len(objects) \in Nat
      /\ n \in 1..Len(objects) /\ k \in 1..Len(chunks)
  BY <1>2
<1>4. s \in Int /\ count \in 0..Len(objects) /\ 1 + s = k
  BY ONLY <1>0, <1>3
<1>5. /\ chunks' \in Seq([base : O!Addresses, limit : 1..(Memory + 1)])
      /\ Len(chunks') = Len(chunks) - s /\ chunks'[1] = chunks[k] /\ chunks' # << >>
      /\ \A j \in 1..Len(chunks') : j + s \in 1..Len(chunks) /\ chunks'[j] = chunks[j + s]
  <2> DEFINE R == [base : O!Addresses, limit : 1..(Memory + 1)]
  <2>1. chunks \in Seq(R)
    BY <1>1 DEF O!TypeOK
  <2> HIDE DEF R
  <2>2. /\ chunks' \in Seq(R) /\ Len(chunks') = Len(chunks) - k + 1
        /\ \A j \in 1..(Len(chunks) - k + 1) : chunks'[j] = chunks[k + j - 1]
    <3>1. chunks' = SubSeq(chunks, k, Len(chunks))
      OBVIOUS
    <3> QED
      BY ONLY <1>0, <2>1, <3>1
  <2>3. Len(chunks') = Len(chunks) - s /\ 1 \in 1..Len(chunks')
    BY <1>2, <1>3, <2>2
  <2>4. \A j \in 1..Len(chunks') : j + s \in 1..Len(chunks) /\ k + j - 1 = j + s
    BY <1>2, <1>3, <2>3
  <2>5. \A j \in 1..Len(chunks') : chunks'[j] = chunks[j + s]
    BY <2>2, <2>4
  <2>6. chunks'[1] = chunks[k]
    BY <1>4, <2>3, <2>5
  <2>7. Len(chunks') # 0
    BY <1>2, <2>2
  <2>8. chunks' # << >>
    BY <2>7
  <2> QED
    BY <2>2, <2>3, <2>4, <2>5, <2>6, <2>8 DEF R
<1>6. Moved(s)
  BY <1>5 DEF Moved
<1>7. ChunksApart'
  <2>1. ASSUME NEW i \in 1..Len(chunks'), NEW j \in 1..Len(chunks'), i # j
        PROVE  Apart(chunks'[i], chunks'[j])
    <3>1. /\ i + s \in 1..Len(chunks) /\ chunks'[i] = chunks[i + s]
          /\ j + s \in 1..Len(chunks) /\ chunks'[j] = chunks[j + s]
      BY <1>5
    <3>2. i + s # j + s
      BY <1>4, <2>1
    <3> QED
      BY <1>1, <3>1, <3>2 DEF ChunksApart
  <2>2. \A j \in 1..Len(chunks') : Sound(chunks'[j])
    BY <1>1, <1>5 DEF ChunksApart
  <2> QED
    BY <2>1, <2>2 DEF ChunksApart, Sound, Apart, O!Contents, O!Aligned
<1>8. /\ Len(objects') = count
      /\ objects' \in Seq([at : 1..(Memory + 1), bytes : Seq(O!Byte), chunk : O!Addresses])
      /\ \A m \in 1..count : objects'[m] = objects[m]
  <2> DEFINE R == [at : 1..(Memory + 1), bytes : Seq(O!Byte), chunk : O!Addresses]
  <2>1. objects \in Seq(R)
    BY <1>1 DEF O!TypeOK
  <2> HIDE DEF R
  <2>2. objects' \in Seq(R) /\ Len(objects') = count /\ \A m \in 1..count : objects'[m] = objects[m]
    BY <1>2, <1>3, <1>4, <2>1
  <2> QED
    BY <2>2 DEF R
<1>9. Sound(chunks[k])
  BY <1>1 DEF ChunksApart
<1>10. /\ O!Contents(chunks[k]) <= objects[n].at /\ objects[n].at <= chunks[k].limit
       /\ objects[n].at <= Memory + 1
  <2>1. /\ O!Contents(chunks[k]) <= objects[n].at /\ End(objects[n]) <= chunks[k].limit
        /\ chunks[k].limit \in Nat /\ chunks[k].limit <= Memory + 1
    BY <1>9 DEF Lies, Sound
  <2>2. PICK x, y : x = objects[n].at /\ y = Len(objects[n].bytes)
    OBVIOUS
  <2>3. x \in Nat /\ y \in Nat /\ x + y <= chunks[k].limit
    BY <1>2, <2>1, <2>2
  <2>4. x <= chunks[k].limit /\ x <= Memory + 1
    <3>1. PICK limit \in Nat : limit = chunks[k].limit /\ limit <= Memory + 1
      BY <2>1
    <3>2. Memory \in Nat /\ x + y <= limit
      BY ONLY <1>2, <2>3, <3>1
    <3>3. x <= limit /\ x <= Memory + 1
      BY ONLY <2>3, <3>1, <3>2
    <3> QED
      BY ONLY <3>1, <3>3
  <2> QED
    BY <2>1, <2>2, <2>4
<1>11. O!TypeOK'
  <2>1. objects[n].at \in 0..(Memory + 1)
    BY <1>2, <1>10
  <2>2. maybe_empty_object' \in BOOLEAN
    BY <1>1 DEF O!TypeOK
  <2>3. growing' \in Seq(O!Byte)
    OBVIOUS
  <2> QED
    BY <1>5, <1>8, <2>1, <2>2, <2>3 DEF O!TypeOK, O!Addresses
\* What is older lies in the same chunk, behind which it ends, or farther down.
<1>12. ASSUME NEW m \in 1..count, NEW j \in 1..Len(chunks), Lies(objects[m], chunks[j])
       PROVE  k <= j /\ (j = k => End(objects[m]) <= objects[n].at)
  <2>1. m \in 1..Len(objects) /\ m < n
    <3>1. m \in 1..count
      OBVIOUS
    <3> QED
      BY ONLY <1>0, <1>3, <3>1
  <2> QED
    BY <1>12, <2>1 DEF ObInv, Stacked
<1>13. /\ \A m \in 1..count : Placed(m)'
       /\ \A l, m \in 1..count : l < m => Stacked(l, m)'
  <2>1. ASSUME NEW m \in 1..count
        PROVE  /\ objects'[m] = objects[m]
               /\ \E j \in 1..Len(chunks') : Lies(objects[m], chunks'[j])
               /\ \A a \in objects[m].at..(End(objects[m]) - 1) : memory'[a] = memory[a]
    <3>1. m \in 1..Len(objects)
      BY <1>2, <1>3
    <3>2. PICK j \in 1..Len(chunks) : Lies(objects[m], chunks[j])
      BY <3>1 DEF ObInv, Placed
    <3>3. k <= j
      BY <1>12, <3>2
    <3>4. PICK i : i = j - s
      OBVIOUS
    <3>5. i \in 1..Len(chunks') /\ i + s = j
      <4>1. j \in 1..Len(chunks)
        OBVIOUS
      <4>2. j \in Int /\ s \in Int /\ s < j
        BY ONLY <1>0, <1>3, <3>3, <4>1
      <4>3. i \in 1..(Len(chunks) - s) /\ i + s = j
        BY ONLY <1>0, <3>4, <4>1, <4>2
      <4> QED
        BY ONLY <1>5, <4>3
    <3>6. chunks'[i] = chunks[j]
      BY <1>5, <3>5
    <3>7. ASSUME NEW a \in objects[m].at..(End(objects[m]) - 1) PROVE memory'[a] = memory[a]
      <4>1. Sound(chunks[j])
        BY <1>1 DEF ChunksApart
      <4>2. a \in O!Addresses
        BY <1>1, <3>1, <3>2, <4>1, LiesInMemory
      <4>3. ASSUME NEW older \in 1..(k - 1) PROVE a \notin O!In(chunks[older])
        <5>1. older \in 1..Len(chunks) /\ older # j
          <6>1. older \in 1..(k - 1)
            OBVIOUS
          <6> QED
            BY ONLY <1>0, <3>3, <6>1
        <5>2. Sound(chunks[older]) /\ Apart(chunks[j], chunks[older])
          BY <1>1, <5>1 DEF ChunksApart
        <5> QED
          BY <1>1, <3>1, <3>2, <4>1, <5>2, LiesApart DEF O!In
      <4> QED
        BY <4>2, <4>3
    <3> QED
      BY <1>8, <3>2, <3>5, <3>6, <3>7
  <2> QED
    BY <1>4, <1>6, <2>1, ObjectsMoved
<1>14. OnTop'
  <2>1. O!Holds(object_base, growing)'
    BY DEF O!Holds
  <2>2. O!Contents(chunks[1])' = O!Contents(chunks[k])
    BY <1>5 DEF O!Contents, O!Aligned
  <2>3. Len(growing') = 0 /\ next_free' = object_base' + Len(growing')
    BY <1>2
  <2>4. O!Contents(chunks[k]) <= object_base' /\ next_free' <= chunks'[1].limit
    BY <1>5, <1>10
  <2>5. ASSUME NEW m \in 1..count, Lies(objects[m], chunks[k])
        PROVE  /\ End(objects[m]) <= object_base'
               /\ ~maybe_empty_object' => Len(objects[m].bytes) > 0
    <3>1. End(objects[m]) <= object_base'
      BY <1>12, <2>5
    <3>2. ASSUME ~maybe_empty_object' PROVE Len(objects[m].bytes) > 0
      <4>1. ~maybe_empty_object /\ ~(k > 1)
        BY <3>2
      <4>3. k = 1
        BY <4>1
      <4>2. m \in 1..Len(objects)
        BY <1>2, <1>3
      <4> QED
        BY <1>1, <2>5, <4>1, <4>2, <4>3 DEF OnTop
    <3> QED
      BY <3>1, <3>2
  <2>6. \A m \in 1..Len(objects') : Lies(objects'[m], chunks'[1]) =>
            /\ End(objects'[m]) <= object_base'
            /\ ~maybe_empty_object' => Len(objects'[m].bytes) > 0
    BY <1>5, <1>8, <2>5
  <2> QED
    BY <2>1, <2>2, <2>3, <2>4, <2>6 DEF OnTop, Lies, End, O!Contents, O!Aligned
<1> QED
  BY <1>5, <1>7, <1>8, <1>11, <1>13, <1>14 DEF ObInv

LEMMA ObjectFreeKeeps == ASSUME ObInv, O!Free PROVE ObInv'
<1>1. chunks # << >> /\ O!TypeOK /\ ChunksApart /\ OnTop
  BY DEF O!Free, ObInv
<1>2. Len(chunks) \in Nat /\ Len(objects) \in Nat /\ 1 \in 1..Len(chunks)
  BY <1>1, ObTypes
<1>3. PICK n \in DOMAIN objects :
          /\ IF chunks[1].base < objects[n].at /\ objects[n].at < chunks[1].limit
             THEN chunks' = chunks /\ memory' = memory /\ maybe_empty_object' = maybe_empty_object
             ELSE /\ O!FreeChunks(O!Found(objects[n].at) - 1)
                  /\ maybe_empty_object' = (maybe_empty_object \/ O!Found(objects[n].at) > 1)
          /\ object_base' = objects[n].at /\ next_free' = objects[n].at
          /\ objects' = SubSeq(objects, 1, n - 1)
  BY DEF O!Free, O!Chunk
<1>4. growing' = << >>
  BY DEF O!Free
<1>5. n \in 1..Len(objects)
  BY <1>1 DEF O!TypeOK
<1>6. PICK k \in 1..Len(chunks) : Lies(objects[n], chunks[k])
  BY <1>5 DEF ObInv, Placed
<1>7. objects[n].at \in Nat /\ Len(objects[n].bytes) \in Nat /\ Sound(chunks[k]) /\ Sound(chunks[1])
  BY <1>1, <1>2, <1>5, ObTypes DEF ChunksApart
<1>8. O!Contents(chunks[k]) <= objects[n].at /\ objects[n].at <= chunks[k].limit
  BY <1>6, <1>7 DEF Lies, End, Sound
<1>9. O!Found(objects[n].at) = k
  BY <1>1, <1>7, <1>8, FoundIs
<1>10. /\ chunks' = SubSeq(chunks, k, Len(chunks))
       /\ memory' \in [O!Addresses -> O!Byte]
       /\ \A a \in O!Addresses :
             (\A j \in 1..(k - 1) : a \notin O!In(chunks[j])) => memory'[a] = memory[a]
       /\ maybe_empty_object' = (maybe_empty_object \/ k > 1)
  <2>1. CASE chunks[1].base < objects[n].at /\ objects[n].at < chunks[1].limit
    <3>1. k = 1
      <4>1. ASSUME k # 1 PROVE FALSE
        <5>1. Apart(chunks[1], chunks[k])
          BY <1>1, <1>2, <4>1 DEF ChunksApart
        <5> QED
          BY <1>7, <1>8, <2>1, <5>1 DEF Apart, Sound
      <4> QED
        BY <4>1
    <3>2. chunks = SubSeq(chunks, 1, Len(chunks))
      <4> DEFINE R == [base : O!Addresses, limit : 1..(Memory + 1)]
      <4>1. chunks \in Seq(R)
        BY <1>1 DEF O!TypeOK
      <4> HIDE DEF R
      <4> QED
        BY <4>1
    <3>3. maybe_empty_object' = (maybe_empty_object \/ k > 1)
      BY <1>1, <1>3, <2>1, <3>1 DEF O!TypeOK
    <3> QED
      BY <1>1, <1>3, <2>1, <3>1, <3>2, <3>3 DEF O!TypeOK
  <2>2. CASE ~(chunks[1].base < objects[n].at /\ objects[n].at < chunks[1].limit)
    <3>1. O!FreeChunks(k - 1) /\ maybe_empty_object' = (maybe_empty_object \/ k > 1)
      BY <1>3, <1>9, <2>2
    <3>2. chunks' = SubSeq(chunks, k, Len(chunks))
      <4>1. (k - 1) + 1 = k
        BY <1>2
      <4> QED
        BY <3>1, <4>1 DEF O!FreeChunks
    <3>3. memory' = [a \in O!Addresses |->
                        IF \E j \in 1..(k - 1) : a \in O!In(chunks[j])
                        THEN O!Junk ELSE memory[a]]
      BY <3>1 DEF O!FreeChunks
    <3>4. memory \in [O!Addresses -> O!Byte] /\ O!Junk \in O!Byte
      BY <1>1 DEF O!TypeOK, O!Junk, O!Byte
    <3>5. memory' \in [O!Addresses -> O!Byte]
      BY <3>3, <3>4
    <3>6. \A a \in O!Addresses :
              (\A j \in 1..(k - 1) : a \notin O!In(chunks[j])) => memory'[a] = memory[a]
      BY <3>3
    <3> QED
      BY <3>1, <3>2, <3>5, <3>6
  <2> QED
    BY <2>1, <2>2
<1> QED
  BY <1>1, <1>3, <1>4, <1>5, <1>6, <1>10, ObjectFreed

LEMMA ObSteps == ObInv /\ [O!Next]_obstack => ObInv'
<1> SUFFICES ASSUME ObInv, [O!Next]_obstack PROVE ObInv'
  OBVIOUS
<1>1. CASE O!Begin
  BY <1>1, BeginKeeps
<1>2. CASE O!Grow
  BY <1>2, ObjectGrowKeeps
<1>3. CASE O!Finish
  BY <1>3, FinishKeeps
<1>4. CASE O!Free
  BY <1>4, ObjectFreeKeeps
<1>5. CASE O!FreeAll
  BY <1>5, FreeAllKeeps
<1>6. CASE UNCHANGED obstack
  BY <1>6 DEF obstack, ObInv, O!TypeOK, O!Addresses, ChunksApart, Sound, Apart, Placed, Stacked,
              Lies, End, OnTop, O!Holds, O!Contents, O!Aligned
<1> QED
  BY <1>1, <1>2, <1>3, <1>4, <1>5, <1>6 DEF O!Next

\* Whatever is grown, finished and freed, every object keeps its bytes where it
\* is, the object on top has all it was given, and obstack_free finds each of
\* them in the chunk it was made in (obstack.c lines 225-349, obstack.h lines
\* 296-401).
THEOREM ObjectsCorrect == StoreSpec => []ObjectsSurvive
<1>1. StoreInit => ObInv
  BY ObBegins DEF StoreInit
<1>2. ObInv /\ [StoreNext]_storevars => ObInv'
  <2>1. [StoreNext]_storevars => [O!Next]_obstack
    BY DEF StoreNext, UseObstack, UseHsearch, UseDynarray, UseServices, UseNodeSet, storevars
  <2> QED
    BY <2>1, ObSteps
<1> QED
  BY <1>1, <1>2, ObjectsAreKept, PTL DEF StoreSpec

--------------------------------------------------------------------------------
(* Node sets: what is true in every loop.                                  *)

Rising(f, first, last) == \A k, l \in first..last : k < l => f[k] < f[l]
Vals(f, first, last) == {f[k] : k \in first..last}

SetTypes ==
    /\ alloc \in Nat /\ block \in Nat /\ nelem \in Nat /\ nelem <= block
    /\ nodes \in [0..(block - 1) -> Int] /\ members \subseteq Int /\ beyond = FALSE

\* Contains and the calls that are over.
Whole ==
    loop \in {"none", "found", "contains"} =>
        /\ Rising(nodes, 0, nelem - 1)
        /\ members = Vals(nodes, 0, nelem - 1)

Searching ==
    /\ loop = "contains" =>
          /\ elem \in Int /\ idx \in Nat /\ right \in Nat /\ idx <= right /\ right < nelem
          /\ \A k \in 0..(nelem - 1) : nodes[k] = elem => idx <= k /\ k <= right
    /\ loop = "found" =>
          /\ elem \in Int
          /\ IF elem \in members THEN found \in 1..nelem /\ nodes[found - 1] = elem ELSE found = 0

\* Insert: the elements from idx on are one place up.
Inserting ==
    loop = "insert" =>
        /\ elem \in Int /\ idx \in Nat /\ nelem >= 1 /\ idx <= nelem /\ nelem < block
        /\ Rising(nodes, 0, idx - 1) /\ Rising(nodes, idx + 1, nelem)
        /\ \A k \in 0..(idx - 1) : nodes[k] # elem /\ \A l \in (idx + 1)..nelem : nodes[k] < nodes[l]
        /\ \A l \in (idx + 1)..nelem : elem < nodes[l]
        /\ idx < nelem => elem < nodes[idx]
        /\ members = Vals(nodes, 0, idx - 1) \union Vals(nodes, idx + 1, nelem) \union {elem}

\* init_union: the elements are the items of both that were passed.
Uniting ==
    loop = "union" =>
        /\ src1 \in Sources /\ src2 \in Sources
        /\ block = Len(src1) + Len(src2) /\ nelem = 0
        /\ i1 \in 0..Len(src1) /\ i2 \in 0..Len(src2) /\ id \in 0..(i1 + i2)
        /\ Rising(nodes, 0, id - 1)
        /\ Vals(nodes, 0, id - 1) = Vals(src1, 1, i1) \union Vals(src2, 1, i2)
        /\ \A k \in 0..(id - 1) : /\ \A j \in (i1 + 1)..Len(src1) : nodes[k] < src1[j]
                                  /\ \A j \in (i2 + 1)..Len(src2) : nodes[k] < src2[j]
        /\ members = Vals(src1, 1, Len(src1)) \union Vals(src2, 1, Len(src2))

\* merge: above the elements f, own of them, are from s on the items of seq
\* that are not among them; a and d are the places in both.
Merges(f, own, all, room, seq, a, d, s) ==
    LET n == Len(seq)
        top == own + 2 * n
    IN  /\ seq \in Sources /\ top <= room /\ own >= 1
        /\ a \in -1..(n - 1) /\ d \in -1..(own - 1)
        /\ s \in Int /\ s <= top /\ top - s <= n - (a + 1)
        /\ Rising(f, 0, own - 1) /\ Rising(f, s, top - 1)
        /\ Vals(f, s, top - 1) = Vals(seq, a + 2, n) \ Vals(f, 0, own - 1)
        /\ \A k \in (d + 1)..(own - 1) : \A j \in 1..(a + 1) : seq[j] < f[k]
        /\ all = Vals(f, 0, own - 1) \union Vals(seq, 1, n)

Merging == loop = "merge" => Merges(nodes, nelem, members, block, src1, i1, id, sbase)

\* add_intersect: the same for the items that both sequences have; a and b items
\* of them are still to be looked at.
Shares(f, own, all, room, seq1, seq2, a, b, d, s) ==
    LET n1 == Len(seq1)
        n2 == Len(seq2)
        top == own + n1 + n2
    IN  /\ seq1 \in Sources /\ seq2 \in Sources /\ top <= room
        /\ a \in 0..n1 /\ b \in 0..n2 /\ d \in -1..(own - 1)
        /\ s \in Int /\ s <= top /\ top - s <= n1 - a /\ top - s <= n2 - b
        /\ Rising(f, 0, own - 1) /\ Rising(f, s, top - 1)
        /\ Vals(f, s, top - 1) =
              (Vals(seq1, a + 1, n1) \intersect Vals(seq2, b + 1, n2)) \ Vals(f, 0, own - 1)
        /\ \A j \in (a + 1)..n1, m \in 1..b : seq2[m] < seq1[j]
        /\ \A j \in 1..a, m \in (b + 1)..n2 : seq1[j] < seq2[m]
        /\ \A k \in (d + 1)..(own - 1) : \A j \in 1..a : seq1[j] < f[k]
        /\ all = Vals(f, 0, own - 1) \union (Vals(seq1, 1, n1) \intersect Vals(seq2, 1, n2))

Sharing ==
    loop = "intersect" =>
        /\ i1 \in Int /\ i2 \in Int
        /\ Shares(nodes, nelem, members, block, src1, src2, i1 + 1, i2 + 1, id, sbase)

\* The elements up to d, the items from s to t, and what is in its place.
Slides(f, own, all, room, d, t, s) ==
    LET high == d + (t - s + 1) + 1
    IN  /\ t \in Int /\ s \in Int /\ d \in Int
        /\ d >= -1 /\ s <= t + 1 /\ high <= own /\ own <= s /\ t < room
        /\ Rising(f, 0, d) /\ Rising(f, s, t) /\ Rising(f, high, own - 1)
        /\ \A k \in 0..d, l \in s..t : f[k] # f[l]
        /\ \A k \in 0..d, l \in high..(own - 1) : f[k] < f[l]
        /\ \A k \in s..t, l \in high..(own - 1) : f[k] < f[l]
        /\ all = Vals(f, 0, d) \union Vals(f, s, t) \union Vals(f, high, own - 1)

Sliding == loop = "slide" => Slides(nodes, nelem, members, block, id, is, sbase)

SetInv ==
    /\ SetTypes /\ Whole /\ Searching /\ Inserting /\ Uniting
    /\ Merging /\ Sharing /\ Sliding

--------------------------------------------------------------------------------
(* Node sets: the operators.                                               *)

\* What the caller hands over: node numbers in rising order.
LEMMA SourcesAre ==
  ASSUME NEW seq \in Sources
  PROVE  /\ Len(seq) \in Nat /\ DOMAIN seq = 1..Len(seq)
         /\ \A j \in 1..Len(seq) : seq[j] \in Int /\ seq[j] \in Nodes
         /\ Rising(seq, 1, Len(seq)) /\ N!Items(seq) = Vals(seq, 1, Len(seq))
         /\ seq # << >> => Len(seq) >= 1
<1>1. seq \in Seq(Nodes) /\ N!Increasing(seq)
  BY StoreAssumption DEF N!NodeAssumption
<1>0. \A e \in Nodes : e \in Int
  BY StoreAssumption DEF N!NodeAssumption
<1>2. Len(seq) \in Nat /\ DOMAIN seq = 1..Len(seq)
  BY <1>1
<1>3. \A j \in 1..Len(seq) : seq[j] \in Int /\ seq[j] \in Nodes
  <2>1. \A j \in 1..Len(seq) : seq[j] \in Nodes
    BY <1>1
  <2> QED
    BY <1>0, <2>1
<1>4. Rising(seq, 1, Len(seq))
  BY <1>1, <1>2 DEF N!Increasing, Rising
<1>5. N!Items(seq) = Vals(seq, 1, Len(seq))
  BY <1>2 DEF N!Items, Vals
<1>6. seq # << >> => Len(seq) >= 1
  BY <1>2
<1> QED
  BY <1>2, <1>3, <1>4, <1>5, <1>6

\* What two arrays share from first to last they share in order and in items.
LEMMA SameItems ==
  ASSUME NEW f, NEW g, NEW first \in Int, NEW last \in Int,
         \A k \in first..last : g[k] = f[k]
  PROVE  /\ Vals(g, first, last) = Vals(f, first, last)
         /\ Rising(f, first, last) => Rising(g, first, last)
BY DEF Vals, Rising

\* One item more, below.
LEMMA ItemBelow ==
  ASSUME NEW f, NEW first \in Int, NEW last \in Int, first - 1 <= last,
         \A k \in (first - 1)..last : f[k] \in Int,
         Rising(f, first, last), \A k \in first..last : f[first - 1] < f[k]
  PROVE  /\ Rising(f, first - 1, last)
         /\ Vals(f, first - 1, last) = Vals(f, first, last) \union {f[first - 1]}
<1>1. Rising(f, first - 1, last)
  BY DEF Rising
<1>2. (first - 1)..last = (first..last) \union {first - 1}
  OBVIOUS
<1>3. Vals(f, first - 1, last) = Vals(f, first, last) \union {f[first - 1]}
  BY <1>2 DEF Vals
<1> QED
  BY <1>1, <1>3

\* The same above.
LEMMA ItemAbove ==
  ASSUME NEW f, NEW first \in Int, NEW last \in Int, first <= last + 1,
         \A k \in first..(last + 1) : f[k] \in Int,
         Rising(f, first, last), \A k \in first..last : f[k] < f[last + 1]
  PROVE  /\ Rising(f, first, last + 1)
         /\ Vals(f, first, last + 1) = Vals(f, first, last) \union {f[last + 1]}
<1>1. Rising(f, first, last + 1)
  BY DEF Rising
<1>2. first..(last + 1) = (first..last) \union {last + 1}
  OBVIOUS
<1>3. Vals(f, first, last + 1) = Vals(f, first, last) \union {f[last + 1]}
  BY <1>2 DEF Vals
<1> QED
  BY <1>1, <1>3

\* The items without the first or the last.
LEMMA ItemApart ==
  ASSUME NEW f, NEW first \in Int, NEW last \in Int, first <= last,
         \A k \in first..last : f[k] \in Int, Rising(f, first, last)
  PROVE  /\ Vals(f, first, last) = {f[first]} \union Vals(f, first + 1, last)
         /\ Vals(f, first, last) = Vals(f, first, last - 1) \union {f[last]}
         /\ Rising(f, first + 1, last) /\ Rising(f, first, last - 1)
         /\ \A k \in (first + 1)..last : f[first] < f[k]
         /\ \A k \in first..(last - 1) : f[k] < f[last]
         /\ f[first] \notin Vals(f, first + 1, last)
<1>1. /\ first..last = {first} \union ((first + 1)..last)
      /\ first..last = (first..(last - 1)) \union {last}
  OBVIOUS
<1>2. /\ Vals(f, first, last) = {f[first]} \union Vals(f, first + 1, last)
      /\ Vals(f, first, last) = Vals(f, first, last - 1) \union {f[last]}
  BY <1>1 DEF Vals
<1>3. /\ \A k \in (first + 1)..last : f[first] < f[k]
      /\ \A k \in first..(last - 1) : f[k] < f[last]
  BY DEF Rising
<1>4. Rising(f, first + 1, last) /\ Rising(f, first, last - 1)
  BY DEF Rising
<1>5. f[first] \notin Vals(f, first + 1, last)
  BY <1>3 DEF Vals
<1> QED
  BY <1>2, <1>3, <1>4, <1>5

\* A store in the block.
LEMMA PutIs ==
  ASSUME SetTypes, NEW place \in 0..(block - 1), NEW value \in Int, N!Put(place, value),
         block' = block
  PROVE  /\ nodes' \in [0..(block' - 1) -> Int] /\ beyond' = FALSE
         /\ nodes'[place] = value
         /\ \A k \in 0..(block - 1) : k # place => nodes'[k] = nodes[k]
BY DEF SetTypes, N!Put

\* A memcpy in the block.
LEMMA CopiedBlock ==
  ASSUME SetTypes, NEW place \in Nat, NEW n \in Nat, place + n <= block, NEW from, NEW first \in Int,
         \A k \in first..(first + n - 1) : from[k] \in Int
  PROVE  /\ N!Copied(place, from, first, n) \in [0..(block - 1) -> Int]
         /\ \A k \in place..(place + n - 1) : N!Copied(place, from, first, n)[k] = from[first + k - place]
         /\ \A k \in 0..(block - 1) :
               k < place \/ k >= place + n => N!Copied(place, from, first, n)[k] = nodes[k]
<1>1. DOMAIN nodes = 0..(block - 1) /\ block \in Nat /\ \A k \in 0..(block - 1) : nodes[k] \in Int
  BY DEF SetTypes
<1>2. \A k \in 0..(block - 1) : N!Copied(place, from, first, n)[k] =
         IF place <= k /\ k < place + n THEN from[first + k - place] ELSE nodes[k]
  BY <1>1 DEF N!Copied
<1>3. DOMAIN N!Copied(place, from, first, n) = 0..(block - 1)
  BY <1>1 DEF N!Copied
<1>4. ASSUME NEW k \in 0..(block - 1) PROVE N!Copied(place, from, first, n)[k] \in Int
  <2>1. CASE place <= k /\ k < place + n
    <3>1. first + k - place \in first..(first + n - 1)
      BY <1>1, <2>1
    <3> QED
      BY <1>2, <2>1, <3>1
  <2>2. CASE ~(place <= k /\ k < place + n)
    BY <1>1, <1>2, <2>2
  <2> QED
    BY <2>1, <2>2
<1>5. N!Copied(place, from, first, n) \in [0..(block - 1) -> Int]
  <2>1. N!Copied(place, from, first, n) =
           [k \in 0..(block - 1) |-> N!Copied(place, from, first, n)[k]]
    BY <1>1 DEF N!Copied
  <2> QED
    BY <1>4, <2>1
<1> QED
  BY <1>1, <1>2, <1>5

--------------------------------------------------------------------------------
(* Node sets: sets made anew.                                              *)

\* The block after a realloc or a creation: the elements are what they were.
LEMMA BlockIs ==
  ASSUME NEW from, NEW n \in Nat, NEW room \in Nat, n <= room,
         \A k \in 0..(n - 1) : from[k] \in Int
  PROVE  /\ N!Block(from, n, room) \in [0..(room - 1) -> Int]
         /\ \A k \in 0..(n - 1) : N!Block(from, n, room)[k] = from[k]
<1>1. \A k \in 0..(room - 1) : N!Block(from, n, room)[k] = IF k < n THEN from[k] ELSE -1
  BY DEF N!Block, N!Junk
<1>2. \A k \in 0..(room - 1) : N!Block(from, n, room)[k] \in Int
  BY <1>1
<1>3. N!Block(from, n, room) = [k \in 0..(room - 1) |-> N!Block(from, n, room)[k]]
  BY DEF N!Block
<1> QED
  BY <1>1, <1>2, <1>3

\* A call is over when the elements are right.
LEMMA OverKeeps ==
  ASSUME loop' = "none", SetTypes', Rising(nodes', 0, nelem' - 1),
         members' = Vals(nodes', 0, nelem' - 1)
  PROVE  SetInv'
BY DEF SetInv, Whole, Searching, Inserting, Uniting, Merging, Sharing, Sliding

\* The set before the first call.
LEMMA SetBegins == N!NodeInit => SetInv
<1> SUFFICES ASSUME N!NodeInit PROVE SetInv
  OBVIOUS
<1>1. nodes = << >> /\ alloc = 0 /\ nelem = 0 /\ block = 0 /\ members = {} /\ beyond = FALSE
      /\ loop = "none"
  BY DEF N!NodeInit
<1>2. nodes \in [0..(block - 1) -> Int]
  <2>1. 0..(0 - 1) = {} /\ DOMAIN << >> = {}
    OBVIOUS
  <2> QED
    BY <1>1, <2>1
<1>3. SetTypes
  BY <1>1, <1>2 DEF SetTypes
<1>4. Rising(nodes, 0, nelem - 1) /\ members = Vals(nodes, 0, nelem - 1)
  BY <1>1 DEF Rising, Vals
<1> QED
  BY <1>1, <1>3, <1>4
  DEF SetInv, Whole, Searching, Inserting, Uniting, Merging, Sharing, Sliding

\* The elements are those of a sequence that is in order.
LEMMA FilledKeeps ==
  ASSUME NEW room \in Nat, NEW seq, Len(seq) \in Nat, Len(seq) <= room,
         DOMAIN seq = 1..Len(seq), \A j \in 1..Len(seq) : seq[j] \in Int,
         Rising(seq, 1, Len(seq)), loop' = "none", beyond' = FALSE,
         alloc' = room, block' = room, nelem' = Len(seq),
         \A e : e \in members' <=> e \in N!Items(seq),
         nodes' \in [0..(room - 1) -> Int], \A k \in 0..(Len(seq) - 1) : nodes'[k] = seq[k + 1]
  PROVE  SetInv'
<1>4. members' = Vals(nodes', 0, Len(seq) - 1)
  <2>1. \A v : v \in members' <=> \E j \in 1..Len(seq) : v = seq[j]
    BY DEF N!Items
  <2>2. \A v : v \in Vals(nodes', 0, Len(seq) - 1) <=> \E k \in 0..(Len(seq) - 1) : v = seq[k + 1]
    BY DEF Vals
  <2>3. ASSUME NEW j \in 1..Len(seq) PROVE j - 1 \in 0..(Len(seq) - 1) /\ j = (j - 1) + 1
    OBVIOUS
  <2>4. ASSUME NEW k \in 0..(Len(seq) - 1) PROVE k + 1 \in 1..Len(seq)
    OBVIOUS
  <2> QED
    BY <2>1, <2>2, <2>3, <2>4
<1>5. Rising(nodes', 0, Len(seq) - 1)
  BY DEF Rising
<1>6. members' \subseteq Int
  BY DEF N!Items
<1>7. SetTypes'
  BY <1>6 DEF SetTypes
<1> QED
  BY <1>4, <1>5, <1>7, OverKeeps

\* A set that was made holds what it was made from, in a block that is big enough.
LEMMA MadeKeeps ==
  ASSUME NEW room \in Nat, NEW seq, Len(seq) \in Nat, Len(seq) <= room,
         DOMAIN seq = 1..Len(seq), \A j \in 1..Len(seq) : seq[j] \in Int,
         Rising(seq, 1, Len(seq)), N!Made(room, seq), loop' = "none", beyond' = FALSE
  PROVE  SetInv'
<1>1. /\ alloc' = room /\ block' = room /\ nelem' = Len(seq) /\ members' = N!Items(seq)
      /\ nodes' = [k \in 0..(room - 1) |-> IF k < Len(seq) THEN seq[k + 1] ELSE -1]
  BY DEF N!Made, N!Room, N!Junk
<1>2. nodes' \in [0..(room - 1) -> Int]
  <2>1. \A k \in 0..(room - 1) : (IF k < Len(seq) THEN seq[k + 1] ELSE -1) \in Int
    OBVIOUS
  <2> QED
    BY <1>1, <2>1
<1>3. \A k \in 0..(Len(seq) - 1) : nodes'[k] = seq[k + 1]
  BY <1>1
<1> QED
  BY <1>1, <1>2, <1>3, FilledKeeps

\* The calls that make a set: alloc, init_1, init_2, init_copy.
LEMMA MakeKeeps == ASSUME SetInv, N!Make PROVE SetInv'
<1>1. beyond' = FALSE /\ loop' = "none"
  BY DEF N!Make, SetInv, SetTypes
<1>2. \A e \in Nodes : e \in Nat
  BY StoreAssumption DEF N!NodeAssumption
<1>3. ASSUME NEW room \in Nodes, N!Made(room, << >>) PROVE SetInv'
  <2>1. PICK seq : seq = << >>
    OBVIOUS
  <2>2. /\ Len(seq) \in Nat /\ Len(seq) = 0 /\ DOMAIN seq = 1..Len(seq) /\ (\A j \in 1..Len(seq) : seq[j] \in Int)
        /\ Rising(seq, 1, Len(seq))
    BY <2>1 DEF Rising
  <2>3. N!Made(room, seq) /\ room \in Nat /\ Len(seq) <= room
    BY <1>2, <1>3, <2>1, <2>2
  <2> QED
    BY <1>1, <2>2, <2>3, MadeKeeps
<1>4. ASSUME NEW e \in Nodes, N!Made(1, <<e>>) PROVE SetInv'
  <2>1. PICK seq : seq = <<e>>
    OBVIOUS
  <2>2. /\ Len(seq) \in Nat /\ Len(seq) <= 1 /\ 1 \in Nat /\ DOMAIN seq = 1..Len(seq) /\ (\A j \in 1..Len(seq) : seq[j] \in Int)
        /\ Rising(seq, 1, Len(seq))
    BY <1>2, <2>1 DEF Rising
  <2>3. N!Made(1, seq)
    BY <1>4, <2>1
  <2> QED
    BY <1>1, <2>2, <2>3, MadeKeeps
<1>5. ASSUME NEW seq, seq \in Sources, N!Made(Len(seq), seq) PROVE SetInv'
  <2>1. /\ Len(seq) \in Nat /\ DOMAIN seq = 1..Len(seq) /\ (\A j \in 1..Len(seq) : seq[j] \in Int)
        /\ Rising(seq, 1, Len(seq)) /\ Len(seq) <= Len(seq)
    BY <1>5, SourcesAre
  <2> QED
    BY <1>1, <1>5, <2>1, MadeKeeps
<1>6. ASSUME NEW e1 \in Nodes, NEW e2 \in Nodes,
             N!Made(2, IF e1 = e2 THEN <<e1>> ELSE IF e1 < e2 THEN <<e1, e2>> ELSE <<e2, e1>>)
      PROVE  SetInv'
  <2> DEFINE seq == IF e1 = e2 THEN <<e1>> ELSE IF e1 < e2 THEN <<e1, e2>> ELSE <<e2, e1>>
  <2>1. /\ Len(seq) \in Nat /\ Len(seq) <= 2 /\ DOMAIN seq = 1..Len(seq)
        /\ (\A j \in 1..Len(seq) : seq[j] \in Int) /\ Rising(seq, 1, Len(seq))
    <3>1. CASE e1 = e2
      BY <1>2, <3>1 DEF Rising
    <3>2. CASE e1 # e2 /\ e1 < e2
      BY <1>2, <3>2 DEF Rising
    <3>3. CASE e1 # e2 /\ ~(e1 < e2)
      BY <1>2, <3>3 DEF Rising
    <3> QED
      BY <3>1, <3>2, <3>3
  <2>2. N!Made(2, seq)
    BY <1>6
  <2> HIDE DEF seq
  <2> QED
    BY <1>1, <2>1, <2>2, MadeKeeps
<1> QED
  BY <1>3, <1>4, <1>5, <1>6 DEF N!Make

\* The answer was taken.
LEMMA AnsweredKeeps == ASSUME SetInv, N!Answered PROVE SetInv'
<1>1. /\ loop = "found" /\ loop' = "none" /\ beyond' = beyond
      /\ nodes' = nodes /\ alloc' = alloc /\ nelem' = nelem /\ block' = block /\ members' = members
  BY DEF N!Answered, N!Return, N!array
<1>2. SetTypes'
  BY <1>1 DEF SetInv, SetTypes
<1>3. Rising(nodes', 0, nelem' - 1) /\ members' = Vals(nodes', 0, nelem' - 1)
  BY <1>1 DEF SetInv, Whole
<1> QED
  BY <1>1, <1>2, <1>3, OverKeeps

\* remove_at: the elements behind are one place down.
LEMMA RemoveKeeps == ASSUME SetInv, N!RemoveElem PROVE SetInv'
<1>1. /\ loop = "found" /\ found - 1 >= 0 /\ loop' = "none" /\ beyond' = beyond
      /\ nelem' = nelem - 1 /\ alloc' = alloc /\ block' = block /\ members' = members \ {elem}
  BY DEF N!RemoveElem, N!Return
<1>2. /\ found \in 1..nelem /\ nodes[found - 1] = elem /\ elem \in members
      /\ Rising(nodes, 0, nelem - 1) /\ members = Vals(nodes, 0, nelem - 1)
  BY <1>1 DEF SetInv, Searching, Whole
<1>3. /\ nelem \in Nat /\ block \in Nat /\ alloc \in Nat /\ nelem <= block /\ members \subseteq Int
      /\ beyond = FALSE /\ \A k \in 0..(block - 1) : nodes[k] \in Int
  BY DEF SetInv, SetTypes
<1>0. PICK from, next, count, last, shifted :
         /\ from = found - 1 /\ next = from + 1 /\ count = nelem - (found - 1) - 1 /\ last = nelem - 1
         /\ shifted = N!Copied(from, nodes, next, count)
  OBVIOUS
<1>4. nodes' = N!Block(shifted, last, block)
  BY <1>0 DEF N!RemoveElem
<1>5. /\ \A k \in 0..(found - 2) : shifted[k] = nodes[k]
      /\ \A k \in (found - 1)..(nelem - 2) : shifted[k] = nodes[k + 1]
  <2>1. from \in Nat /\ count \in Nat /\ from + count <= block /\ next \in Int
        /\ from = found - 1 /\ next = from + 1 /\ from + count = nelem - 1
    BY <1>0, <1>2, <1>3
  <2>2. \A k \in next..(next + count - 1) : nodes[k] \in Int
    BY <1>2, <1>3, <2>1
  <2>3. SetTypes
    BY DEF SetInv
  <2>4. /\ \A k \in from..(from + count - 1) : shifted[k] = nodes[next + k - from]
        /\ \A k \in 0..(block - 1) : k < from \/ k >= from + count => shifted[k] = nodes[k]
    <3>1. from \in Nat /\ count \in Nat /\ from + count <= block /\ next \in Int
      BY <2>1
    <3>2. /\ \A k \in from..(from + count - 1) :
                N!Copied(from, nodes, next, count)[k] = nodes[next + k - from]
          /\ \A k \in 0..(block - 1) :
                k < from \/ k >= from + count => N!Copied(from, nodes, next, count)[k] = nodes[k]
      BY ONLY <3>1, <2>2, <2>3, CopiedBlock
    <3> QED
      BY <1>0, <3>2
  <2>5. ASSUME NEW k \in 0..(found - 2) PROVE shifted[k] = nodes[k]
    BY <1>2, <1>3, <2>1, <2>4
  <2>6. ASSUME NEW k \in (found - 1)..(nelem - 2) PROVE shifted[k] = nodes[k + 1]
    <3>1. next + k - from = k + 1 /\ k \in from..(from + count - 1)
      BY <1>2, <1>3, <2>1
    <3> QED
      BY <2>4, <3>1
  <2> QED
    BY <2>5, <2>6
<1>6. \A k \in 0..(nelem - 2) : shifted[k] \in Int
  <2>1. ASSUME NEW k \in 0..(nelem - 2) PROVE shifted[k] \in Int
    <3>1. CASE k <= found - 2
      BY <1>2, <1>3, <1>5, <3>1
    <3>2. CASE k > found - 2
      BY <1>2, <1>3, <1>5, <3>2
    <3> QED
      BY <1>2, <1>3, <3>1, <3>2
  <2> QED
    BY <2>1
<1>7. nodes' \in [0..(block - 1) -> Int] /\ \A k \in 0..(nelem - 2) : nodes'[k] = shifted[k]
  <2>1. last \in Nat /\ block \in Nat /\ last <= block /\ last - 1 = nelem - 2
    BY <1>0, <1>2, <1>3
  <2>2. \A k \in 0..(last - 1) : shifted[k] \in Int
    BY <1>6, <2>1
  <2>3. /\ N!Block(shifted, last, block) \in [0..(block - 1) -> Int]
        /\ \A k \in 0..(last - 1) : N!Block(shifted, last, block)[k] = shifted[k]
    BY ONLY <2>1, <2>2, BlockIs
  <2> QED
    BY <1>4, <2>1, <2>3
<1>8. /\ \A k \in 0..(found - 2) : nodes'[k] = nodes[k]
      /\ \A k \in (found - 1)..(nelem - 2) : nodes'[k] = nodes[k + 1]
  <2>1. (0..(found - 2)) \subseteq 0..(nelem - 2) /\ ((found - 1)..(nelem - 2)) \subseteq 0..(nelem - 2)
    BY <1>2, <1>3
  <2> QED
    BY <1>5, <1>7, <2>1
<1>9. Rising(nodes', 0, nelem - 2)
  <2> SUFFICES ASSUME NEW k \in 0..(nelem - 2), NEW l \in 0..(nelem - 2), k < l
               PROVE  nodes'[k] < nodes'[l]
    BY DEF Rising
  <2>0. \A p, q \in 0..(nelem - 1) : p < q => nodes[p] < nodes[q]
    BY <1>2 DEF Rising
  <2>1. CASE l <= found - 2
    BY <1>2, <1>3, <1>8, <2>0, <2>1
  <2>2. CASE k <= found - 2 /\ l > found - 2
    BY <1>2, <1>3, <1>8, <2>0, <2>2
  <2>3. CASE k > found - 2
    BY <1>2, <1>3, <1>8, <2>0, <2>3
  <2> QED
    BY <1>2, <1>3, <2>1, <2>2, <2>3
<1>10. members' = Vals(nodes', 0, nelem - 2)
  <2>0. \A p, q \in 0..(nelem - 1) : p < q => nodes[p] < nodes[q]
    BY <1>2 DEF Rising
  <2>1. ASSUME NEW k \in 0..(nelem - 2) PROVE nodes'[k] \in members'
    <3>1. CASE k <= found - 2
      <4>1. nodes'[k] = nodes[k] /\ k \in 0..(nelem - 1) /\ nodes[k] < nodes[found - 1]
        BY <1>2, <1>3, <1>8, <2>0, <3>1
      <4>2. nodes[k] \in members /\ nodes[k] # elem
        BY <1>2, <1>3, <4>1 DEF Vals
      <4> QED
        BY <1>1, <4>1, <4>2
    <3>2. CASE k > found - 2
      <4>1. nodes'[k] = nodes[k + 1] /\ k + 1 \in 0..(nelem - 1) /\ nodes[found - 1] < nodes[k + 1]
        BY <1>2, <1>3, <1>8, <2>0, <3>2
      <4>2. nodes[k + 1] \in members /\ nodes[k + 1] # elem
        BY <1>2, <1>3, <4>1 DEF Vals
      <4> QED
        BY <1>1, <4>1, <4>2
    <3> QED
      BY <1>2, <1>3, <3>1, <3>2
  <2>2. ASSUME NEW v \in members' PROVE v \in Vals(nodes', 0, nelem - 2)
    <3>1. PICK p \in 0..(nelem - 1) : v = nodes[p]
      BY <1>1, <1>2 DEF Vals
    <3>2. p # found - 1
      BY <1>1, <1>2, <3>1
    <3>3. CASE p < found - 1
      <4>1. p \in 0..(nelem - 2) /\ nodes'[p] = v
        BY <1>2, <1>3, <1>8, <3>1, <3>3
      <4> QED
        BY <4>1 DEF Vals
    <3>4. CASE p > found - 1
      <4>1. p - 1 \in 0..(nelem - 2) /\ nodes'[p - 1] = v
        BY <1>2, <1>3, <1>8, <3>1, <3>4
      <4> QED
        BY <4>1 DEF Vals
    <3> QED
      BY <1>2, <1>3, <3>2, <3>3, <3>4
  <2> QED
    BY <2>1, <2>2 DEF Vals
<1>11. nelem' - 1 = nelem - 2 /\ nelem' \in Nat /\ nelem' <= block
  BY <1>1, <1>2, <1>3
<1>12. SetTypes'
  BY <1>1, <1>3, <1>7, <1>11 DEF SetTypes
<1> QED
  BY <1>1, <1>9, <1>10, <1>11, <1>12, OverKeeps

--------------------------------------------------------------------------------
(* Node sets: search, insertion.                                           *)

\* The types, by name.
LEMMA SetNumbers == SetInv => /\ alloc \in Nat /\ block \in Nat /\ nelem \in Nat /\ nelem <= block
                              /\ members \subseteq Int /\ beyond = FALSE
                              /\ nodes \in [0..(block - 1) -> Int]
                              /\ \A k \in 0..(block - 1) : nodes[k] \in Int
BY DEF SetInv, SetTypes

\* contains: the binary search begins with all elements, none of them outside.
LEMMA ContainsBeginKeeps == ASSUME SetInv, N!ContainsBegin PROVE SetInv'
<1>1. /\ loop = "none" /\ elem' \in Nodes /\ beyond' = beyond
      /\ nodes' = nodes /\ alloc' = alloc /\ nelem' = nelem /\ block' = block /\ members' = members
      /\ \/ nelem > 0 /\ loop' = "contains" /\ idx' = 0 /\ right' = nelem - 1
         \/ nelem = 0 /\ loop' = "found" /\ found' = 0
  BY DEF N!ContainsBegin, N!Usable, N!array
<1>2. Rising(nodes, 0, nelem - 1) /\ members = Vals(nodes, 0, nelem - 1) /\ nelem \in Nat
  BY <1>1, SetNumbers DEF SetInv, Whole
<1>3. elem' \in Int
  BY <1>1, StoreAssumption DEF N!NodeAssumption
<1>4. SetTypes'
  BY <1>1 DEF SetInv, SetTypes
<1>5. CASE nelem > 0 /\ loop' = "contains" /\ idx' = 0 /\ right' = nelem - 1
  <2>1. /\ idx' \in Nat /\ right' \in Nat /\ idx' <= right' /\ right' < nelem
        /\ \A k \in 0..(nelem - 1) : idx' <= k /\ k <= right'
    BY <1>2, <1>5
  <2> QED
    BY <1>1, <1>2, <1>3, <1>4, <1>5, <2>1
    DEF SetInv, Whole, Searching, Inserting, Uniting, Merging, Sharing, Sliding
<1>6. CASE nelem = 0 /\ loop' = "found" /\ found' = 0
  <2>1. elem' \notin members
    BY <1>2, <1>6 DEF Vals
  <2> QED
    BY <1>1, <1>2, <1>3, <1>4, <1>6, <2>1
    DEF SetInv, Whole, Searching, Inserting, Uniting, Merging, Sharing, Sliding
<1> QED
  BY <1>1, <1>5, <1>6

\* A round of the binary search: what was asked for is still between left and right.
LEMMA ContainsStepKeeps == ASSUME SetInv, N!ContainsStep PROVE SetInv'
<1>1. PICK mid : mid = (idx + right) \div 2
  OBVIOUS
<1>2. /\ loop = "contains" /\ idx < right /\ loop' = loop /\ elem' = elem /\ beyond' = beyond
      /\ nodes' = nodes /\ alloc' = alloc /\ nelem' = nelem /\ block' = block /\ members' = members
      /\ \/ nodes[mid] < elem /\ idx' = mid + 1 /\ right' = right
         \/ nodes[mid] >= elem /\ right' = mid /\ idx' = idx
  BY <1>1 DEF N!ContainsStep, N!array
<1>3. /\ elem \in Int /\ idx \in Nat /\ right \in Nat /\ idx <= right /\ right < nelem
      /\ \A k \in 0..(nelem - 1) : nodes[k] = elem => idx <= k /\ k <= right
      /\ Rising(nodes, 0, nelem - 1) /\ members = Vals(nodes, 0, nelem - 1)
  BY <1>2 DEF SetInv, Searching, Whole
<1>4. mid \in Nat /\ idx <= mid /\ mid < right
  BY <1>1, <1>2, <1>3
<1>5. nelem \in Nat /\ nelem <= block /\ \A k \in 0..(nelem - 1) : nodes[k] \in Int
  BY SetNumbers
<1>6. \A k \in 0..(nelem - 1) : nodes'[k] = elem => idx' <= k /\ k <= right'
  <2> SUFFICES ASSUME NEW k \in 0..(nelem - 1), nodes[k] = elem PROVE idx' <= k /\ k <= right'
    BY <1>2
  <2>1. idx <= k /\ k <= right
    BY <1>3
  <2>2. mid \in 0..(nelem - 1) /\ nodes[mid] \in Int /\ nodes[k] \in Int
    BY <1>3, <1>4, <1>5
  <2>3. (k < mid => nodes[k] < nodes[mid]) /\ (mid < k => nodes[mid] < nodes[k])
    BY <1>3, <2>2 DEF Rising
  <2>4. CASE nodes[mid] < elem /\ idx' = mid + 1 /\ right' = right
    <3>1. mid < k
      BY <1>3, <1>4, <2>2, <2>3, <2>4
    <3> QED
      BY <1>4, <2>1, <2>4, <3>1
  <2>5. CASE nodes[mid] >= elem /\ right' = mid /\ idx' = idx
    <3>1. k <= mid
      BY <1>3, <1>4, <2>2, <2>3, <2>5
    <3> QED
      BY <1>4, <2>1, <2>5, <3>1
  <2> QED
    BY <1>2, <2>4, <2>5
<1>7. idx' \in Nat /\ right' \in Nat /\ idx' <= right' /\ right' < nelem
  <2>1. CASE idx' = mid + 1 /\ right' = right
    BY <1>3, <1>4, <2>1
  <2>2. CASE right' = mid /\ idx' = idx
    <3>1. mid < nelem
      BY <1>3, <1>4, <1>5
    <3> QED
      BY <1>3, <1>4, <2>2, <3>1
  <2> QED
    BY <1>2, <2>1, <2>2
<1>8. SetTypes'
  BY <1>2 DEF SetInv, SetTypes
<1> QED
  BY <1>2, <1>3, <1>6, <1>7, <1>8
  DEF SetInv, Whole, Searching, Inserting, Uniting, Merging, Sharing, Sliding

\* The search is over: what was asked for is at left, or nowhere.
LEMMA ContainsEndKeeps == ASSUME SetInv, N!ContainsEnd PROVE SetInv'
<1>1. /\ loop = "contains" /\ idx >= right /\ loop' = "found" /\ elem' = elem /\ beyond' = beyond
      /\ nodes' = nodes /\ alloc' = alloc /\ nelem' = nelem /\ block' = block /\ members' = members
      /\ found' = IF nodes[idx] = elem THEN idx + 1 ELSE 0
  BY DEF N!ContainsEnd, N!array
<1>2. /\ elem \in Int /\ idx \in Nat /\ right \in Nat /\ idx <= right /\ right < nelem
      /\ \A k \in 0..(nelem - 1) : nodes[k] = elem => idx <= k /\ k <= right
      /\ Rising(nodes, 0, nelem - 1) /\ members = Vals(nodes, 0, nelem - 1)
  BY <1>1 DEF SetInv, Searching, Whole
<1>3. idx = right /\ nelem \in Nat /\ idx \in 0..(nelem - 1)
  BY <1>1, <1>2, SetNumbers
<1>4. elem \in members <=> nodes[idx] = elem
  <2>1. ASSUME elem \in members PROVE nodes[idx] = elem
    <3>1. PICK k \in 0..(nelem - 1) : nodes[k] = elem
      BY <1>2, <2>1 DEF Vals
    <3>2. k = idx
      BY <1>2, <1>3, <3>1
    <3> QED
      BY <3>1, <3>2
  <2>2. ASSUME nodes[idx] = elem PROVE elem \in members
    BY <1>2, <1>3, <2>2 DEF Vals
  <2> QED
    BY <2>1, <2>2
<1>5. IF elem \in members THEN found' \in 1..nelem /\ nodes[found' - 1] = elem ELSE found' = 0
  BY <1>1, <1>3, <1>4
<1>6. SetTypes'
  BY <1>1 DEF SetInv, SetTypes
<1> QED
  BY <1>1, <1>2, <1>5, <1>6
  DEF SetInv, Whole, Searching, Inserting, Uniting, Merging, Sharing, Sliding

\* The elements in a block of another size.
LEMMA Regrown ==
  ASSUME SetInv, loop = "none", NEW room \in Nat, nelem <= room
  PROVE  /\ N!Block(nodes, nelem, room) \in [0..(room - 1) -> Int]
         /\ \A k \in 0..(nelem - 1) : N!Block(nodes, nelem, room)[k] = nodes[k]
         /\ \A k \in 0..(nelem - 1) : nodes[k] \in Int
         /\ Rising(N!Block(nodes, nelem, room), 0, nelem - 1)
         /\ members = Vals(N!Block(nodes, nelem, room), 0, nelem - 1)
         /\ members \subseteq Int /\ nelem \in Nat /\ beyond = FALSE
<1>1. /\ Rising(nodes, 0, nelem - 1) /\ members = Vals(nodes, 0, nelem - 1)
  BY DEF SetInv, Whole
<1>2. /\ nelem \in Nat /\ \A k \in 0..(nelem - 1) : nodes[k] \in Int
      /\ members \subseteq Int /\ beyond = FALSE
  BY SetNumbers
<1>3. /\ N!Block(nodes, nelem, room) \in [0..(room - 1) -> Int]
      /\ \A k \in 0..(nelem - 1) : N!Block(nodes, nelem, room)[k] = nodes[k]
  BY <1>2, BlockIs
<1>4. /\ Rising(N!Block(nodes, nelem, room), 0, nelem - 1)
      /\ members = Vals(N!Block(nodes, nelem, room), 0, nelem - 1)
  <2>1. PICK g, last : g = N!Block(nodes, nelem, room) /\ last = nelem - 1
    OBVIOUS
  <2>2. \A k \in 0..last : g[k] = nodes[k]
    BY <1>3, <2>1
  <2>3. last \in Int /\ 0 \in Int
    BY <1>2, <2>1
  <2>4. /\ Vals(g, 0, last) = Vals(nodes, 0, last)
        /\ Rising(nodes, 0, last) => Rising(g, 0, last)
    BY ONLY <2>2, <2>3, SameItems
  <2> QED
    BY <1>1, <2>1, <2>4
<1> QED
  BY <1>2, <1>3, <1>4

\* The realloc that failed in insert and insert_last.
LEMMA BrokenKeeps ==
  ASSUME SetInv, NEW room \in Nat, N!Broken(room), loop = "none", loop' = loop, beyond' = beyond
  PROVE  SetInv'
<1>1. alloc' = room /\ nodes' = nodes /\ nelem' = nelem /\ block' = block /\ members' = members
  BY DEF N!Broken
<1>2. SetTypes'
  BY <1>1 DEF SetInv, SetTypes
<1>3. Rising(nodes', 0, nelem' - 1) /\ members' = Vals(nodes', 0, nelem' - 1)
  BY <1>1 DEF SetInv, Whole
<1> QED
  BY <1>2, <1>3, OverKeeps

\* A set with one element more, above the others.
LEMMA LastIsAdded ==
  ASSUME SetInv, loop = "none", NEW room \in Nat, nelem < room, NEW e \in Int,
         \A m \in members : m < e, alloc' = room, block' = room, nelem' = nelem + 1,
         members' = members \union {e}, nodes' = [N!Block(nodes, nelem, room) EXCEPT ![nelem] = e],
         loop' = "none", beyond' = FALSE
  PROVE  SetInv'
<1>1. PICK g, last : g = N!Block(nodes, nelem, room) /\ last = nelem - 1
  OBVIOUS
<1>2. /\ g \in [0..(room - 1) -> Int] /\ (\A k \in 0..last : g[k] = nodes[k])
      /\ Rising(g, 0, last) /\ members = Vals(g, 0, last) /\ members \subseteq Int
      /\ nelem \in Nat
  <2>1. nelem <= room
    BY SetNumbers
  <2>2. /\ N!Block(nodes, nelem, room) \in [0..(room - 1) -> Int]
        /\ \A k \in 0..(nelem - 1) : N!Block(nodes, nelem, room)[k] = nodes[k]
        /\ Rising(N!Block(nodes, nelem, room), 0, nelem - 1)
        /\ members = Vals(N!Block(nodes, nelem, room), 0, nelem - 1)
        /\ members \subseteq Int /\ nelem \in Nat
    BY <2>1, Regrown
  <2> QED
    BY <1>1, <2>2
<1>3. nodes' = [g EXCEPT ![nelem] = e] /\ last \in Int /\ nelem = last + 1 /\ 0 <= last + 1
  BY <1>1, <1>2
<1>4. /\ nodes' \in [0..(room - 1) -> Int] /\ nodes'[last + 1] = e
      /\ \A k \in 0..last : nodes'[k] = g[k]
  <2>1. last + 1 \in 0..(room - 1) /\ \A k \in 0..last : k \in 0..(room - 1) /\ k # last + 1
    BY <1>2, <1>3
  <2>2. nodes' = [g EXCEPT ![last + 1] = e]
    BY <1>3
  <2> QED
    BY ONLY <1>2, <2>1, <2>2, e \in Int
<1>5. PICK h : h = nodes'
  OBVIOUS
<1>6. Rising(h, 0, last) /\ Vals(h, 0, last) = members
  <2>1. 0 \in Int /\ last \in Int /\ \A k \in 0..last : h[k] = g[k]
    BY <1>3, <1>4, <1>5
  <2>2. Vals(h, 0, last) = Vals(g, 0, last) /\ (Rising(g, 0, last) => Rising(h, 0, last))
    BY ONLY <2>1, SameItems
  <2> QED
    BY <1>2, <2>2
<1>7. \A k \in 0..last : h[k] < h[last + 1]
  BY <1>4, <1>5, <1>6 DEF Vals
<1>8. \A k \in 0..(last + 1) : h[k] \in Int
  BY <1>2, <1>3, <1>4, <1>5
<1>9. Rising(h, 0, last + 1) /\ Vals(h, 0, last + 1) = Vals(h, 0, last) \union {h[last + 1]}
  BY <1>3, <1>6, <1>7, <1>8, ItemAbove
<1>10. nelem' - 1 = last + 1
  BY <1>3
<1>11. SetTypes'
  BY <1>2, <1>4 DEF SetTypes
<1> QED
  BY <1>4, <1>5, <1>6, <1>9, <1>10, <1>11, OverKeeps

\* insert_last: the caller promises that it is above the others.
LEMMA InsertLastKeeps == ASSUME SetInv, N!InsertLast PROVE SetInv'
<1>1. PICK e, room :
         /\ e \in Nodes
         /\ room = IF alloc = nelem THEN (alloc + 1) * 2 ELSE alloc
         /\ N!Usable /\ \A m \in members : m < e
         /\ \/ /\ N!Room(room) /\ nelem' = nelem + 1 /\ members' = members \union {e}
               /\ nodes' = [N!Block(nodes, nelem, room) EXCEPT ![nelem] = e]
               /\ beyond' = (beyond \/ nelem >= room)
            \/ room > alloc /\ N!Broken(room) /\ beyond' = beyond
         /\ loop' = loop
  BY DEF N!InsertLast
<1>2. loop = "none" /\ alloc = block /\ alloc \in Nat /\ nelem \in Nat /\ nelem <= block /\ beyond = FALSE
  BY <1>1, SetNumbers DEF N!Usable
<1>3. room \in Nat /\ nelem < room
  BY <1>1, <1>2
<1>4. e \in Int
  BY <1>1, StoreAssumption DEF N!NodeAssumption
<1>5. CASE N!Room(room) /\ nelem' = nelem + 1 /\ members' = members \union {e}
           /\ nodes' = [N!Block(nodes, nelem, room) EXCEPT ![nelem] = e]
           /\ beyond' = (beyond \/ nelem >= room)
  <2>1. alloc' = room /\ block' = room /\ beyond' = FALSE /\ loop' = "none"
    <3>1. alloc' = room /\ block' = room
      BY <1>5 DEF N!Room
    <3>2. ~(nelem >= room)
      BY <1>2, <1>3
    <3> QED
      BY <1>1, <1>2, <1>5, <3>1, <3>2
  <2> QED
    BY <1>1, <1>2, <1>3, <1>4, <1>5, <2>1, LastIsAdded
<1>6. CASE N!Broken(room) /\ beyond' = beyond
  BY <1>1, <1>2, <1>3, <1>6, BrokenKeeps
<1> QED
  BY <1>1, <1>5, <1>6

\* insert: an empty set, a new first element, or a place to look for.
LEMMA InsertBeginKeeps == ASSUME SetInv, N!InsertBegin PROVE SetInv'
<1>1. PICK e, room :
         /\ e \in Nodes /\ e \notin members
         /\ room = IF alloc = 0 THEN 1 ELSE IF alloc = nelem THEN alloc * 2 ELSE alloc
         /\ N!Usable
         /\ \/ /\ N!Room(room) /\ members' = members \union {e}
               /\ \/ /\ nelem = 0 /\ nelem' = 1 /\ loop' = loop
                     /\ nodes' = [N!Block(nodes, nelem, room) EXCEPT ![nelem] = e]
                  \/ /\ nelem > 0 /\ nodes' = N!Block(nodes, nelem, room) /\ nelem' = nelem
                     /\ loop' = "insert" /\ elem' = e /\ idx' = nelem
            \/ room > alloc /\ N!Broken(room) /\ loop' = loop
         /\ beyond' = beyond
  BY DEF N!InsertBegin
<1>2. loop = "none" /\ alloc = block /\ alloc \in Nat /\ nelem \in Nat /\ nelem <= block /\ beyond = FALSE
  BY <1>1, SetNumbers DEF N!Usable
<1>3. room \in Nat /\ nelem < room
  BY <1>1, <1>2
<1>4. e \in Int /\ e \notin members
  BY <1>1, StoreAssumption DEF N!NodeAssumption
<1>5. CASE /\ N!Room(room) /\ members' = members \union {e} /\ nelem = 0 /\ nelem' = 1 /\ loop' = loop
           /\ nodes' = [N!Block(nodes, nelem, room) EXCEPT ![nelem] = e]
  <2>1. alloc' = room /\ block' = room /\ beyond' = FALSE /\ loop' = "none" /\ nelem' = nelem + 1
    BY <1>1, <1>2, <1>5 DEF N!Room
  <2>2. members = {}
    BY <1>2, <1>5 DEF SetInv, Whole, Vals
  <2> QED
    BY <1>1, <1>2, <1>3, <1>4, <1>5, <2>1, <2>2, LastIsAdded
<1>6. CASE /\ N!Room(room) /\ members' = members \union {e} /\ nelem > 0
           /\ nodes' = N!Block(nodes, nelem, room) /\ nelem' = nelem
           /\ loop' = "insert" /\ elem' = e /\ idx' = nelem
  <2>0. nelem <= room
    BY <1>2, <1>3
  <2>1. /\ nodes' \in [0..(room - 1) -> Int] /\ Rising(nodes', 0, nelem - 1)
        /\ members = Vals(nodes', 0, nelem - 1) /\ members \subseteq Int
    BY <1>2, <1>3, <1>6, <2>0, Regrown
  <2>2. /\ alloc' = room /\ block' = room /\ beyond' = FALSE
    BY <1>1, <1>2, <1>6 DEF N!Room
  <2>3. SetTypes'
    BY <1>2, <1>3, <1>4, <1>6, <2>1, <2>2 DEF SetTypes
  <2>4. (nelem + 1)..nelem = {}
    BY <1>2
  <2>5. Vals(nodes', nelem + 1, nelem) = {} /\ Rising(nodes', nelem + 1, nelem)
    BY <2>4 DEF Vals, Rising
  <2>6. \A k \in 0..(nelem - 1) : nodes'[k] # e
    BY <1>4, <2>1 DEF Vals
  <2>7. Inserting'
    BY <1>2, <1>3, <1>4, <1>6, <2>1, <2>2, <2>4, <2>5, <2>6 DEF Inserting
  <2> QED
    BY <1>6, <2>3, <2>7 DEF SetInv, Whole, Searching, Uniting, Merging, Sharing, Sliding
<1>7. CASE N!Broken(room) /\ loop' = loop
  BY <1>1, <1>2, <1>3, <1>7, BrokenKeeps
<1> QED
  BY <1>1, <1>5, <1>6, <1>7

\* A larger element moves up by one.
LEMMA InsertShiftKeeps == ASSUME SetInv, N!InsertShift PROVE SetInv'
<1>1. /\ loop = "insert" /\ N!MovesUp /\ N!Put(idx, nodes[idx - 1]) /\ idx' = idx - 1
      /\ alloc' = alloc /\ nelem' = nelem /\ block' = block /\ members' = members /\ loop' = loop
      /\ elem' = elem
  BY DEF N!InsertShift
<1>2. /\ elem \in Int /\ idx \in Nat /\ nelem >= 1 /\ idx <= nelem /\ nelem < block
      /\ Rising(nodes, 0, idx - 1) /\ Rising(nodes, idx + 1, nelem)
      /\ \A k \in 0..(idx - 1) : nodes[k] # elem /\ \A l \in (idx + 1)..nelem : nodes[k] < nodes[l]
      /\ \A l \in (idx + 1)..nelem : elem < nodes[l]
      /\ idx < nelem => elem < nodes[idx]
      /\ members = Vals(nodes, 0, idx - 1) \union Vals(nodes, idx + 1, nelem) \union {elem}
  BY <1>1 DEF SetInv, Inserting
<1>3. nelem \in Nat /\ block \in Nat /\ \A k \in 0..(block - 1) : nodes[k] \in Int
  BY SetNumbers
<1>4. idx > 0 /\ elem < nodes[idx - 1]
  <2>1. CASE elem < nodes[0]
    <3>1. idx > 0
      BY <1>1, <2>1 DEF N!MovesUp
    <3>2. idx - 1 = 0 \/ nodes[0] < nodes[idx - 1]
      BY <1>2, <3>1 DEF Rising
    <3>3. nodes[0] \in Int /\ nodes[idx - 1] \in Int
      BY <1>2, <1>3, <3>1
    <3> QED
      BY <1>2, <2>1, <3>1, <3>2, <3>3
  <2>2. CASE ~(elem < nodes[0])
    <3>1. nodes[idx - 1] > elem
      BY <1>1, <2>2 DEF N!MovesUp
    <3>2. idx > 0
      <4> SUFFICES ASSUME idx = 0 PROVE FALSE
        BY <1>2
      <4>1. idx < nelem
        BY <1>2, <1>3
      <4>2. elem < nodes[idx]
        BY <1>2, <4>1
      <4> QED
        BY <2>2, <4>2
    <3>3. nodes[idx - 1] \in Int
      BY <1>2, <1>3, <3>2
    <3> QED
      BY <1>2, <3>1, <3>2, <3>3
  <2> QED
    BY <2>1, <2>2
<1>5. PICK p : p = idx - 1
  OBVIOUS
<1>6. p \in Nat /\ idx = p + 1 /\ idx' = p /\ p + 1 \in 0..(block - 1) /\ p \in 0..(block - 1)
  BY <1>1, <1>2, <1>3, <1>4, <1>5
<1>7. /\ nodes' \in [0..(block' - 1) -> Int] /\ beyond' = FALSE /\ nodes'[p + 1] = nodes[p]
      /\ \A k \in 0..(block - 1) : k # p + 1 => nodes'[k] = nodes[k]
  <2>1. SetTypes
    BY DEF SetInv
  <2>2. N!Put(p + 1, nodes[p]) /\ nodes[p] \in Int
    BY <1>1, <1>3, <1>5, <1>6
  <2>3. PICK to, value : to = p + 1 /\ value = nodes[p]
    OBVIOUS
  <2>4. to \in 0..(block - 1) /\ value \in Int /\ N!Put(to, value)
    BY <1>6, <2>2, <2>3
  <2>5. /\ nodes' \in [0..(block' - 1) -> Int] /\ beyond' = FALSE /\ nodes'[to] = value
        /\ \A k \in 0..(block - 1) : k # to => nodes'[k] = nodes[k]
    BY <1>1, <2>1, <2>4, PutIs
  <2> QED
    BY <2>3, <2>5
<1>8. PICK h : h = nodes'
  OBVIOUS
<1>9. /\ \A k \in 0..p : h[k] = nodes[k]
      /\ \A k \in (p + 2)..nelem : h[k] = nodes[k]
      /\ h[p + 1] = nodes[p]
      /\ \A k \in 0..nelem : h[k] \in Int /\ nodes[k] \in Int
  BY <1>2, <1>3, <1>6, <1>7, <1>8
<1>10. /\ Rising(nodes, 0, p) /\ Rising(nodes, p + 2, nelem) /\ elem < nodes[p]
       /\ \A k \in 0..p : nodes[k] # elem /\ \A l \in (p + 2)..nelem : nodes[k] < nodes[l]
       /\ \A l \in (p + 2)..nelem : elem < nodes[l]
       /\ members = Vals(nodes, 0, p) \union Vals(nodes, p + 2, nelem) \union {elem}
  <2>1. idx - 1 = p /\ idx + 1 = p + 2
    BY <1>6
  <2> QED
    BY <1>2, <1>4, <2>1
<1>11. /\ Rising(nodes, 0, p - 1) /\ Vals(nodes, 0, p) = Vals(nodes, 0, p - 1) \union {nodes[p]}
       /\ \A k \in 0..(p - 1) : nodes[k] < nodes[p]
  <2>1. 0 \in Int /\ p \in Int /\ 0 <= p /\ \A k \in 0..p : nodes[k] \in Int
    BY <1>2, <1>3, <1>6
  <2> QED
    BY <1>10, <2>1, ItemApart
<1>12. Rising(h, 0, p - 1) /\ Vals(h, 0, p - 1) = Vals(nodes, 0, p - 1)
  <2>1. PICK q : q = p - 1
    OBVIOUS
  <2>2. q \in Int /\ \A k \in 0..q : h[k] = nodes[k]
    BY <1>6, <1>9, <2>1
  <2> QED
    BY <1>11, <2>1, <2>2, SameItems
<1>13. Rising(h, p + 2, nelem) /\ Vals(h, p + 2, nelem) = Vals(nodes, p + 2, nelem)
  <2>1. PICK q : q = p + 2
    OBVIOUS
  <2>2. q \in Int /\ nelem \in Int /\ \A k \in q..nelem : h[k] = nodes[k]
    BY <1>3, <1>6, <1>9, <2>1
  <2> QED
    BY <1>10, <2>1, <2>2, SameItems
<1>14. /\ Rising(h, p + 1, nelem)
       /\ Vals(h, p + 1, nelem) = Vals(h, p + 2, nelem) \union {nodes[p]}
  <2>1. PICK q : q = p + 2
    OBVIOUS
  <2>2. /\ q \in Int /\ nelem \in Int /\ q - 1 <= nelem /\ q - 1 = p + 1
        /\ \A k \in (q - 1)..nelem : h[k] \in Int
    BY <1>2, <1>3, <1>6, <1>9, <2>1
  <2>3. \A k \in q..nelem : h[q - 1] < h[k]
    <3> SUFFICES ASSUME NEW k \in q..nelem PROVE h[q - 1] < h[k]
      OBVIOUS
    <3>1. h[q - 1] = nodes[p] /\ h[k] = nodes[k]
      BY <1>9, <2>1, <2>2
    <3>2. nodes[p] < nodes[k]
      BY <1>6, <1>10, <2>1
    <3> QED
      BY <3>1, <3>2
  <2>4. Rising(h, q, nelem)
    BY <1>13, <2>1
  <2>5. /\ Rising(h, q - 1, nelem)
        /\ Vals(h, q - 1, nelem) = Vals(h, q, nelem) \union {h[q - 1]}
    BY <2>2, <2>3, <2>4, ItemBelow
  <2> QED
    BY <1>9, <2>1, <2>2, <2>5
<1>15. /\ \A k \in 0..(p - 1) : h[k] # elem /\ \A l \in (p + 1)..nelem : h[k] < h[l]
       /\ \A l \in (p + 1)..nelem : elem < h[l]
       /\ elem < h[p]
  <2>1. ASSUME NEW l \in (p + 1)..nelem
        PROVE  elem < h[l] /\ \A k \in 0..(p - 1) : h[k] < h[l]
    <3>0. \A k \in 0..(p - 1) : h[k] = nodes[k] /\ k \in 0..p
      BY <1>6, <1>9
    <3>1. CASE l = p + 1
      BY <1>9, <1>10, <1>11, <3>0, <3>1
    <3>2. CASE l # p + 1
      <4>1. l \in (p + 2)..nelem
        BY <1>6, <3>2
      <4>2. h[l] = nodes[l]
        BY <1>9, <4>1
      <4> QED
        BY <1>10, <3>0, <4>1, <4>2
    <3> QED
      BY <3>1, <3>2
  <2>2. ASSUME NEW k \in 0..(p - 1) PROVE h[k] # elem
    BY <1>6, <1>9, <1>10
  <2>3. elem < h[p]
    BY <1>6, <1>9, <1>10
  <2> QED
    BY <2>1, <2>2, <2>3
<1>16. members = Vals(h, 0, p - 1) \union Vals(h, p + 1, nelem) \union {elem}
  BY <1>10, <1>11, <1>12, <1>13, <1>14
<1>17. SetTypes'
  BY <1>1, <1>7 DEF SetInv, SetTypes
<1>18. Inserting'
  <2>1. p <= nelem /\ p \in Nat
    BY <1>2, <1>3, <1>6
  <2> QED
    BY <1>1, <1>2, <1>6, <1>8, <1>12, <1>14, <1>15, <1>16, <2>1 DEF Inserting
<1> QED
  BY <1>1, <1>17, <1>18 DEF SetInv, Whole, Searching, Uniting, Merging, Sharing, Sliding

\* The place is free and the element goes there.
LEMMA InsertEndKeeps == ASSUME SetInv, N!InsertEnd PROVE SetInv'
<1>1. /\ loop = "insert" /\ ~N!MovesUp /\ N!Put(idx, elem) /\ nelem' = nelem + 1
      /\ alloc' = alloc /\ block' = block /\ members' = members /\ loop' = "none"
  BY DEF N!InsertEnd, N!Return
<1>2. /\ elem \in Int /\ idx \in Nat /\ nelem >= 1 /\ idx <= nelem /\ nelem < block
      /\ Rising(nodes, 0, idx - 1) /\ Rising(nodes, idx + 1, nelem)
      /\ \A k \in 0..(idx - 1) : nodes[k] # elem /\ \A l \in (idx + 1)..nelem : nodes[k] < nodes[l]
      /\ \A l \in (idx + 1)..nelem : elem < nodes[l]
      /\ idx < nelem => elem < nodes[idx]
      /\ members = Vals(nodes, 0, idx - 1) \union Vals(nodes, idx + 1, nelem) \union {elem}
  BY <1>1 DEF SetInv, Inserting
<1>3. nelem \in Nat /\ block \in Nat /\ \A k \in 0..(block - 1) : nodes[k] \in Int
  BY SetNumbers
<1>4. \A k \in 0..(idx - 1) : nodes[k] < elem
  <2> SUFFICES ASSUME NEW k \in 0..(idx - 1) PROVE nodes[k] < elem
    OBVIOUS
  <2>0. k \in 0..(block - 1) /\ idx - 1 \in 0..(block - 1) /\ idx > 0
    BY <1>2, <1>3
  <2>1. ~(elem < nodes[0]) /\ ~(nodes[idx - 1] > elem)
    BY <1>1, <2>0 DEF N!MovesUp
  <2>2. nodes[idx - 1] \in Int /\ nodes[k] \in Int /\ nodes[k] # elem
    BY <1>2, <1>3, <2>0
  <2>3. k = idx - 1 \/ nodes[k] < nodes[idx - 1]
    BY <1>2 DEF Rising
  <2> QED
    BY <1>2, <2>1, <2>2, <2>3
<1>5. idx \in 0..(block - 1)
  BY <1>2, <1>3
<1>6. /\ nodes' \in [0..(block' - 1) -> Int] /\ beyond' = FALSE /\ nodes'[idx] = elem
      /\ \A k \in 0..(block - 1) : k # idx => nodes'[k] = nodes[k]
  <2>1. SetTypes
    BY DEF SetInv
  <2> QED
    BY <1>1, <1>2, <1>5, <2>1, PutIs
<1>7. PICK h : h = nodes'
  OBVIOUS
<1>8. /\ \A k \in 0..(idx - 1) : h[k] = nodes[k] /\ h[k] < elem
      /\ \A k \in (idx + 1)..nelem : h[k] = nodes[k] /\ elem < h[k]
      /\ h[idx] = elem
  BY <1>2, <1>3, <1>4, <1>6, <1>7
<1>9. Rising(h, 0, nelem)
  <2> SUFFICES ASSUME NEW k \in 0..nelem, NEW l \in 0..nelem, k < l PROVE h[k] < h[l]
    BY DEF Rising
  <2>1. CASE l < idx
    <3>1. k \in 0..(idx - 1) /\ l \in 0..(idx - 1)
      BY <1>2, <1>3, <2>1
    <3> QED
      BY <1>2, <1>8, <3>1 DEF Rising
  <2>2. CASE l = idx
    BY <1>2, <1>8, <2>2
  <2>3. CASE l > idx /\ k < idx
    <3>1. k \in 0..(idx - 1) /\ l \in (idx + 1)..nelem
      BY <1>2, <1>3, <2>3
    <3> QED
      BY <1>2, <1>8, <3>1
  <2>4. CASE l > idx /\ k = idx
    BY <1>2, <1>8, <2>4
  <2>5. CASE k > idx
    <3>1. k \in (idx + 1)..nelem /\ l \in (idx + 1)..nelem
      BY <1>2, <1>3, <2>5
    <3> QED
      BY <1>2, <1>8, <3>1 DEF Rising
  <2> QED
    BY <1>2, <2>1, <2>2, <2>3, <2>4, <2>5
<1>10. members = Vals(h, 0, nelem)
  <2>1. 0..nelem = (0..(idx - 1)) \union {idx} \union ((idx + 1)..nelem)
    BY <1>2, <1>3
  <2>2. Vals(h, 0, nelem) = Vals(h, 0, idx - 1) \union {elem} \union Vals(h, idx + 1, nelem)
    BY <1>8, <2>1 DEF Vals
  <2>3. Vals(h, 0, idx - 1) = Vals(nodes, 0, idx - 1) /\ Vals(h, idx + 1, nelem) = Vals(nodes, idx + 1, nelem)
    BY <1>8 DEF Vals
  <2> QED
    BY <1>2, <2>2, <2>3
<1>11. nelem' - 1 = nelem /\ nelem' \in Nat /\ nelem' <= block
  BY <1>1, <1>2, <1>3
<1>12. SetTypes'
  BY <1>1, <1>6, <1>11 DEF SetInv, SetTypes
<1> QED
  BY <1>1, <1>7, <1>9, <1>10, <1>11, <1>12, OverKeeps

--------------------------------------------------------------------------------
(* Node sets: union.                                                       *)

\* init_union: the new set is empty, nothing was passed.
LEMMA UnionBeginKeeps == ASSUME SetInv, N!UnionBegin PROVE SetInv'
<1>1. PICK seq1 \in Sources, seq2 \in Sources :
         /\ N!Room(Len(seq1) + Len(seq2))
         /\ nodes' = N!Block(<< >>, 0, Len(seq1) + Len(seq2)) /\ nelem' = 0
         /\ members' = N!Items(seq1) \union N!Items(seq2)
         /\ loop' = "union" /\ src1' = seq1 /\ src2' = seq2
         /\ i1' = 0 /\ i2' = 0 /\ id' = 0 /\ beyond' = beyond
  BY DEF N!UnionBegin
<1>2. /\ Len(seq1) \in Nat /\ N!Items(seq1) = Vals(seq1, 1, Len(seq1))
      /\ Len(seq2) \in Nat /\ N!Items(seq2) = Vals(seq2, 1, Len(seq2))
      /\ \A j \in 1..Len(seq1) : seq1[j] \in Int
      /\ \A j \in 1..Len(seq2) : seq2[j] \in Int
  BY SourcesAre
<1>3. PICK room : room = Len(seq1) + Len(seq2)
  OBVIOUS
<1>4. room \in Nat /\ alloc' = room /\ block' = room /\ beyond' = FALSE
  BY <1>1, <1>2, <1>3, SetNumbers DEF N!Room
<1>5. nodes' \in [0..(room - 1) -> Int]
  <2>1. 0 \in Nat /\ 0 <= room /\ \A k \in 0..(0 - 1) : << >>[k] \in Int
    BY <1>4
  <2>2. N!Block(<< >>, 0, room) \in [0..(room - 1) -> Int]
    BY ONLY <1>4, <2>1, BlockIs
  <2> QED
    BY <1>1, <1>3, <2>2
<1>6. members' \subseteq Int
  BY <1>1, <1>2 DEF Vals
<1>7. SetTypes'
  BY <1>1, <1>4, <1>5, <1>6 DEF SetTypes
<1>8. /\ Rising(nodes', 0, 0 - 1) /\ Vals(nodes', 0, 0 - 1) = {}
      /\ Vals(seq1, 1, 0) = {} /\ Vals(seq2, 1, 0) = {}
  BY DEF Rising, Vals
<1>9. Uniting'
  <2>1. 0 \in 0..Len(seq1) /\ 0 \in 0..Len(seq2) /\ 0 \in 0..(0 + 0) /\ 0..(0 - 1) = {}
    BY <1>2
  <2> QED
    BY <1>1, <1>2, <1>3, <1>4, <1>8, <2>1 DEF Uniting
<1> QED
  BY <1>1, <1>7, <1>9 DEF SetInv, Whole, Searching, Inserting, Merging, Sharing, Sliding

\* The items passed and the others.
LEMMA ItemsSplit ==
  ASSUME NEW f, NEW first \in Int, NEW middle \in Int, NEW last \in Int,
         first <= middle + 1, middle <= last
  PROVE  Vals(f, first, last) = Vals(f, first, middle) \union Vals(f, middle + 1, last)
<1>1. first..last = (first..middle) \union ((middle + 1)..last)
  OBVIOUS
<1> QED
  BY <1>1 DEF Vals

\* The smaller item goes to the new set; of two equal ones, one.
LEMMA UnionItemKeeps == ASSUME SetInv, N!UnionItem PROVE SetInv'
<1> DEFINE n1 == Len(src1)
           n2 == Len(src2)
<1>1. /\ loop = "union" /\ i1 < n1 /\ i2 < n2 /\ id' = id + 1
      /\ alloc' = alloc /\ nelem' = nelem /\ block' = block /\ members' = members /\ loop' = loop
      /\ src1' = src1 /\ src2' = src2
  BY DEF N!UnionItem, N!operands
<1>2. PICK v :
         /\ N!Put(id, v)
         /\ \/ /\ src1[i1 + 1] > src2[i2 + 1] /\ v = src2[i2 + 1] /\ i2' = i2 + 1 /\ i1' = i1
            \/ /\ src1[i1 + 1] <= src2[i2 + 1] /\ v = src1[i1 + 1] /\ i1' = i1 + 1
               /\ i2' = IF src1[i1 + 1] = src2[i2 + 1] THEN i2 + 1 ELSE i2
  BY DEF N!UnionItem
<1>3. /\ src1 \in Sources /\ src2 \in Sources /\ block = n1 + n2 /\ nelem = 0
      /\ i1 \in 0..n1 /\ i2 \in 0..n2 /\ id \in 0..(i1 + i2)
      /\ Rising(nodes, 0, id - 1)
      /\ Vals(nodes, 0, id - 1) = Vals(src1, 1, i1) \union Vals(src2, 1, i2)
      /\ \A k \in 0..(id - 1) : /\ \A j \in (i1 + 1)..n1 : nodes[k] < src1[j]
                                /\ \A j \in (i2 + 1)..n2 : nodes[k] < src2[j]
      /\ members = Vals(src1, 1, n1) \union Vals(src2, 1, n2)
  BY <1>1 DEF SetInv, Uniting
<1>4. /\ n1 \in Nat /\ (\A j \in 1..n1 : src1[j] \in Int) /\ Rising(src1, 1, n1)
      /\ n2 \in Nat /\ (\A j \in 1..n2 : src2[j] \in Int) /\ Rising(src2, 1, n2)
  BY <1>3, SourcesAre
<1> HIDE DEF n1, n2
<1>5. PICK a, b : a = src1[i1 + 1] /\ b = src2[i2 + 1]
  OBVIOUS
<1>6. /\ i1 + 1 \in 1..n1 /\ i2 + 1 \in 1..n2 /\ a \in Int /\ b \in Int
      /\ i1 \in Nat /\ i2 \in Nat /\ id \in Nat /\ id \in 0..(block - 1) /\ block \in Nat
  BY <1>1, <1>3, <1>4, <1>5
<1>7. /\ \/ b < a /\ v = b /\ i2' = i2 + 1 /\ i1' = i1
         \/ a < b /\ v = a /\ i1' = i1 + 1 /\ i2' = i2
         \/ a = b /\ v = a /\ i1' = i1 + 1 /\ i2' = i2 + 1
      /\ v \in Int
  BY <1>2, <1>5, <1>6
<1>8. /\ nodes' \in [0..(block' - 1) -> Int] /\ beyond' = FALSE /\ nodes'[id] = v
      /\ \A k \in 0..(block - 1) : k # id => nodes'[k] = nodes[k]
  <2>1. SetTypes
    BY DEF SetInv
  <2> QED
    BY <1>1, <1>2, <1>6, <1>7, <2>1, PutIs
<1>9. PICK h, p : h = nodes' /\ p = id - 1
  OBVIOUS
<1>10. /\ p \in Int /\ id = p + 1 /\ 0 <= p + 1 /\ h[p + 1] = v
       /\ (\A k \in 0..p : h[k] = nodes[k]) /\ \A k \in 0..(p + 1) : h[k] \in Int
  BY <1>1, <1>6, <1>8, <1>9
<1>11. /\ Rising(nodes, 0, p) /\ Vals(nodes, 0, p) = Vals(src1, 1, i1) \union Vals(src2, 1, i2)
       /\ \A k \in 0..p : /\ \A j \in (i1 + 1)..n1 : nodes[k] < src1[j]
                          /\ \A j \in (i2 + 1)..n2 : nodes[k] < src2[j]
  BY <1>3, <1>9
<1>12. Rising(h, 0, p) /\ Vals(h, 0, p) = Vals(nodes, 0, p)
  BY <1>10, <1>11, SameItems
<1>13. \A k \in 0..p : h[k] < h[p + 1]
  <2>1. i1 + 1 \in (i1 + 1)..n1 /\ i2 + 1 \in (i2 + 1)..n2
    BY <1>6
  <2>2. \A k \in 0..p : nodes[k] < a /\ nodes[k] < b
    BY <1>5, <1>11, <2>1
  <2> QED
    BY <1>7, <1>10, <2>2
<1>14. Rising(h, 0, p + 1) /\ Vals(h, 0, p + 1) = Vals(h, 0, p) \union {v}
  BY <1>10, <1>12, <1>13, ItemAbove
<1>15. /\ Vals(src1, 1, i1 + 1) = Vals(src1, 1, i1) \union {a}
       /\ Vals(src2, 1, i2 + 1) = Vals(src2, 1, i2) \union {b}
  <2>1. 1..(i1 + 1) = (1..i1) \union {i1 + 1} /\ 1..(i2 + 1) = (1..i2) \union {i2 + 1}
    BY <1>6
  <2> QED
    BY <1>5, <2>1 DEF Vals
<1>16. Vals(h, 0, p + 1) = Vals(src1, 1, i1') \union Vals(src2, 1, i2')
  <2>1. CASE v = b /\ i2' = i2 + 1 /\ i1' = i1
    BY <1>11, <1>12, <1>14, <1>15, <2>1
  <2>2. CASE v = a /\ i1' = i1 + 1 /\ i2' = i2
    BY <1>11, <1>12, <1>14, <1>15, <2>2
  <2>3. CASE a = b /\ v = a /\ i1' = i1 + 1 /\ i2' = i2 + 1
    BY <1>11, <1>12, <1>14, <1>15, <2>3
  <2> QED
    BY <1>7, <2>1, <2>2, <2>3
<1>17. /\ \A j \in (i1 + 2)..n1 : a < src1[j] /\ src1[j] \in Int
       /\ \A j \in (i2 + 2)..n2 : b < src2[j] /\ src2[j] \in Int
  BY <1>4, <1>5, <1>6 DEF Rising
<1>18. /\ \A j \in (i1' + 1)..n1 : v < src1[j]
       /\ \A j \in (i2' + 1)..n2 : v < src2[j]
  <2>1. /\ \A j \in (i1 + 1)..n1 : j = i1 + 1 \/ j \in (i1 + 2)..n1
        /\ \A j \in (i2 + 1)..n2 : j = i2 + 1 \/ j \in (i2 + 2)..n2
        /\ (i1 + 1) + 1 = i1 + 2 /\ (i2 + 1) + 1 = i2 + 2
    BY <1>6
  <2>2. CASE b < a /\ v = b /\ i2' = i2 + 1 /\ i1' = i1
    BY <1>5, <1>6, <1>17, <2>1, <2>2
  <2>3. CASE a < b /\ v = a /\ i1' = i1 + 1 /\ i2' = i2
    BY <1>5, <1>6, <1>17, <2>1, <2>3
  <2>4. CASE a = b /\ v = a /\ i1' = i1 + 1 /\ i2' = i2 + 1
    BY <1>5, <1>6, <1>17, <2>1, <2>4
  <2> QED
    BY <1>7, <2>2, <2>3, <2>4
<1>19. \A k \in 0..(p + 1) : /\ \A j \in (i1' + 1)..n1 : h[k] < src1[j]
                             /\ \A j \in (i2' + 1)..n2 : h[k] < src2[j]
  <2> SUFFICES ASSUME NEW k \in 0..(p + 1)
               PROVE  /\ \A j \in (i1' + 1)..n1 : h[k] < src1[j]
                      /\ \A j \in (i2' + 1)..n2 : h[k] < src2[j]
    OBVIOUS
  <2>1. CASE k = p + 1
    BY <1>10, <1>18, <2>1
  <2>2. CASE k # p + 1
    <3>1. k \in 0..p /\ h[k] = nodes[k]
      BY <1>10, <2>2
    <3>2. ((i1' + 1)..n1) \subseteq (i1 + 1)..n1 /\ ((i2' + 1)..n2) \subseteq (i2 + 1)..n2
      BY <1>4, <1>6, <1>7
    <3> QED
      BY <1>11, <3>1, <3>2
  <2> QED
    BY <2>1, <2>2
<1>20. /\ i1' \in 0..n1 /\ i2' \in 0..n2 /\ id' \in 0..(i1' + i2') /\ id' - 1 = p + 1
  BY <1>1, <1>3, <1>4, <1>6, <1>7, <1>10
<1>21. SetTypes'
  BY <1>1, <1>8 DEF SetInv, SetTypes
<1>22. Uniting'
  BY <1>1, <1>3, <1>9, <1>14, <1>16, <1>19, <1>20 DEF Uniting, n1, n2
<1> QED
  BY <1>1, <1>21, <1>22 DEF SetInv, Whole, Searching, Inserting, Merging, Sharing, Sliding

\* The rest of one set behind smaller items.
Continues(f, h, seq, below, next, n, last) ==
    /\ below \in Int /\ below >= -1 /\ next \in Nat /\ n \in Nat
    /\ 1 <= next /\ next <= n + 1 /\ last \in Int /\ last = below + (n - next) + 1
    /\ \A k \in 0..below : h[k] = f[k]
    /\ \A k \in (below + 1)..last : h[k] = seq[next + k - (below + 1)]
    /\ Rising(f, 0, below) /\ Rising(seq, 1, n)
    /\ \A k \in 0..below, j \in next..n : f[k] < seq[j]

\* All of it is in order, and both parts are there.
LEMMA RestAppended ==
  ASSUME NEW f, NEW h, NEW seq, NEW below, NEW next, NEW n, NEW last,
         Continues(f, h, seq, below, next, n, last)
  PROVE  /\ Rising(h, 0, last)
         /\ Vals(h, 0, last) = Vals(f, 0, below) \union Vals(seq, next, n)
<1>1. PICK p : p = below + 1
  OBVIOUS
<1> USE DEF Continues
<1>2. /\ p \in Nat /\ p <= last + 1 /\ last = p + (n - next) /\ below = p - 1
      /\ \A k \in p..last : h[k] = seq[next + k - p]
  BY <1>1
<1>3. \A k \in p..last : next + k - p \in next..n /\ h[k] = seq[next + k - p]
  BY <1>2
<1>4. Rising(h, 0, last)
  <2> SUFFICES ASSUME NEW k \in 0..last, NEW l \in 0..last, k < l PROVE h[k] < h[l]
    BY DEF Rising
  <2>1. CASE l < p
    <3>1. k \in 0..below /\ l \in 0..below
      BY <1>2, <2>1
    <3> QED
      BY <3>1 DEF Rising
  <2>2. CASE k < p /\ l >= p
    <3>1. k \in 0..below /\ l \in p..last
      BY <1>2, <2>2
    <3> QED
      BY <1>3, <3>1
  <2>3. CASE k >= p
    <3>1. k \in p..last /\ l \in p..last
      BY <1>2, <2>3
    <3>2. PICK x, y : x = next + k - p /\ y = next + l - p
      OBVIOUS
    <3>3. x \in 1..n /\ y \in 1..n /\ x < y /\ h[k] = seq[x] /\ h[l] = seq[y]
      BY <1>2, <1>3, <3>1, <3>2
    <3> QED
      BY <3>3 DEF Rising
  <2> QED
    BY <1>2, <2>1, <2>2, <2>3
<1>5. Vals(h, 0, last) = Vals(f, 0, below) \union Vals(seq, next, n)
  <2>1. ASSUME NEW k \in 0..last PROVE h[k] \in Vals(f, 0, below) \union Vals(seq, next, n)
    <3>1. CASE k < p
      <4>1. k \in 0..below /\ h[k] = f[k]
        BY <1>2, <3>1
      <4> QED
        BY <4>1 DEF Vals
    <3>2. CASE k >= p
      <4>1. k \in p..last
        BY <1>2, <3>2
      <4> QED
        BY <1>3, <4>1 DEF Vals
    <3> QED
      BY <1>2, <3>1, <3>2
  <2>2. ASSUME NEW k \in 0..below PROVE f[k] \in Vals(h, 0, last)
    <3>1. k \in 0..last /\ h[k] = f[k]
      BY <1>2
    <3> QED
      BY <3>1 DEF Vals
  <2>3. ASSUME NEW j \in next..n PROVE seq[j] \in Vals(h, 0, last)
    <3>1. PICK k : k = p + j - next
      OBVIOUS
    <3>2. k \in p..last /\ k \in 0..last /\ next + k - p = j
      BY <1>2, <3>1
    <3> QED
      BY <1>3, <3>2 DEF Vals
  <2> QED
    BY <2>1, <2>2, <2>3 DEF Vals
<1> QED
  BY <1>4, <1>5

\* What is left of one set follows.
LEMMA UnionRestKeeps == ASSUME SetInv, N!UnionRest PROVE SetInv'
<1> DEFINE n1 == Len(src1)
           n2 == Len(src2)
<1>1. /\ loop = "union" /\ loop' = "none" /\ alloc' = alloc /\ block' = block /\ members' = members
      /\ \/ /\ i1 < n1 /\ i2 >= n2
            /\ nodes' = N!Copied(id, src1, i1 + 1, n1 - i1) /\ nelem' = id + n1 - i1
         \/ /\ i1 >= n1
            /\ nodes' = N!Copied(id, src2, i2 + 1, n2 - i2) /\ nelem' = id + n2 - i2
      /\ beyond' = (beyond \/ N!Outside(id, nelem' - id))
  BY DEF N!UnionRest, N!Return
<1>3. /\ src1 \in Sources /\ src2 \in Sources /\ block = n1 + n2 /\ nelem = 0
      /\ i1 \in 0..n1 /\ i2 \in 0..n2 /\ id \in 0..(i1 + i2)
      /\ Rising(nodes, 0, id - 1)
      /\ Vals(nodes, 0, id - 1) = Vals(src1, 1, i1) \union Vals(src2, 1, i2)
      /\ \A k \in 0..(id - 1) : /\ \A j \in (i1 + 1)..n1 : nodes[k] < src1[j]
                                /\ \A j \in (i2 + 1)..n2 : nodes[k] < src2[j]
      /\ members = Vals(src1, 1, n1) \union Vals(src2, 1, n2)
  BY <1>1 DEF SetInv, Uniting
<1>4. /\ n1 \in Nat /\ (\A j \in 1..n1 : src1[j] \in Int) /\ Rising(src1, 1, n1)
      /\ n2 \in Nat /\ (\A j \in 1..n2 : src2[j] \in Int) /\ Rising(src2, 1, n2)
  BY <1>3, SourcesAre
<1> HIDE DEF n1, n2
<1>5. SetTypes
  BY DEF SetInv
<1>6. ASSUME NEW seq, NEW i \in Nat, NEW n \in Nat, i <= n, id + (n - i) <= block,
             \A j \in 1..n : seq[j] \in Int, Rising(seq, 1, n),
             \A k \in 0..(id - 1), j \in (i + 1)..n : nodes[k] < seq[j],
             nodes' = N!Copied(id, seq, i + 1, n - i), nelem' = id + n - i,
             members = Vals(nodes, 0, id - 1) \union Vals(seq, i + 1, n)
      PROVE  SetInv'
  <2>1. PICK first, count : first = i + 1 /\ count = n - i
    OBVIOUS
  <2>2. /\ first \in Int /\ count \in Nat /\ id \in Nat /\ id + count <= block /\ nelem' = id + count
        /\ nelem' \in Nat /\ nelem' <= block /\ block \in Nat
    BY <1>3, <1>4, <1>6, <2>1
  <2>3. \A k \in first..(first + count - 1) : seq[k] \in Int
    BY <1>6, <2>1
  <2>4. /\ N!Copied(id, seq, first, count) \in [0..(block - 1) -> Int]
        /\ \A k \in id..(id + count - 1) : N!Copied(id, seq, first, count)[k] = seq[first + k - id]
        /\ \A k \in 0..(block - 1) :
              k < id \/ k >= id + count => N!Copied(id, seq, first, count)[k] = nodes[k]
    BY ONLY <1>5, <2>2, <2>3, CopiedBlock
  <2>5. PICK h : h = nodes'
    OBVIOUS
  <2>6. h \in [0..(block - 1) -> Int]
    BY <1>6, <2>1, <2>4, <2>5
  <2>7. \A k \in 0..(id - 1) : h[k] = nodes[k]
    BY <1>6, <2>1, <2>2, <2>4, <2>5
  <2>8. \A k \in id..(id + (n - i) - 1) : h[k] = seq[(i + 1) + k - id]
    BY <1>6, <2>1, <2>4, <2>5
  <2>9. /\ Rising(h, 0, id + (n - i) - 1)
        /\ Vals(h, 0, id + (n - i) - 1) = Vals(nodes, 0, id - 1) \union Vals(seq, i + 1, n)
    <3>1. PICK below, last : below = id - 1 /\ last = id + (n - i) - 1
      OBVIOUS
    <3>2. /\ below \in Int /\ below >= -1 /\ first \in Nat /\ n \in Nat /\ 1 <= first
          /\ first <= n + 1 /\ last \in Int /\ last = below + (n - first) + 1 /\ id = below + 1
      BY <1>6, <2>1, <2>2, <3>1
    <3>3. /\ Rising(nodes, 0, below) /\ Rising(seq, 1, n)
          /\ \A k \in 0..below : h[k] = nodes[k]
          /\ \A k \in (below + 1)..last : h[k] = seq[first + k - (below + 1)]
          /\ \A k \in 0..below, j \in first..n : nodes[k] < seq[j]
      BY <1>3, <1>6, <2>1, <2>7, <2>8, <3>1, <3>2
    <3>4. Rising(h, 0, last) /\ Vals(h, 0, last) = Vals(nodes, 0, below) \union Vals(seq, first, n)
      <4>1. Continues(nodes, h, seq, below, first, n, last)
        BY ONLY <3>2, <3>3 DEF Continues
      <4> QED
        BY ONLY <4>1, RestAppended
    <3> QED
      BY <2>1, <3>1, <3>4
  <2>10. beyond' = FALSE
    <3>1. ~N!Outside(id, nelem' - id)
      BY <2>2 DEF N!Outside
    <3> QED
      BY <1>1, <1>5, <3>1 DEF SetTypes
  <2>11. SetTypes'
    BY <1>1, <1>5, <2>2, <2>5, <2>6, <2>10 DEF SetTypes
  <2>12. id + (n - i) - 1 = nelem' - 1
    BY <2>1, <2>2
  <2> QED
    BY <1>1, <1>6, <2>5, <2>9, <2>11, <2>12, OverKeeps
<1>7. /\ Vals(src1, 1, n1) = Vals(src1, 1, i1) \union Vals(src1, i1 + 1, n1)
      /\ Vals(src2, 1, n2) = Vals(src2, 1, i2) \union Vals(src2, i2 + 1, n2)
  BY <1>3, <1>4, ItemsSplit
<1>8. CASE i1 < n1 /\ i2 >= n2 /\ nodes' = N!Copied(id, src1, i1 + 1, n1 - i1) /\ nelem' = id + n1 - i1
  <2>1. Vals(src2, i2 + 1, n2) = {}
    BY <1>3, <1>4, <1>8 DEF Vals
  <2>2. members = Vals(nodes, 0, id - 1) \union Vals(src1, i1 + 1, n1)
    BY <1>3, <1>7, <2>1
  <2>3. i1 \in Nat /\ i1 <= n1 /\ id + (n1 - i1) <= block
    BY <1>3, <1>4, <1>8
  <2> QED
    BY <1>3, <1>4, <1>6, <1>8, <2>2, <2>3
<1>9. CASE i1 >= n1 /\ nodes' = N!Copied(id, src2, i2 + 1, n2 - i2) /\ nelem' = id + n2 - i2
  <2>1. Vals(src1, i1 + 1, n1) = {}
    BY <1>3, <1>4, <1>9 DEF Vals
  <2>2. members = Vals(nodes, 0, id - 1) \union Vals(src2, i2 + 1, n2)
    BY <1>3, <1>7, <2>1
  <2>3. i2 \in Nat /\ i2 <= n2 /\ id + (n2 - i2) <= block
    BY <1>3, <1>4, <1>9
  <2> QED
    BY <1>3, <1>4, <1>6, <1>9, <2>2, <2>3
<1> QED
  BY <1>1, <1>8, <1>9

--------------------------------------------------------------------------------
(* Node sets: merge.                                                       *)

\* merge: room for both and for the workbench above.
LEMMA MergeBeginKeeps == ASSUME SetInv, N!MergeBegin PROVE SetInv'
<1>1. PICK src, count, room :
         /\ src \in Sources /\ src # << >> /\ count = Len(src)
         /\ room = IF alloc < 2 * count + nelem THEN 2 * (count + alloc) ELSE alloc
         /\ N!Usable
         /\ \/ /\ N!Room(room) /\ members' = members \union N!Items(src)
               /\ \/ /\ nelem = 0 /\ nelem' = count
                     /\ nodes' = [k \in 0..(room - 1) |-> IF k < Len(src) THEN src[k + 1] ELSE N!Junk]
                     /\ beyond' = (beyond \/ count > room) /\ loop' = loop
                  \/ /\ nelem > 0 /\ nodes' = N!Block(nodes, nelem, room)
                     /\ loop' = "merge" /\ src1' = src
                     /\ i1' = count - 1 /\ id' = nelem - 1 /\ sbase' = nelem + 2 * count
                     /\ nelem' = nelem /\ beyond' = beyond
            \/ UNCHANGED set
  BY DEF N!MergeBegin, N!Unchanged, N!nodeset, N!array, N!operands, N!scan, N!search, set
<1>2. /\ loop = "none" /\ alloc = block /\ alloc \in Nat /\ nelem \in Nat /\ nelem <= block
      /\ beyond = FALSE
  BY <1>1, SetNumbers DEF N!Usable
<1>3. /\ count \in Nat /\ count >= 1 /\ DOMAIN src = 1..count /\ (\A j \in 1..count : src[j] \in Int)
      /\ Rising(src, 1, count) /\ N!Items(src) = Vals(src, 1, count)
  BY <1>1, SourcesAre
<1>4. room \in Nat /\ nelem + 2 * count <= room /\ nelem <= room
  BY <1>1, <1>2, <1>3
<1>5. CASE /\ N!Room(room) /\ members' = members \union N!Items(src) /\ nelem = 0 /\ nelem' = count
           /\ nodes' = [k \in 0..(room - 1) |-> IF k < Len(src) THEN src[k + 1] ELSE N!Junk]
           /\ beyond' = (beyond \/ count > room) /\ loop' = loop
  <2>1. members = {}
    BY <1>2, <1>5 DEF SetInv, Whole, Vals
  <2>2. /\ alloc' = room /\ block' = room /\ nelem' = Len(src)
        /\ \A e : e \in members' <=> e \in N!Items(src)
    <3>1. members' = members \union N!Items(src) /\ nelem' = count
      BY <1>5
    <3>2. \A e : e \in members' <=> e \in N!Items(src)
      BY ONLY <2>1, <3>1
    <3>3. alloc' = room /\ block' = room
      BY <1>5 DEF N!Room
    <3>4. count = Len(src)
      BY <1>1
    <3> QED
      BY ONLY <3>1, <3>2, <3>3, <3>4
  <2>3. beyond' = FALSE /\ loop' = "none" /\ Len(src) <= room
    <3>1. count = Len(src) /\ count <= room
      BY <1>1, <1>2, <1>3, <1>4
    <3>2. beyond' = (beyond \/ count > room) /\ loop' = loop
      BY <1>5
    <3>3. ~(count > room)
      BY ONLY <1>3, <1>4, <3>1
    <3> QED
      BY ONLY <1>2, <3>1, <3>2, <3>3, Zenon
  <2> QED
    <3>1. \A k \in 0..(Len(src) - 1) : nodes'[k] = src[k + 1]
      BY <1>1, <1>3, <1>4, <1>5
    <3>2. nodes' \in [0..(room - 1) -> Int]
      <4>1. \A k \in 0..(room - 1) : (IF k < Len(src) THEN src[k + 1] ELSE N!Junk) \in Int
        BY <1>1, <1>3 DEF N!Junk
      <4> QED
        BY <1>5, <4>1
    <3> QED
      BY <1>1, <1>3, <1>4, <2>2, <2>3, <3>1, <3>2, FilledKeeps
<1>6. CASE /\ N!Room(room) /\ members' = members \union N!Items(src)
           /\ nelem > 0 /\ nodes' = N!Block(nodes, nelem, room)
           /\ loop' = "merge" /\ src1' = src
           /\ i1' = count - 1 /\ id' = nelem - 1 /\ sbase' = nelem + 2 * count
           /\ nelem' = nelem /\ beyond' = beyond
  <2>1. /\ nodes' \in [0..(room - 1) -> Int] /\ Rising(nodes', 0, nelem - 1)
        /\ members = Vals(nodes', 0, nelem - 1) /\ members \subseteq Int
    BY <1>2, <1>4, <1>6, Regrown
  <2>2. alloc' = room /\ block' = room /\ beyond' = FALSE
    BY <1>2, <1>6 DEF N!Room
  <2>3. members' \subseteq Int
    BY <1>3, <1>6, <2>1 DEF Vals
  <2>4. SetTypes'
    BY <1>2, <1>4, <1>6, <2>1, <2>2, <2>3 DEF SetTypes
  <2>5. PICK over : over = nelem + 2 * count
    OBVIOUS
  <2>6. /\ Rising(nodes', over, over - 1) /\ Vals(nodes', over, over - 1) = {}
        /\ Vals(src, count + 1, count) = {} /\ \A k \in nelem..(nelem - 1) : FALSE
    BY <1>2, <1>3, <2>5 DEF Rising, Vals
  <2>7. /\ over <= block' /\ nelem >= 1 /\ i1' \in -1..(count - 1) /\ id' \in -1..(nelem - 1)
        /\ over \in Int /\ over - over <= count - (i1' + 1) /\ i1' + 2 = count + 1 /\ id' + 1 = nelem
        /\ sbase' = over /\ nelem' = nelem /\ src1' = src /\ count = Len(src)
    BY <1>1, <1>2, <1>3, <1>4, <1>6, <2>2, <2>5
  <2>8. members' = Vals(nodes', 0, nelem - 1) \union Vals(src, 1, count)
    BY <1>3, <1>6, <2>1
  <2>9. Merging'
    <3>1. PICK h, all, own, a, d, b : /\ h = nodes' /\ all = members' /\ own = nelem /\ a = i1' /\ d = id'
                                    /\ b = block'
      OBVIOUS
    <3>2. /\ Rising(h, 0, own - 1) /\ src \in Sources /\ all = Vals(h, 0, own - 1) \union Vals(src, 1, count)
          /\ Rising(h, over, over - 1) /\ Vals(h, over, over - 1) = {} /\ Vals(src, count + 1, count) = {}
          /\ over = own + 2 * count /\ over <= b /\ own >= 1 /\ a = count - 1 /\ d = own - 1
          /\ own \in Nat /\ count \in Nat /\ count = Len(src) /\ count >= 1
      BY <1>1, <1>2, <1>3, <1>6, <2>1, <2>5, <2>6, <2>7, <2>8, <3>1
    <3>3. Merges(h, own, all, b, src, a, d, over)
      BY ONLY <3>2 DEF Merges
    <3>4. /\ h = nodes' /\ all = members' /\ own = nelem' /\ a = i1' /\ d = id' /\ b = block'
          /\ src = src1' /\ over = sbase'
      BY <2>7, <3>1
    <3> QED
      BY ONLY <3>3, <3>4 DEF Merging
  <2> QED
    BY <1>6, <2>4, <2>9 DEF SetInv, Whole, Searching, Inserting, Uniting, Sharing, Sliding
<1>7. CASE UNCHANGED set
  BY <1>7 DEF set, SetInv, SetTypes, Whole, Searching, Inserting, Uniting, Merging, Sharing,
              Sliding
<1> QED
  BY <1>1, <1>5, <1>6, <1>7

\* An item that goes to the workbench.
Laying(s, top, v) ==
    /\ s \in Int /\ top \in Int /\ nelem < s /\ s <= top /\ top <= block /\ v \in Int
    /\ N!Put(s - 1, v) /\ block' = block
    /\ Rising(nodes, 0, nelem - 1) /\ Rising(nodes, s, top - 1)
    /\ \A k \in s..(top - 1) : v < nodes[k]

\* The workbench has it on top of what was there, and the elements stay.
LEMMA ItemLaid ==
  ASSUME SetInv, NEW s, NEW t, NEW x, Laying(s, t, x)
  PROVE  /\ nodes' \in [0..(block' - 1) -> Int] /\ beyond' = FALSE
         /\ Rising(nodes', 0, nelem - 1) /\ Vals(nodes', 0, nelem - 1) = Vals(nodes, 0, nelem - 1)
         /\ \A k \in 0..(nelem - 1) : nodes'[k] = nodes[k]
         /\ Rising(nodes', s - 1, t - 1)
         /\ \A y : y \in Vals(nodes', s - 1, t - 1) <=> y \in Vals(nodes, s, t - 1) \/ y = x
<1> USE DEF Laying
<1>1. nelem \in Nat /\ block \in Nat /\ \A k \in 0..(block - 1) : nodes[k] \in Int
  BY SetNumbers
<1>2. PICK p, last, low : p = s - 1 /\ last = t - 1 /\ low = nelem - 1
  OBVIOUS
<1>3. /\ p \in 0..(block - 1) /\ p \in Int /\ s \in Int /\ last \in Int /\ low \in Int
      /\ low < p /\ s - 1 <= last /\ last <= block - 1 /\ p < s
  BY <1>1, <1>2
<1>4. /\ nodes' \in [0..(block' - 1) -> Int] /\ beyond' = FALSE /\ nodes'[p] = x
      /\ \A k \in 0..(block - 1) : k # p => nodes'[k] = nodes[k]
  <2>1. SetTypes
    BY DEF SetInv
  <2> QED
    BY <1>2, <1>3, <2>1, PutIs
<1>5. PICK h : h = nodes'
  OBVIOUS
<1>6. /\ \A k \in 0..low : h[k] = nodes[k]
      /\ \A k \in s..last : h[k] = nodes[k]
      /\ h[p] = x /\ \A k \in p..last : h[k] \in Int
  BY <1>1, <1>3, <1>4, <1>5
<1>7. Rising(nodes, 0, low) /\ Rising(nodes, s, last)
  BY <1>2
<1>8. Rising(h, 0, low) /\ Vals(h, 0, low) = Vals(nodes, 0, low)
  BY <1>3, <1>6, <1>7, SameItems
<1>9. Rising(h, s, last) /\ Vals(h, s, last) = Vals(nodes, s, last)
  <2>1. \A k \in s..last : h[k] = nodes[k]
    BY <1>6
  <2>2. s \in Int /\ last \in Int
    BY <1>3
  <2> QED
    BY ONLY <1>7, <2>1, <2>2, SameItems
<1>10. \A k \in s..last : h[s - 1] < h[k]
  BY <1>2, <1>6
<1>11. /\ Rising(h, s - 1, last)
       /\ Vals(h, s - 1, last) = Vals(h, s, last) \union {h[s - 1]}
  <2>1. \A k \in (s - 1)..last : h[k] \in Int
    BY <1>2, <1>6
  <2> QED
    BY <1>3, <1>9, <1>10, <2>1, ItemBelow
<1> QED
  BY <1>2, <1>4, <1>5, <1>6, <1>8, <1>9, <1>11

\* A round of merge: an item the elements lack goes to the workbench.
LEMMA MergeItemKeeps == ASSUME SetInv, N!MergeItem PROVE SetInv'
<1> DEFINE n == Len(src1)
<1>1. /\ loop = "merge" /\ i1 >= 0 /\ id >= 0
      /\ \/ /\ nodes[id] = src1[i1 + 1] /\ i1' = i1 - 1 /\ id' = id - 1
            /\ nodes' = nodes /\ beyond' = beyond /\ sbase' = sbase
         \/ /\ nodes[id] < src1[i1 + 1] /\ N!Put(sbase - 1, src1[i1 + 1])
            /\ sbase' = sbase - 1 /\ i1' = i1 - 1 /\ id' = id
         \/ /\ nodes[id] > src1[i1 + 1] /\ id' = id - 1
            /\ nodes' = nodes /\ beyond' = beyond /\ sbase' = sbase /\ i1' = i1
      /\ alloc' = alloc /\ nelem' = nelem /\ block' = block /\ members' = members /\ loop' = loop
      /\ src1' = src1
  BY DEF N!MergeItem, N!operands
<1>2. PICK top, low, a : top = nelem + 2 * n /\ low = nelem - 1 /\ a = i1 + 1
  OBVIOUS
<1>3. /\ src1 \in Sources /\ top <= block /\ nelem >= 1
      /\ i1 \in -1..(n - 1) /\ id \in -1..low
      /\ sbase \in Int /\ sbase <= top /\ top - sbase <= n - (i1 + 1)
      /\ Rising(nodes, 0, low) /\ Rising(nodes, sbase, top - 1)
      /\ Vals(nodes, sbase, top - 1) = Vals(src1, i1 + 2, n) \ Vals(nodes, 0, low)
      /\ \A k \in (id + 1)..low : \A j \in 1..(i1 + 1) : src1[j] < nodes[k]
      /\ members = Vals(nodes, 0, low) \union Vals(src1, 1, n)
  BY <1>1, <1>2 DEF SetInv, Merging, Merges
<1>4. n \in Nat /\ (\A j \in 1..n : src1[j] \in Int) /\ Rising(src1, 1, n)
  BY <1>3, SourcesAre
<1> HIDE DEF n
<1>5. /\ nelem \in Nat /\ block \in Nat /\ (\A k \in 0..(block - 1) : nodes[k] \in Int)
      /\ nelem <= block
  BY SetNumbers
<1>6. /\ a \in 1..n /\ i1 = a - 1 /\ i1 + 2 = a + 1 /\ id \in 0..low /\ low \in Nat /\ a \in Int
      /\ src1[a] \in Int /\ nodes[id] \in Int /\ low <= block - 1 /\ top \in Int /\ sbase \in Int
      /\ id <= low /\ 1 <= a /\ a <= n
  BY <1>1, <1>2, <1>3, <1>4, <1>5
<1>7. PICK v : v = src1[a]
  OBVIOUS
<1>8. /\ Vals(src1, a, n) = {v} \union Vals(src1, a + 1, n)
      /\ \A j \in (a + 1)..n : v < src1[j]
      /\ \A j \in 1..(a - 1) : src1[j] < v
  <2>1. a..n = {a} \union ((a + 1)..n)
    BY <1>4, <1>6
  <2>2. Vals(src1, a, n) = {v} \union Vals(src1, a + 1, n)
    BY <1>7, <2>1 DEF Vals
  <2> QED
    BY <1>4, <1>6, <1>7, <2>2 DEF Rising
<1>9. /\ \A k \in (id + 1)..low : nodes[id] < nodes[k]
      /\ \A k \in 0..(id - 1) : nodes[k] < nodes[id]
  BY <1>3, <1>6 DEF Rising
<1>10. /\ Vals(nodes, sbase, top - 1) = Vals(src1, a + 1, n) \ Vals(nodes, 0, low)
       /\ top - sbase <= n - a
       /\ \A k \in (id + 1)..low : \A j \in 1..a : src1[j] < nodes[k]
  BY <1>3, <1>6
<1>11. CASE /\ nodes[id] = v /\ i1' = i1 - 1 /\ id' = id - 1
            /\ nodes' = nodes /\ beyond' = beyond /\ sbase' = sbase
  <2>1. v \in Vals(nodes, 0, low)
    BY <1>6, <1>11 DEF Vals
  <2>2. Vals(nodes, sbase, top - 1) = Vals(src1, a, n) \ Vals(nodes, 0, low)
    BY <1>8, <1>10, <2>1
  <2>3. \A k \in id..low : \A j \in 1..(a - 1) : src1[j] < nodes[k]
    <3> SUFFICES ASSUME NEW k \in id..low, NEW j \in 1..(a - 1) PROVE src1[j] < nodes[k]
      OBVIOUS
    <3>1. CASE k = id
      BY <1>8, <1>11, <3>1
    <3>2. CASE k # id
      <4>1. k \in (id + 1)..low /\ j \in 1..a
        BY <1>6, <3>2
      <4> QED
        BY <1>10, <4>1
    <3> QED
      BY <3>1, <3>2
  <2>4. /\ i1' \in -1..(n - 1) /\ id' \in -1..low /\ top - sbase <= n - (i1' + 1)
        /\ i1' + 2 = a /\ i1' + 1 = a - 1 /\ id' + 1 = id
    BY <1>4, <1>6, <1>10, <1>11
  <2>5. Merging'
    BY <1>1, <1>2, <1>3, <1>11, <2>2, <2>3, <2>4 DEF Merging, Merges, n
  <2>6. SetTypes'
    BY <1>1, <1>11 DEF SetInv, SetTypes
  <2> QED
    BY <1>1, <2>5, <2>6 DEF SetInv, Whole, Searching, Inserting, Uniting, Sharing, Sliding
<1>12. CASE /\ nodes[id] > v /\ id' = id - 1
            /\ nodes' = nodes /\ beyond' = beyond /\ sbase' = sbase /\ i1' = i1
  <2>1. \A k \in id..low : \A j \in 1..a : src1[j] < nodes[k]
    <3> SUFFICES ASSUME NEW k \in id..low, NEW j \in 1..a PROVE src1[j] < nodes[k]
      OBVIOUS
    <3>1. CASE k = id
      <4>1. j = a \/ j \in 1..(a - 1)
        BY <1>6
      <4>2. src1[j] = v \/ src1[j] < v
        BY <1>7, <1>8, <4>1
      <4>3. src1[j] \in Int
        BY <1>4, <1>6
      <4> QED
        BY <1>6, <1>7, <1>12, <3>1, <4>2, <4>3
    <3>2. CASE k # id
      <4>1. k \in (id + 1)..low
        BY <1>6, <3>2
      <4> QED
        BY <1>10, <4>1
    <3> QED
      BY <3>1, <3>2
  <2>2. id' \in -1..low /\ id' + 1 = id /\ i1 + 1 = a
    BY <1>6, <1>12
  <2>3. Merging'
    BY <1>1, <1>2, <1>3, <1>12, <2>1, <2>2 DEF Merging, Merges, n
  <2>4. SetTypes'
    BY <1>1, <1>12 DEF SetInv, SetTypes
  <2> QED
    BY <1>1, <2>3, <2>4 DEF SetInv, Whole, Searching, Inserting, Uniting, Sharing, Sliding
<1>13. CASE nodes[id] < v /\ N!Put(sbase - 1, v) /\ sbase' = sbase - 1 /\ i1' = i1 - 1 /\ id' = id
  <2>1. nelem < sbase
    BY <1>2, <1>3, <1>4, <1>5, <1>6, <1>10
  <2>2. \A k \in sbase..(top - 1) : v < nodes[k]
    <3> SUFFICES ASSUME NEW k \in sbase..(top - 1) PROVE v < nodes[k]
      OBVIOUS
    <3>1. nodes[k] \in Vals(src1, a + 1, n)
      BY <1>10 DEF Vals
    <3> QED
      BY <1>8, <3>1 DEF Vals
  <2>3. v \in Int
    BY <1>6, <1>7
  <2>4. Rising(nodes, 0, nelem - 1)
    BY <1>2, <1>3
  <2>5. /\ nodes' \in [0..(block' - 1) -> Int] /\ beyond' = FALSE
        /\ Rising(nodes', 0, nelem - 1) /\ Vals(nodes', 0, nelem - 1) = Vals(nodes, 0, nelem - 1)
        /\ \A k \in 0..(nelem - 1) : nodes'[k] = nodes[k]
        /\ Rising(nodes', sbase - 1, top - 1)
        /\ Vals(nodes', sbase - 1, top - 1) = Vals(nodes, sbase, top - 1) \union {v}
    <3>1. Laying(sbase, top, v)
      <4>1. N!Put(sbase - 1, v) /\ block' = block
        BY <1>1, <1>13
      <4>2. sbase \in Int /\ top \in Int /\ sbase <= top /\ top <= block /\ Rising(nodes, sbase, top - 1)
        BY <1>3, <1>6
      <4> QED
        BY ONLY <4>1, <4>2, <2>1, <2>2, <2>3, <2>4 DEF Laying
    <3>2. SetInv
      OBVIOUS
    <3>3. PICK s : s = sbase
      OBVIOUS
    <3>4. Laying(s, top, v)
      BY <3>1, <3>3
    <3>5. /\ nodes' \in [0..(block' - 1) -> Int] /\ beyond' = FALSE
          /\ Rising(nodes', 0, nelem - 1) /\ Vals(nodes', 0, nelem - 1) = Vals(nodes, 0, nelem - 1)
          /\ \A k \in 0..(nelem - 1) : nodes'[k] = nodes[k]
          /\ Rising(nodes', s - 1, top - 1)
          /\ \A y : y \in Vals(nodes', s - 1, top - 1) <=> y \in Vals(nodes, s, top - 1) \/ y = v
      BY ONLY <3>2, <3>4, ItemLaid
    <3> QED
      BY ONLY <3>3, <3>5
  <2>6. v \notin Vals(nodes, 0, low)
    <3> SUFFICES ASSUME NEW k \in 0..low, nodes[k] = v PROVE FALSE
      BY DEF Vals
    <3>0. nodes[k] \in Int /\ v \in Int
      BY <1>5, <1>6, <2>3
    <3>1. CASE k <= id
      <4>1. k = id \/ nodes[k] < nodes[id]
        BY <1>6, <1>9, <3>1
      <4> QED
        BY <1>6, <1>13, <3>0, <4>1
    <3>2. CASE k > id
      <4>1. k \in (id + 1)..low /\ a \in 1..a
        BY <1>6, <3>2
      <4> QED
        BY <1>7, <1>10, <3>0, <4>1
    <3> QED
      BY <1>6, <3>1, <3>2
  <2>7. Vals(nodes', sbase - 1, top - 1) = Vals(src1, a, n) \ Vals(nodes, 0, low)
    BY <1>8, <1>10, <2>5, <2>6
  <2>8. \A k \in (id + 1)..low : \A j \in 1..(a - 1) : src1[j] < nodes'[k]
    <3> SUFFICES ASSUME NEW k \in (id + 1)..low, NEW j \in 1..(a - 1) PROVE src1[j] < nodes'[k]
      OBVIOUS
    <3>1. k \in 0..(nelem - 1) /\ j \in 1..a
      BY <1>2, <1>6
    <3> QED
      BY <1>10, <2>5, <3>1
  <2>9. /\ i1' \in -1..(n - 1) /\ top - (sbase - 1) <= n - (i1' + 1)
        /\ i1' + 2 = a /\ i1' + 1 = a - 1 /\ sbase - 1 \in Int /\ sbase - 1 <= top
    BY <1>3, <1>4, <1>6, <1>10, <1>13
  <2>10. Merging'
    BY <1>1, <1>2, <1>3, <1>13, <2>5, <2>7, <2>8, <2>9 DEF Merging, Merges, n
  <2>11. SetTypes'
    BY <1>1, <2>5 DEF SetInv, SetTypes
  <2> QED
    BY <1>1, <2>10, <2>11 DEF SetInv, Whole, Searching, Inserting, Uniting, Sharing, Sliding
<1> QED
  BY <1>1, <1>2, <1>7, <1>11, <1>12, <1>13

\* What is to slide down: the items from first to last, of a block f.
Ready(f, own, all, room, first, last) ==
    /\ own \in Nat /\ room \in Nat /\ first \in Int /\ last \in Int
    /\ first <= last + 1 /\ last < room /\ own + (last - first + 1) <= first
    /\ Rising(f, 0, own - 1) /\ Rising(f, first, last)
    /\ \A k \in 0..(own - 1), l \in first..last : f[k] # f[l]
    /\ all = Vals(f, 0, own - 1) \union Vals(f, first, last)

\* With the workbench filled the slide may begin.
LEMMA ReadySlides ==
  ASSUME NEW f, NEW own, NEW all, NEW room, NEW first, NEW last, NEW d, NEW now,
         Ready(f, own, all, room, first, last), d = own - 1, now = own + (last - first + 1)
  PROVE  Slides(f, now, all, room, d, last, first) /\ now \in Nat /\ now <= room
<1> USE DEF Ready
<1>1. PICK high : high = d + (last - first + 1) + 1
  OBVIOUS
<1>2. high = now /\ now \in Nat /\ now <= room /\ high \in Int /\ d \in Int /\ d >= -1
  BY <1>1
<1>3. \A l \in high..(now - 1) : FALSE
  BY <1>2
<1>4. Rising(f, high, now - 1) /\ Vals(f, high, now - 1) = {}
  BY <1>3 DEF Rising, Vals
<1>5. Rising(f, 0, d) /\ all = Vals(f, 0, d) \union Vals(f, first, last)
  BY <1>2
<1>6. \A k \in 0..d, l \in first..last : f[k] # f[l]
  BY <1>2
<1>7. all = Vals(f, 0, d) \union Vals(f, first, last) \union Vals(f, high, now - 1)
  BY ONLY <1>4, <1>5
<1>8. high <= now /\ now <= first
  BY <1>2
<1>9. Slides(f, now, all, room, d, last, first)
  BY <1>1, <1>2, <1>3, <1>4, <1>5, <1>6, <1>7, <1>8 DEF Slides
<1> QED
  BY <1>2, <1>9

\* How the slide begins: sbase, is, id and nelem are those of a filled workbench.
LEMMA SlideStarts ==
  ASSUME SetInv, NEW first, NEW last, N!SlideBegin(first, last),
         Ready(nodes', nelem, members, block, first, last),
         nodes' \in [0..(block - 1) -> Int], beyond' = FALSE
  PROVE  SetInv'
<1>1. /\ loop' = "slide" /\ id' = nelem - 1 /\ is' = last /\ sbase' = first
      /\ nelem' = nelem + (last - first + 1)
      /\ alloc' = alloc /\ block' = block /\ members' = members
  BY DEF N!SlideBegin
<1>2. PICK f, d, now : f = nodes' /\ d = nelem - 1 /\ now = nelem + (last - first + 1)
  OBVIOUS
<1>3. Ready(f, nelem, members, block, first, last)
  BY <1>2
<1>4. Slides(f, now, members, block, d, last, first) /\ now \in Nat /\ now <= block
  BY ONLY <1>2, <1>3, ReadySlides
<1>5. /\ f = nodes' /\ now = nelem' /\ members = members' /\ block = block' /\ d = id'
      /\ last = is' /\ first = sbase'
  BY ONLY <1>1, <1>2
<1>6. Sliding'
  BY ONLY <1>4, <1>5 DEF Sliding
<1>7. SetTypes'
  <2>1. alloc \in Nat /\ block \in Nat /\ members \subseteq Int
    BY SetNumbers
  <2> QED
    BY <1>1, <1>4, <1>5, <2>1 DEF SetTypes
<1> QED
  BY <1>1, <1>6, <1>7 DEF SetInv, Whole, Searching, Inserting, Uniting, Merging, Sharing

\* merge: the items below all elements follow, and the slide begins.
LEMMA MergeRestKeeps == ASSUME SetInv, N!MergeRest PROVE SetInv'
<1>1. PICK a, n, first, last :
         a = i1 + 1 /\ n = Len(src1) /\ first = sbase - (i1 + 1) /\ last = nelem + 2 * Len(src1) - 1
  OBVIOUS
<1>2. /\ loop = "merge" /\ (i1 < 0 \/ id < 0) /\ nodes' = N!Copied(first, src1, 1, a)
      /\ beyond' = (beyond \/ N!Outside(first, a)) /\ N!SlideBegin(first, last)
  BY <1>1 DEF N!MergeRest
<1>3. PICK low : low = nelem - 1
  OBVIOUS
<1>4. /\ src1 \in Sources /\ last < block /\ nelem >= 1
      /\ i1 \in -1..(n - 1) /\ id \in -1..low
      /\ sbase \in Int /\ sbase <= nelem + 2 * n /\ (nelem + 2 * n) - sbase <= n - (i1 + 1)
      /\ Rising(nodes, 0, low) /\ Rising(nodes, sbase, nelem + 2 * n - 1)
      /\ Vals(nodes, sbase, nelem + 2 * n - 1) = Vals(src1, i1 + 2, n) \ Vals(nodes, 0, low)
      /\ \A k \in (id + 1)..low : \A j \in 1..(i1 + 1) : src1[j] < nodes[k]
      /\ members = Vals(nodes, 0, low) \union Vals(src1, 1, n)
  <2>1. Merges(nodes, nelem, members, block, src1, i1, id, sbase)
    BY <1>2 DEF SetInv, Merging
  <2>2. src1 \in Sources
    BY <2>1 DEF Merges
  <2>3. Len(src1) \in Nat /\ nelem \in Nat /\ block \in Nat
    BY <2>2, SourcesAre, SetNumbers
  <2>4. nelem + 2 * n <= block
    BY <1>1, <2>1 DEF Merges
  <2>5. last < block
    BY <1>1, <2>3, <2>4
  <2>6. /\ i1 \in -1..(n - 1) /\ id \in -1..low /\ nelem >= 1
        /\ sbase \in Int /\ sbase <= nelem + 2 * n /\ (nelem + 2 * n) - sbase <= n - (i1 + 1)
        /\ Rising(nodes, 0, low) /\ Rising(nodes, sbase, nelem + 2 * n - 1)
    BY ONLY <1>1, <1>3, <2>1, <2>3 DEF Merges
  <2>7. Vals(nodes, sbase, nelem + 2 * n - 1) = Vals(src1, i1 + 2, n) \ Vals(nodes, 0, low)
    BY ONLY <1>1, <1>3, <2>1, <2>3 DEF Merges
  <2>8. \A k \in (id + 1)..low : \A j \in 1..(i1 + 1) : src1[j] < nodes[k]
    BY ONLY <1>1, <1>3, <2>1, <2>3 DEF Merges
  <2>9. members = Vals(nodes, 0, low) \union Vals(src1, 1, n)
    BY ONLY <1>1, <1>3, <2>1, <2>3 DEF Merges
  <2> QED
    BY ONLY <2>2, <2>5, <2>6, <2>7, <2>8, <2>9
<1>5. /\ n \in Nat /\ (\A j \in 1..n : src1[j] \in Int) /\ Rising(src1, 1, n)
  BY <1>1, <1>4, SourcesAre
<1>6. /\ nelem \in Nat /\ block \in Nat /\ (\A k \in 0..(block - 1) : nodes[k] \in Int)
      /\ nelem <= block /\ beyond = FALSE
  BY SetNumbers
<1>7. /\ a \in 0..n /\ a \in Int /\ i1 + 2 = a + 1 /\ nelem + 2 * n - 1 = last /\ last \in Int
      /\ first \in Nat /\ first + a = sbase /\ sbase <= last + 1 /\ first <= last + 1
      /\ nelem + (last - first + 1) <= first /\ first + a <= block /\ low < first
  BY <1>1, <1>3, <1>4, <1>5, <1>6
<1>8. PICK h : h = nodes'
  OBVIOUS
<1>9. /\ h \in [0..(block - 1) -> Int]
      /\ \A k \in first..(first + a - 1) : h[k] = src1[1 + k - first]
      /\ \A k \in 0..(block - 1) : k < first \/ k >= first + a => h[k] = nodes[k]
  <2>1. first \in Nat /\ a \in Nat /\ first + a <= block /\ 1 \in Int /\ SetTypes
    BY <1>7 DEF SetInv
  <2>2. \A k \in 1..(1 + a - 1) : src1[k] \in Int
    BY <1>5, <1>7
  <2>3. /\ N!Copied(first, src1, 1, a) \in [0..(block - 1) -> Int]
        /\ \A k \in first..(first + a - 1) : N!Copied(first, src1, 1, a)[k] = src1[1 + k - first]
        /\ \A k \in 0..(block - 1) :
              k < first \/ k >= first + a => N!Copied(first, src1, 1, a)[k] = nodes[k]
    BY ONLY <2>1, <2>2, CopiedBlock
  <2> QED
    BY ONLY <1>2, <1>8, <2>3
<1>10. /\ \A k \in 0..low : h[k] = nodes[k]
       /\ \A k \in sbase..last : h[k] = nodes[k]
  <2>1. \A k \in 0..low : k \in 0..(block - 1) /\ k < first
    BY <1>3, <1>6, <1>7
  <2>2. \A k \in sbase..last : k \in 0..(block - 1) /\ k >= first + a
    BY <1>4, <1>6, <1>7
  <2> QED
    BY <1>9, <2>1, <2>2
<1>11. \A j \in 1..a : \A k \in 0..low : src1[j] < nodes[k]
  <2>1. CASE a = 0
    BY <2>1
  <2>2. CASE a # 0
    <3>1. id + 1 = 0 /\ i1 + 1 = a
      BY <1>1, <1>2, <1>4, <1>7, <2>2
    <3> QED
      BY <1>4, <3>1
  <2> QED
    BY <2>1, <2>2
<1>12. Rising(h, 0, low) /\ Vals(h, 0, low) = Vals(nodes, 0, low)
  <2>1. low \in Int /\ 0 \in Int
    BY <1>3, <1>6
  <2> QED
    BY ONLY <1>4, <1>10, <2>1, SameItems
<1>13. Rising(h, sbase, last) /\ Vals(h, sbase, last) = Vals(src1, a + 1, n) \ Vals(nodes, 0, low)
  <2>1. Rising(nodes, sbase, last)
    BY <1>4, <1>7
  <2>2. Rising(h, sbase, last) /\ Vals(h, sbase, last) = Vals(nodes, sbase, last)
    BY ONLY <1>4, <1>7, <1>10, <2>1, SameItems
  <2> QED
    BY <1>4, <1>7, <2>2
<1>14. \A k \in first..(sbase - 1) : 1 + k - first \in 1..a /\ h[k] = src1[1 + k - first]
  BY <1>4, <1>7, <1>9
<1>15. \A l \in sbase..last : \E j \in (a + 1)..n : h[l] = src1[j]
  BY <1>13 DEF Vals
<1>16. Rising(h, first, last)
  <2> SUFFICES ASSUME NEW k \in first..last, NEW l \in first..last, k < l PROVE h[k] < h[l]
    BY DEF Rising
  <2>0. \A i, j \in 1..n : i < j => src1[i] < src1[j]
    BY <1>5 DEF Rising
  <2>1. CASE l < sbase
    <3>1. k \in first..(sbase - 1) /\ l \in first..(sbase - 1)
      BY <1>4, <1>7, <2>1
    <3>2. /\ 1 + k - first \in 1..n /\ 1 + l - first \in 1..n /\ 1 + k - first < 1 + l - first
      BY <1>5, <1>7, <1>14, <3>1
    <3> QED
      BY <1>14, <2>0, <3>1, <3>2
  <2>2. CASE k < sbase /\ l >= sbase
    <3>1. k \in first..(sbase - 1) /\ l \in sbase..last
      BY <1>4, <1>7, <2>2
    <3>2. PICK j \in (a + 1)..n : h[l] = src1[j]
      BY <1>15, <3>1
    <3>3. /\ 1 + k - first \in 1..n /\ j \in 1..n /\ 1 + k - first < j
      BY <1>5, <1>7, <1>14, <3>1
    <3> QED
      BY <1>14, <2>0, <3>1, <3>2, <3>3
  <2>3. CASE k >= sbase
    BY <1>4, <1>7, <1>13, <2>3 DEF Rising
  <2> QED
    BY <1>4, <1>7, <2>1, <2>2, <2>3
<1>17. /\ Vals(h, first, last) = Vals(src1, 1, n) \ Vals(nodes, 0, low)
  <2>1. ASSUME NEW v \in Vals(h, first, last) PROVE v \in Vals(src1, 1, n) /\ v \notin Vals(nodes, 0, low)
    <3>1. PICK k \in first..last : v = h[k]
      BY DEF Vals
    <3>2. CASE k < sbase
      <4>1. k \in first..(sbase - 1)
        BY <1>4, <1>7, <3>2
      <4>2. PICK j \in 1..a : v = src1[j]
        BY <1>14, <3>1, <4>1
      <4>3. j \in 1..n
        BY <1>5, <1>7
      <4>4. \A m \in 0..low : v # nodes[m]
        <5> SUFFICES ASSUME NEW m \in 0..low, v = nodes[m] PROVE FALSE
          OBVIOUS
        <5>1. src1[j] < nodes[m] /\ src1[j] \in Int
          BY <1>5, <1>11, <4>3
        <5> QED
          BY <4>2, <5>1
      <4> QED
        BY <4>2, <4>3, <4>4 DEF Vals
    <3>3. CASE k >= sbase
      <4>1. k \in sbase..last
        BY <1>4, <1>7, <3>3
      <4>2. v \in Vals(h, sbase, last)
        BY <3>1, <4>1 DEF Vals
      <4>3. v \in Vals(src1, a + 1, n) /\ v \notin Vals(nodes, 0, low)
        BY <1>13, <4>2
      <4>4. ((a + 1)..n) \subseteq 1..n
        BY <1>5, <1>7
      <4> QED
        BY <4>3, <4>4 DEF Vals
    <3> QED
      BY <1>4, <1>7, <3>2, <3>3
  <2>2. ASSUME NEW v \in Vals(src1, 1, n), v \notin Vals(nodes, 0, low) PROVE v \in Vals(h, first, last)
    <3>1. PICK j \in 1..n : v = src1[j]
      BY DEF Vals
    <3>2. CASE j <= a
      <4>1. PICK k : k = first + j - 1
        OBVIOUS
      <4>2. k \in first..(sbase - 1) /\ 1 + k - first = j /\ k \in first..last
        BY <1>4, <1>5, <1>7, <3>2, <4>1
      <4>3. v = h[k]
        BY <1>14, <3>1, <4>2
      <4> QED
        BY <4>2, <4>3 DEF Vals
    <3>3. CASE j > a
      <4>1. j \in (a + 1)..n
        BY <1>5, <1>7, <3>3
      <4>2. v \in Vals(src1, a + 1, n)
        BY <3>1, <4>1 DEF Vals
      <4>3. v \in Vals(h, sbase, last)
        BY <1>13, <2>2, <4>2
      <4>4. (sbase..last) \subseteq first..last
        BY <1>4, <1>7
      <4> QED
        BY <4>3, <4>4 DEF Vals
    <3> QED
      BY <1>5, <1>7, <3>2, <3>3
  <2> QED
    BY <2>1, <2>2
<1>18. \A k \in 0..low, l \in first..last : h[k] # h[l]
  <2>1. \A l \in first..last : h[l] \notin Vals(nodes, 0, low)
    BY <1>17 DEF Vals
  <2> QED
    BY <1>10, <2>1 DEF Vals
<1>19. Ready(h, nelem, members, block, first, last)
  <2>1. members = Vals(h, 0, low) \union Vals(h, first, last)
    BY <1>4, <1>12, <1>17
  <2> QED
    BY <1>3, <1>4, <1>6, <1>7, <1>12, <1>16, <1>18, <2>1 DEF Ready
<1>20. beyond' = FALSE
  <2>1. ~N!Outside(first, a)
    BY <1>6, <1>7 DEF N!Outside
  <2> QED
    BY <1>2, <1>6, <2>1
<1> QED
  BY <1>2, <1>8, <1>9, <1>19, <1>20, SlideStarts

--------------------------------------------------------------------------------
(* Node sets: intersection.                                                *)

\* add_intersect: room for the elements and for what two sources can share.
LEMMA IntersectBeginKeeps == ASSUME SetInv, N!IntersectBegin PROVE SetInv'
<1>1. PICK seq1, seq2, total, room :
         /\ seq1 \in Sources /\ seq2 \in Sources /\ seq1 # << >> /\ seq2 # << >>
         /\ total = Len(seq1) + Len(seq2)
         /\ room = IF total + nelem > alloc THEN total + alloc ELSE alloc
         /\ N!Usable
         /\ \/ /\ N!Room(room) /\ members' = members \union (N!Items(seq1) \intersect N!Items(seq2))
               /\ nodes' = N!Block(nodes, nelem, room)
               /\ loop' = "intersect" /\ src1' = seq1 /\ src2' = seq2
               /\ i1' = Len(seq1) - 1 /\ i2' = Len(seq2) - 1
               /\ id' = nelem - 1 /\ sbase' = nelem + total
               /\ nelem' = nelem /\ beyond' = beyond
            \/ UNCHANGED set
  BY DEF N!IntersectBegin, N!Unchanged, N!nodeset, N!array, N!operands, N!scan, N!search, set
<1>2. /\ loop = "none" /\ alloc = block /\ alloc \in Nat /\ nelem \in Nat /\ nelem <= block
      /\ beyond = FALSE
  BY <1>1, SetNumbers DEF N!Usable
<1>3. PICK c1, c2, over : c1 = Len(seq1) /\ c2 = Len(seq2) /\ over = nelem + total
  OBVIOUS
<1>4. /\ c1 \in Nat /\ c1 >= 1 /\ (\A j \in 1..c1 : seq1[j] \in Int)
      /\ c2 \in Nat /\ c2 >= 1 /\ N!Items(seq1) = Vals(seq1, 1, c1) /\ N!Items(seq2) = Vals(seq2, 1, c2)
  BY <1>1, <1>3, SourcesAre
<1>5. room \in Nat /\ over <= room /\ nelem <= room /\ over = nelem + c1 + c2 /\ over \in Nat
  BY <1>1, <1>2, <1>3, <1>4
<1>6. CASE /\ N!Room(room) /\ members' = members \union (N!Items(seq1) \intersect N!Items(seq2))
           /\ nodes' = N!Block(nodes, nelem, room)
           /\ loop' = "intersect" /\ src1' = seq1 /\ src2' = seq2
           /\ i1' = Len(seq1) - 1 /\ i2' = Len(seq2) - 1
           /\ id' = nelem - 1 /\ sbase' = nelem + total
           /\ nelem' = nelem /\ beyond' = beyond
  <2>1. /\ nodes' \in [0..(room - 1) -> Int] /\ Rising(nodes', 0, nelem - 1)
        /\ members = Vals(nodes', 0, nelem - 1) /\ members \subseteq Int
    BY <1>2, <1>5, <1>6, Regrown
  <2>2. alloc' = room /\ block' = room /\ beyond' = FALSE
    BY <1>2, <1>6 DEF N!Room
  <2>3. members' \subseteq Int
    <3>1. Vals(seq1, 1, c1) \subseteq Int
      BY <1>4 DEF Vals
    <3> QED
      BY <1>4, <1>6, <2>1, <3>1
  <2>4. SetTypes'
    BY <1>2, <1>5, <1>6, <2>1, <2>2, <2>3 DEF SetTypes
  <2>5. PICK h, all, own, a, b, d : /\ h = nodes' /\ all = members' /\ own = nelem /\ a = i1' + 1
                                   /\ b = i2' + 1 /\ d = id'
    OBVIOUS
  <2>6. /\ a = c1 /\ b = c2 /\ own \in Nat /\ d = own - 1 /\ over = own + c1 + c2 /\ over <= room
        /\ c1 = Len(seq1) /\ c2 = Len(seq2) /\ c1 \in Nat /\ c2 \in Nat
        /\ seq1 \in Sources /\ seq2 \in Sources /\ Rising(h, 0, own - 1)
    BY <1>1, <1>2, <1>3, <1>4, <1>5, <1>6, <2>1, <2>5
  <2>7. all = Vals(h, 0, own - 1) \union (Vals(seq1, 1, c1) \intersect Vals(seq2, 1, c2))
    BY <1>4, <1>6, <2>1, <2>5
  <2>8. /\ Rising(h, over, over - 1) /\ Vals(h, over, over - 1) = {} /\ Vals(seq1, c1 + 1, c1) = {}
        /\ \A j \in (c1 + 1)..c1 : FALSE
        /\ \A j \in (c2 + 1)..c2 : FALSE
        /\ \A k \in (d + 1)..(own - 1) : FALSE
    <3>1. /\ \A j \in (c1 + 1)..c1 : FALSE
          /\ \A j \in (c2 + 1)..c2 : FALSE
          /\ \A k \in (d + 1)..(own - 1) : FALSE
          /\ \A k \in over..(over - 1) : FALSE
      BY <1>4, <1>5, <2>6
    <3>2. Rising(h, over, over - 1) /\ Vals(h, over, over - 1) = {}
      BY <3>1 DEF Rising, Vals
    <3>3. Vals(seq1, c1 + 1, c1) = {}
      BY <3>1 DEF Vals
    <3> QED
      BY ONLY <3>1, <3>2, <3>3
  <2>9. Shares(h, own, all, room, seq1, seq2, a, b, d, over)
    BY ONLY <2>6, <2>7, <2>8 DEF Shares
  <2>10. /\ h = nodes' /\ all = members' /\ own = nelem' /\ a = i1' + 1 /\ b = i2' + 1 /\ d = id'
         /\ room = block' /\ seq1 = src1' /\ seq2 = src2' /\ over = sbase'
    BY <1>3, <1>6, <2>2, <2>5
  <2>11. Sharing'
    <3>1. i1' \in Int /\ i2' \in Int
      BY <1>3, <1>4, <1>6
    <3> QED
      BY ONLY <2>9, <2>10, <3>1 DEF Sharing
  <2> QED
    BY <1>6, <2>4, <2>11 DEF SetInv, Whole, Searching, Inserting, Uniting, Merging, Sliding
<1>7. CASE UNCHANGED set
  BY <1>7 DEF set, SetInv, SetTypes, Whole, Searching, Inserting, Uniting, Merging, Sharing, Sliding
<1> QED
  BY <1>1, <1>6, <1>7

\* The items of a sequence from a place on.
LEMMA ItemsFrom ==
  ASSUME NEW seq \in Sources, NEW n, n = Len(seq), NEW a \in 1..n
  PROVE  /\ seq[a] \in Int /\ (\A j \in 1..n : seq[j] \in Int)
         /\ \A y : y \in Vals(seq, a, n) <=> y = seq[a] \/ y \in Vals(seq, a + 1, n)
         /\ \A j \in (a + 1)..n : seq[a] < seq[j]
         /\ \A j \in 1..(a - 1) : seq[j] < seq[a]
         /\ \A y \in Vals(seq, a + 1, n) : seq[a] < y
<1>1. n \in Nat /\ (\A j \in 1..n : seq[j] \in Int) /\ Rising(seq, 1, n)
  BY SourcesAre
<1>2. a..n = {a} \union ((a + 1)..n)
  BY <1>1
<1>3. Vals(seq, a, n) = {seq[a]} \union Vals(seq, a + 1, n)
  BY <1>2 DEF Vals
<1>4. /\ \A j \in (a + 1)..n : seq[a] < seq[j]
      /\ \A j \in 1..(a - 1) : seq[j] < seq[a]
  BY <1>1 DEF Rising
<1>5. \A y \in Vals(seq, a + 1, n) : seq[a] < y
  BY <1>4 DEF Vals
<1> QED
  BY <1>1, <1>3, <1>4, <1>5

\* What the intersection looks at next, in the names of the lemma: the state of
\* the loop and the two items.
Sight(c1, c2, a, b, top, low, v, w) ==
    /\ src1 \in Sources /\ src2 \in Sources /\ c1 = Len(src1) /\ c2 = Len(src2)
    /\ c1 \in Nat /\ c2 \in Nat /\ nelem \in Nat /\ block \in Nat
    /\ a \in 1..c1 /\ b \in 1..c2 /\ i1 = a - 1 /\ i2 = b - 1
    /\ low = nelem - 1 /\ top = nelem + c1 + c2 /\ top <= block
    /\ v = src1[a] /\ w = src2[b] /\ v \in Int /\ w \in Int
    /\ id \in -1..low /\ sbase \in Int /\ sbase <= top /\ top - sbase <= c1 - a /\ top - sbase <= c2 - b
    /\ Rising(nodes, 0, low) /\ Rising(nodes, sbase, top - 1)
    /\ \A y : y \in Vals(nodes, sbase, top - 1) <=>
                y \in Vals(src1, a + 1, c1) /\ y \in Vals(src2, b + 1, c2) /\ y \notin Vals(nodes, 0, low)
    /\ \A j \in (a + 1)..c1, m \in 1..b : src2[m] < src1[j]
    /\ \A j \in 1..a, m \in (b + 1)..c2 : src1[j] < src2[m]
    /\ \A k \in (id + 1)..low : \A j \in 1..a : src1[j] < nodes[k]
    /\ members = Vals(nodes, 0, low) \union (Vals(src1, 1, c1) \intersect Vals(src2, 1, c2))

\* What the loop of add_intersect sees is a sight.
LEMMA Sighted ==
  ASSUME SetInv, loop = "intersect", i1 >= 0, i2 >= 0
  PROVE  \E c1, c2, a, b, top, low, v, w : Sight(c1, c2, a, b, top, low, v, w)
<1>1. PICK c1, c2, a, b, top, low, v, w :
         /\ c1 = Len(src1) /\ c2 = Len(src2) /\ a = i1 + 1 /\ b = i2 + 1
         /\ top = nelem + c1 + c2 /\ low = nelem - 1 /\ v = src1[a] /\ w = src2[b]
  OBVIOUS
<1>2. Shares(nodes, nelem, members, block, src1, src2, a, b, id, sbase) /\ i1 \in Int /\ i2 \in Int
  BY <1>1 DEF SetInv, Sharing
<1>3. src1 \in Sources /\ src2 \in Sources
  BY <1>2 DEF Shares
<1>4. /\ c1 \in Nat /\ c2 \in Nat /\ nelem \in Nat /\ block \in Nat
      /\ (\A j \in 1..c1 : src1[j] \in Int) /\ (\A j \in 1..c2 : src2[j] \in Int)
  BY <1>1, <1>3, SourcesAre, SetNumbers
<1>5. /\ a \in 0..c1 /\ b \in 0..c2 /\ top <= block
      /\ id \in -1..low /\ sbase \in Int /\ sbase <= top /\ top - sbase <= c1 - a /\ top - sbase <= c2 - b
      /\ Rising(nodes, 0, low) /\ Rising(nodes, sbase, top - 1)
  BY ONLY <1>1, <1>2, <1>4 DEF Shares
<1>6. /\ \A j \in (a + 1)..c1, m \in 1..b : src2[m] < src1[j]
      /\ \A j \in 1..a, m \in (b + 1)..c2 : src1[j] < src2[m]
      /\ \A k \in (id + 1)..low : \A j \in 1..a : src1[j] < nodes[k]
  BY ONLY <1>1, <1>2, <1>4 DEF Shares
<1>7. Vals(nodes, sbase, top - 1)
         = (Vals(src1, a + 1, c1) \intersect Vals(src2, b + 1, c2)) \ Vals(nodes, 0, low)
  BY ONLY <1>1, <1>2, <1>4 DEF Shares
<1>8. members = Vals(nodes, 0, low) \union (Vals(src1, 1, c1) \intersect Vals(src2, 1, c2))
  BY ONLY <1>1, <1>2, <1>4 DEF Shares
<1>9. a \in 1..c1 /\ b \in 1..c2 /\ i1 = a - 1 /\ i2 = b - 1
  BY <1>1, <1>2, <1>4, <1>5
<1>10. v \in Int /\ w \in Int
  BY <1>1, <1>4, <1>9
<1>11. Sight(c1, c2, a, b, top, low, v, w)
  BY ONLY <1>1, <1>3, <1>4, <1>5, <1>6, <1>7, <1>8, <1>9, <1>10 DEF Sight
<1> QED
  BY <1>11

\* One round of the loop leads to the next: f is the block, a, b, d and s are the
\* places then.
Seen(c1, c2, top, low, f, a, b, d, s) ==
    /\ src1 \in Sources /\ src2 \in Sources /\ c1 = Len(src1) /\ c2 = Len(src2)
    /\ low = nelem - 1 /\ top = nelem + c1 + c2 /\ top <= block
    /\ members = Vals(nodes, 0, low) \union (Vals(src1, 1, c1) \intersect Vals(src2, 1, c2))
    /\ a \in 0..c1 /\ b \in 0..c2 /\ d \in -1..low /\ s \in Int /\ s <= top
    /\ top - s <= c1 - a /\ top - s <= c2 - b
    /\ Rising(f, 0, low) /\ Rising(f, s, top - 1) /\ Vals(f, 0, low) = Vals(nodes, 0, low)
    /\ \A y : y \in Vals(f, s, top - 1) <=>
               y \in Vals(src1, a + 1, c1) /\ y \in Vals(src2, b + 1, c2) /\ y \notin Vals(nodes, 0, low)
    /\ \A j \in (a + 1)..c1, m \in 1..b : src2[m] < src1[j]
    /\ \A j \in 1..a, m \in (b + 1)..c2 : src1[j] < src2[m]
    /\ \A k \in (d + 1)..low : \A j \in 1..a : src1[j] < f[k]
    /\ loop' = "intersect" /\ f = nodes' /\ f \in [0..(block - 1) -> Int] /\ beyond' = FALSE
    /\ alloc' = alloc /\ nelem' = nelem /\ block' = block /\ members' = members
    /\ src1' = src1 /\ src2' = src2 /\ i1' = a - 1 /\ i2' = b - 1 /\ d = id' /\ s = sbase'

\* What a round of it must leave for the next.
LEMMA SightKeeps ==
  ASSUME SetInv, NEW c1, NEW c2, NEW top, NEW low, NEW f, NEW a, NEW b, NEW d, NEW s,
         Seen(c1, c2, top, low, f, a, b, d, s)
  PROVE  SetInv'
<1> USE DEF Seen
<1>1. c1 \in Nat /\ c2 \in Nat /\ nelem \in Nat /\ block \in Nat
  BY SourcesAre, SetNumbers
<1>2. Vals(f, s, top - 1) = (Vals(src1, a + 1, c1) \intersect Vals(src2, b + 1, c2)) \ Vals(f, 0, low)
  OBVIOUS
<1>3. members = Vals(f, 0, low) \union (Vals(src1, 1, c1) \intersect Vals(src2, 1, c2))
  OBVIOUS
<1>4. Shares(f, nelem, members, block, src1, src2, a, b, d, s)
  BY <1>1, <1>2, <1>3 DEF Shares
<1>5. Sharing'
  <2>1. a = i1' + 1 /\ b = i2' + 1 /\ i1' \in Int /\ i2' \in Int
    BY <1>1
  <2> QED
    BY <1>4, <2>1 DEF Sharing
<1>6. SetTypes'
  BY SetNumbers DEF SetTypes
<1> QED
  BY <1>5, <1>6 DEF SetInv, Whole, Searching, Inserting, Uniting, Merging, Sliding

\* A round of add_intersect: one of the sources goes on, or an item both have goes to the workbench.
LEMMA IntersectItemKeeps == ASSUME SetInv, N!IntersectItem PROVE SetInv'
<1>1. /\ loop = "intersect" /\ i1 >= 0 /\ i2 >= 0 /\ loop' = "intersect"
      /\ alloc' = alloc /\ nelem' = nelem /\ block' = block /\ members' = members
      /\ src1' = src1 /\ src2' = src2
  BY DEF N!IntersectItem, N!operands
<1>2. PICK c1, c2, a, b, top, low, v, w : Sight(c1, c2, a, b, top, low, v, w)
  BY <1>1, Sighted
<1>3. /\ src1 \in Sources /\ src2 \in Sources /\ c1 = Len(src1) /\ c2 = Len(src2)
      /\ c1 \in Nat /\ c2 \in Nat /\ nelem \in Nat /\ block \in Nat
      /\ a \in 1..c1 /\ b \in 1..c2 /\ i1 = a - 1 /\ i2 = b - 1
      /\ low = nelem - 1 /\ top = nelem + c1 + c2 /\ top <= block
      /\ v = src1[a] /\ w = src2[b] /\ v \in Int /\ w \in Int
      /\ id \in -1..low /\ sbase \in Int /\ sbase <= top /\ top - sbase <= c1 - a /\ top - sbase <= c2 - b
      /\ Rising(nodes, 0, low) /\ Rising(nodes, sbase, top - 1)
  BY <1>2 DEF Sight
<1>4. members = Vals(nodes, 0, low) \union (Vals(src1, 1, c1) \intersect Vals(src2, 1, c2))
  BY <1>2 DEF Sight
<1>5. \A y : y \in Vals(nodes, sbase, top - 1) <=>
               y \in Vals(src1, a + 1, c1) /\ y \in Vals(src2, b + 1, c2) /\ y \notin Vals(nodes, 0, low)
  BY <1>2 DEF Sight
<1>6. /\ \A j \in (a + 1)..c1, m \in 1..b : src2[m] < src1[j]
      /\ \A j \in 1..a, m \in (b + 1)..c2 : src1[j] < src2[m]
      /\ \A k \in (id + 1)..low : \A j \in 1..a : src1[j] < nodes[k]
  BY <1>2 DEF Sight
<1>7. /\ (\A j \in 1..c1 : src1[j] \in Int)
      /\ \A y : y \in Vals(src1, a, c1) <=> y = v \/ y \in Vals(src1, a + 1, c1)
      /\ \A j \in (a + 1)..c1 : v < src1[j]
      /\ \A j \in 1..(a - 1) : src1[j] < v
      /\ \A y \in Vals(src1, a + 1, c1) : v < y
  BY <1>3, ItemsFrom
<1>8. /\ (\A j \in 1..c2 : src2[j] \in Int)
      /\ \A y : y \in Vals(src2, b, c2) <=> y = w \/ y \in Vals(src2, b + 1, c2)
      /\ \A j \in (b + 1)..c2 : w < src2[j]
      /\ \A j \in 1..(b - 1) : src2[j] < w
      /\ \A y \in Vals(src2, b + 1, c2) : w < y
  BY <1>3, ItemsFrom
<1>9. /\ nodes \in [0..(block - 1) -> Int] /\ beyond = FALSE
      /\ \A k \in 0..low : nodes[k] \in Int
  <2>1. /\ nodes \in [0..(block - 1) -> Int] /\ beyond = FALSE /\ nelem <= block
        /\ \A k \in 0..(block - 1) : nodes[k] \in Int
    BY SetNumbers
  <2>2. nelem \in Nat /\ block \in Nat /\ low = nelem - 1
    BY <1>3
  <2>3. \A k \in 0..low : k \in 0..(block - 1)
    BY ONLY <2>1, <2>2
  <2> QED
    BY ONLY <2>1, <2>3
<1>10. PICK a1, b1 : a1 = a - 1 /\ b1 = b - 1
  OBVIOUS
<1>11. /\ a1 \in 0..c1 /\ b1 \in 0..c2 /\ a1 + 1 = a /\ b1 + 1 = b /\ a \in 0..c1 /\ b \in 0..c2
       /\ a1 <= a /\ b1 <= b /\ a1 \in Int /\ b1 \in Int /\ a \in Int /\ b \in Int
       /\ top - sbase <= c1 - a1 /\ top - sbase <= c2 - b1 /\ i1 = a - 1 /\ i2 = b - 1
       /\ i1 - 1 = a1 - 1 /\ i2 - 1 = b1 - 1
  BY <1>3, <1>10, SMTT(30)
<1>0. a \in 1..c1 /\ b \in 1..c2 /\ c1 \in Nat /\ c2 \in Nat
  BY <1>3
<1>12. /\ \A m \in 1..b : m = b \/ m \in 1..b1
       /\ \A m \in 1..b1 : m \in 1..b /\ m \in 1..(b - 1)
       /\ \A j \in 1..a : j = a \/ j \in 1..a1
       /\ \A j \in 1..a1 : j \in 1..a /\ j \in 1..(a - 1)
  BY ONLY <1>0, <1>10
<1>13. /\ \A j \in a..c1 : j = a \/ j \in (a + 1)..c1
       /\ \A m \in b..c2 : m = b \/ m \in (b + 1)..c2
       /\ a \in 1..a /\ b \in 1..b
  BY ONLY <1>0
<1>14. /\ \A j \in 1..a : j \in 1..c1
       /\ \A m \in 1..b : m \in 1..c2
       /\ \A j \in (a + 1)..c1 : j \in 1..c1
       /\ \A m \in (b + 1)..c2 : m \in 1..c2
  BY ONLY <1>0
<1>15. /\ \A m \in 1..b1 : src2[m] < w
       /\ \A j \in 1..a1 : src1[j] < v
  BY ONLY <1>7, <1>8, <1>12
<1>16. v = src1[a] /\ w = src2[b] /\ v \in Int /\ w \in Int
  BY <1>3
<1>20. CASE v < w /\ i2' = i2 - 1 /\ nodes' = nodes /\ beyond' = beyond /\ i1' = i1 /\ id' = id /\ sbase' = sbase
  <2>1. \A y : y \in Vals(nodes, sbase, top - 1) <=>
                y \in Vals(src1, a + 1, c1) /\ y \in Vals(src2, b, c2) /\ y \notin Vals(nodes, 0, low)
    <3>1. w \notin Vals(src1, a + 1, c1)
      <4> SUFFICES ASSUME NEW j \in (a + 1)..c1, w = src1[j] PROVE FALSE
        BY DEF Vals
      <4>1. src2[b] < src1[j] /\ src1[j] \in Int
        BY <1>6, <1>7, <1>13, <1>14
      <4> QED
        BY <1>16, <4>1
    <3> QED
      BY ONLY <1>5, <1>8, <3>1
  <2>2. \A j \in (a + 1)..c1, m \in 1..b1 : src2[m] < src1[j]
    BY <1>6, <1>12
  <2>3. \A j \in 1..a, m \in b..c2 : src1[j] < src2[m]
    <3> SUFFICES ASSUME NEW j \in 1..a, NEW m \in b..c2 PROVE src1[j] < src2[m]
      OBVIOUS
    <3>1. CASE m \in (b + 1)..c2
      BY <1>6, <3>1
    <3>2. CASE m = b
      <4>1. src1[j] = v \/ src1[j] < v
        BY <1>12, <1>15, <1>16
      <4>2. src1[j] \in Int
        BY <1>7, <1>14
      <4>3. src2[m] = w /\ v < w
        BY <1>16, <1>20, <3>2
      <4> QED
        BY ONLY <1>16, <4>1, <4>2, <4>3
    <3> QED
      BY <1>13, <3>1, <3>2
  <2>4. PICK f, d, s : f = nodes /\ d = id /\ s = sbase
    OBVIOUS
  <2>5. Seen(c1, c2, top, low, f, a, b1, d, s)
    BY ONLY <1>1, <1>3, <1>4, <1>6, <1>9, <1>11, <1>20, <2>1, <2>2, <2>3, <2>4 DEF Seen
  <2>6. SetInv
    OBVIOUS
  <2> QED
    BY ONLY <2>5, <2>6, SightKeeps
<1>21. CASE v > w /\ i1' = i1 - 1 /\ nodes' = nodes /\ beyond' = beyond /\ i2' = i2 /\ id' = id /\ sbase' = sbase
  <2>1. \A y : y \in Vals(nodes, sbase, top - 1) <=>
                y \in Vals(src1, a, c1) /\ y \in Vals(src2, b + 1, c2) /\ y \notin Vals(nodes, 0, low)
    <3>1. v \notin Vals(src2, b + 1, c2)
      <4> SUFFICES ASSUME NEW m \in (b + 1)..c2, v = src2[m] PROVE FALSE
        BY DEF Vals
      <4>1. src1[a] < src2[m] /\ src2[m] \in Int
        BY <1>6, <1>8, <1>13, <1>14
      <4> QED
        BY <1>16, <4>1
    <3> QED
      BY ONLY <1>5, <1>7, <3>1
  <2>2. \A j \in a..c1, m \in 1..b : src2[m] < src1[j]
    <3> SUFFICES ASSUME NEW j \in a..c1, NEW m \in 1..b PROVE src2[m] < src1[j]
      OBVIOUS
    <3>1. CASE j \in (a + 1)..c1
      BY <1>6, <3>1
    <3>2. CASE j = a
      <4>1. src2[m] = w \/ src2[m] < w
        BY <1>12, <1>15, <1>16
      <4>2. src2[m] \in Int
        BY <1>8, <1>14
      <4>3. src1[j] = v /\ v > w
        BY <1>16, <1>21, <3>2
      <4> QED
        BY ONLY <1>16, <4>1, <4>2, <4>3
    <3> QED
      BY <1>13, <3>1, <3>2
  <2>3. \A j \in 1..a1, m \in (b + 1)..c2 : src1[j] < src2[m]
    BY <1>6, <1>12
  <2>4. \A k \in (id + 1)..low : \A j \in 1..a1 : src1[j] < nodes[k]
    BY <1>6, <1>12
  <2>5. PICK f, d, s : f = nodes /\ d = id /\ s = sbase
    OBVIOUS
  <2>6. Seen(c1, c2, top, low, f, a1, b, d, s)
    BY ONLY <1>1, <1>3, <1>4, <1>9, <1>11, <1>21, <2>1, <2>2, <2>3, <2>4, <2>5 DEF Seen
  <2>7. SetInv
    OBVIOUS
  <2> QED
    BY ONLY <2>6, <2>7, SightKeeps
<1>22. CASE /\ v = w /\ id >= 0 /\ nodes[id] > v /\ id' = id - 1
            /\ nodes' = nodes /\ beyond' = beyond /\ i1' = i1 /\ i2' = i2 /\ sbase' = sbase
  <2>1. PICK f, d, s : f = nodes /\ d = id - 1 /\ s = sbase
    OBVIOUS
  <2>2. d \in -1..low /\ id \in 0..low /\ d + 1 = id /\ low \in Int
    BY <1>3, <1>22, <2>1
  <2>3. \A k \in id..low : k = id \/ k \in (id + 1)..low
    BY ONLY <2>2
  <2>4. \A k \in (d + 1)..low : \A j \in 1..a : src1[j] < nodes[k]
    <3> SUFFICES ASSUME NEW k \in id..low, NEW j \in 1..a PROVE src1[j] < nodes[k]
      BY <2>2
    <3>1. CASE k \in (id + 1)..low
      BY <1>6, <3>1
    <3>2. CASE k = id
      <4>1. src1[j] = v \/ src1[j] < v
        BY <1>12, <1>15, <1>16
      <4>2. src1[j] \in Int /\ nodes[id] \in Int /\ nodes[id] > v
        BY <1>7, <1>9, <1>14, <1>22, <2>2
      <4> QED
        BY ONLY <1>16, <3>2, <4>1, <4>2
    <3> QED
      BY <2>3, <3>1, <3>2
  <2>5. Seen(c1, c2, top, low, f, a, b, d, s)
    BY ONLY <1>1, <1>3, <1>4, <1>5, <1>6, <1>9, <1>11, <1>22, <2>1, <2>2, <2>4 DEF Seen
  <2>6. SetInv
    OBVIOUS
  <2> QED
    BY ONLY <2>5, <2>6, SightKeeps
<1>30. CASE /\ v = w
            /\ \/ /\ id >= 0 /\ nodes[id] = v /\ i1' = i1 - 1 /\ i2' = i2 - 1
                  /\ nodes' = nodes /\ beyond' = beyond /\ id' = id /\ sbase' = sbase
               \/ /\ (id >= 0 => nodes[id] < v) /\ N!Put(sbase - 1, v) /\ sbase' = sbase - 1
                  /\ i1' = i1 - 1 /\ i2' = i2 - 1 /\ id' = id
  <2>0. v = w
    BY <1>30
  <2>1. \A j \in a..c1, m \in 1..b1 : src2[m] < src1[j]
    <3> SUFFICES ASSUME NEW j \in a..c1, NEW m \in 1..b1 PROVE src2[m] < src1[j]
      OBVIOUS
    <3>1. CASE j \in (a + 1)..c1
      BY <1>6, <1>12, <3>1
    <3>2. CASE j = a
      BY <1>15, <1>16, <2>0, <3>2
    <3> QED
      BY <1>13, <3>1, <3>2
  <2>2. \A j \in 1..a1, m \in b..c2 : src1[j] < src2[m]
    <3> SUFFICES ASSUME NEW j \in 1..a1, NEW m \in b..c2 PROVE src1[j] < src2[m]
      OBVIOUS
    <3>1. CASE m \in (b + 1)..c2
      BY <1>6, <1>12, <3>1
    <3>2. CASE m = b
      BY <1>15, <1>16, <2>0, <3>2
    <3> QED
      BY <1>13, <3>1, <3>2
  <2>3. \A y : /\ y \in Vals(src1, a, c1) /\ y \in Vals(src2, b, c2)
               <=> \/ y = v
                   \/ y \in Vals(src1, a + 1, c1) /\ y \in Vals(src2, b + 1, c2)
    BY ONLY <1>7, <1>8, <2>0
  <2>4. CASE /\ id >= 0 /\ nodes[id] = v /\ i1' = i1 - 1 /\ i2' = i2 - 1
             /\ nodes' = nodes /\ beyond' = beyond /\ id' = id /\ sbase' = sbase
    <3>1. v \in Vals(nodes, 0, low)
      <4>1. id \in 0..low /\ nodes[id] = v
        BY <1>3, <2>4
      <4> QED
        BY ONLY <4>1 DEF Vals
    <3>2. \A y : y \in Vals(nodes, sbase, top - 1) <=>
                  y \in Vals(src1, a, c1) /\ y \in Vals(src2, b, c2) /\ y \notin Vals(nodes, 0, low)
      BY ONLY <1>5, <2>3, <3>1
    <3>3. \A k \in (id + 1)..low : \A j \in 1..a1 : src1[j] < nodes[k]
      BY <1>6, <1>12
    <3>4. PICK f, d, s : f = nodes /\ d = id /\ s = sbase
      OBVIOUS
    <3>5. Seen(c1, c2, top, low, f, a1, b1, d, s)
      BY ONLY <1>1, <1>3, <1>4, <1>9, <1>11, <2>1, <2>2, <2>4, <3>2, <3>3, <3>4 DEF Seen
    <3>6. SetInv
      OBVIOUS
    <3> QED
      BY ONLY <3>5, <3>6, SightKeeps
  <2>5. CASE /\ (id >= 0 => nodes[id] < v) /\ N!Put(sbase - 1, v) /\ sbase' = sbase - 1
             /\ i1' = i1 - 1 /\ i2' = i2 - 1 /\ id' = id
    <3>1. nelem < sbase
      BY <1>3
    <3>2. \A k \in sbase..(top - 1) : v < nodes[k]
      <4> SUFFICES ASSUME NEW k \in sbase..(top - 1) PROVE v < nodes[k]
        OBVIOUS
      <4>1. nodes[k] \in Vals(src1, a + 1, c1)
        <5>1. nodes[k] \in Vals(nodes, sbase, top - 1)
          BY DEF Vals
        <5> QED
          BY ONLY <1>5, <5>1
      <4> QED
        BY ONLY <1>7, <4>1
    <3>3. PICK s, next : s = sbase /\ next = sbase - 1
      OBVIOUS
    <3>4. Laying(s, top, v)
      <4>1. /\ s \in Int /\ top \in Int /\ nelem < s /\ s <= top /\ top <= block /\ v \in Int
            /\ Rising(nodes, 0, nelem - 1) /\ Rising(nodes, s, top - 1)
        BY <1>3, <3>1, <3>3
      <4> QED
        BY ONLY <1>1, <2>5, <3>2, <3>3, <4>1 DEF Laying
    <3>5. SetInv
      OBVIOUS
    <3>6. /\ nodes' \in [0..(block' - 1) -> Int] /\ beyond' = FALSE
          /\ Rising(nodes', 0, nelem - 1) /\ Vals(nodes', 0, nelem - 1) = Vals(nodes, 0, nelem - 1)
          /\ \A k \in 0..(nelem - 1) : nodes'[k] = nodes[k]
          /\ Rising(nodes', s - 1, top - 1)
          /\ \A y : y \in Vals(nodes', s - 1, top - 1) <=> y \in Vals(nodes, s, top - 1) \/ y = v
      BY ONLY <3>4, <3>5, ItemLaid
    <3>7. PICK f, d : f = nodes' /\ d = id
      OBVIOUS
    <3>8. v \notin Vals(nodes, 0, low)
      <4> SUFFICES ASSUME NEW k \in 0..low, nodes[k] = v PROVE FALSE
        BY DEF Vals
      <4>0. nodes[k] \in Int /\ v \in Int /\ id \in -1..low /\ low \in Int
        BY <1>3, <1>9
      <4>1. CASE k <= id
        <5>1. id \in 0..low /\ nodes[id] < v /\ nodes[id] \in Int
          BY <1>9, <2>5, <4>0, <4>1
        <5>2. k = id \/ nodes[k] < nodes[id]
          <6>1. Rising(nodes, 0, low)
            BY <1>3
          <6> QED
            BY ONLY <4>0, <4>1, <5>1, <6>1 DEF Rising
        <5>3. nodes[k] = v
          OBVIOUS
        <5> QED
          BY ONLY <4>0, <5>1, <5>2, <5>3
      <4>2. CASE k > id
        <5>1. k \in (id + 1)..low
          BY <4>0, <4>2
        <5>2. src1[a] < nodes[k]
          BY <1>6, <1>13, <5>1
        <5> QED
          BY <1>16, <4>0, <5>2
      <4> QED
        BY <4>0, <4>1, <4>2
    <3>9. /\ Rising(f, 0, low) /\ Vals(f, 0, low) = Vals(nodes, 0, low)
          /\ \A k \in 0..low : f[k] = nodes[k]
          /\ Rising(f, next, top - 1) /\ f \in [0..(block - 1) -> Int]
      BY <1>1, <1>3, <3>3, <3>6, <3>7
    <3>10. \A y : y \in Vals(f, next, top - 1) <=>
                   y \in Vals(src1, a, c1) /\ y \in Vals(src2, b, c2) /\ y \notin Vals(nodes, 0, low)
      <4>1. \A y : y \in Vals(f, next, top - 1) <=> y \in Vals(nodes, sbase, top - 1) \/ y = v
        BY ONLY <3>3, <3>6, <3>7
      <4> QED
        BY ONLY <1>5, <2>3, <3>8, <4>1
    <3>11. \A k \in (d + 1)..low : \A j \in 1..a1 : src1[j] < f[k]
      <4> SUFFICES ASSUME NEW k \in (d + 1)..low, NEW j \in 1..a1 PROVE src1[j] < f[k]
        OBVIOUS
      <4>1. k \in 0..low
        BY <1>3, <3>7
      <4>2. src1[j] < nodes[k]
        BY <1>6, <1>12, <3>7
      <4> QED
        BY <3>9, <4>1, <4>2
    <3>12. /\ next \in Int /\ next <= top /\ top - next <= c1 - a1 /\ top - next <= c2 - b1 /\ d \in -1..low
           /\ sbase' = next /\ id' = d
      BY <1>3, <1>10, <2>5, <3>3, <3>7, SMTT(30)
    <3>13. Seen(c1, c2, top, low, f, a1, b1, d, next)
      BY ONLY <1>1, <1>3, <1>4, <1>11, <2>1, <2>2, <2>5, <3>6, <3>7, <3>9, <3>10, <3>11, <3>12 DEF Seen
    <3> QED
      BY ONLY <3>5, <3>13, SightKeeps
  <2> QED
    BY <1>30, <2>4, <2>5
<1>40. \/ v < w /\ i2' = i2 - 1 /\ nodes' = nodes /\ beyond' = beyond /\ i1' = i1 /\ id' = id /\ sbase' = sbase
       \/ v > w /\ i1' = i1 - 1 /\ nodes' = nodes /\ beyond' = beyond /\ i2' = i2 /\ id' = id /\ sbase' = sbase
       \/ /\ v = w /\ id >= 0 /\ nodes[id] > v /\ id' = id - 1
          /\ nodes' = nodes /\ beyond' = beyond /\ i1' = i1 /\ i2' = i2 /\ sbase' = sbase
       \/ /\ v = w /\ id >= 0 /\ nodes[id] = v /\ i1' = i1 - 1 /\ i2' = i2 - 1
          /\ nodes' = nodes /\ beyond' = beyond /\ id' = id /\ sbase' = sbase
       \/ /\ v = w /\ (id >= 0 => nodes[id] < v) /\ N!Put(sbase - 1, v) /\ sbase' = sbase - 1
          /\ i1' = i1 - 1 /\ i2' = i2 - 1 /\ id' = id
  <2>1. PICK p, q : p = i1 + 1 /\ q = i2 + 1
    OBVIOUS
  <2>2. \/ src1[p] < src2[q] /\ i2' = i2 - 1 /\ nodes' = nodes /\ beyond' = beyond /\ i1' = i1 /\ id' = id /\ sbase' = sbase
        \/ src1[p] > src2[q] /\ i1' = i1 - 1 /\ nodes' = nodes /\ beyond' = beyond /\ i2' = i2 /\ id' = id /\ sbase' = sbase
        \/ /\ src1[p] = src2[q] /\ id >= 0 /\ nodes[id] > src1[p] /\ id' = id - 1
           /\ nodes' = nodes /\ beyond' = beyond /\ i1' = i1 /\ i2' = i2 /\ sbase' = sbase
        \/ /\ src1[p] = src2[q] /\ id >= 0 /\ nodes[id] = src1[p] /\ i1' = i1 - 1 /\ i2' = i2 - 1
           /\ nodes' = nodes /\ beyond' = beyond /\ id' = id /\ sbase' = sbase
        \/ /\ src1[p] = src2[q] /\ (id >= 0 => nodes[id] < src1[p]) /\ N!Put(sbase - 1, src1[p])
           /\ sbase' = sbase - 1 /\ i1' = i1 - 1 /\ i2' = i2 - 1 /\ id' = id
    BY <2>1 DEF N!IntersectItem
  <2>3. p = a /\ q = b
    BY <1>3, <2>1
  <2>4. v = src1[p] /\ w = src2[q]
    BY <1>16, <2>3
  <2> QED
    BY ONLY <2>2, <2>4
<1> QED
  BY ONLY <1>20, <1>21, <1>22, <1>30, <1>40

\* One source is used up and the slide begins.
LEMMA IntersectEndKeeps == ASSUME SetInv, N!IntersectEnd PROVE SetInv'
<1>1. PICK c1, c2, a, b, low, last, top :
         /\ c1 = Len(src1) /\ c2 = Len(src2) /\ a = i1 + 1 /\ b = i2 + 1 /\ low = nelem - 1
         /\ last = nelem + Len(src1) + Len(src2) - 1 /\ top = nelem + c1 + c2
  OBVIOUS
<1>2. /\ loop = "intersect" /\ (i1 < 0 \/ i2 < 0) /\ nodes' = nodes /\ beyond' = beyond
      /\ N!SlideBegin(sbase, last)
  BY <1>1 DEF N!IntersectEnd
<1>3. Shares(nodes, nelem, members, block, src1, src2, a, b, id, sbase) /\ i1 \in Int /\ i2 \in Int
  BY <1>1, <1>2 DEF SetInv, Sharing
<1>4. src1 \in Sources /\ src2 \in Sources
  BY <1>3 DEF Shares
<1>5. /\ c1 \in Nat /\ c2 \in Nat /\ nelem \in Nat /\ block \in Nat
      /\ (\A j \in 1..c1 : src1[j] \in Int) /\ (\A j \in 1..c2 : src2[j] \in Int)
  BY <1>1, <1>4, SourcesAre, SetNumbers
<1>6. /\ a \in 0..c1 /\ b \in 0..c2 /\ top <= block
      /\ sbase \in Int /\ sbase <= top /\ top - sbase <= c1 - a /\ top - sbase <= c2 - b
      /\ Rising(nodes, 0, low) /\ Rising(nodes, sbase, top - 1)
  BY ONLY <1>1, <1>3, <1>5 DEF Shares
<1>7. /\ \A j \in (a + 1)..c1, m \in 1..b : src2[m] < src1[j]
      /\ \A j \in 1..a, m \in (b + 1)..c2 : src1[j] < src2[m]
  BY ONLY <1>1, <1>3, <1>5 DEF Shares
<1>8. Vals(nodes, sbase, top - 1)
         = (Vals(src1, a + 1, c1) \intersect Vals(src2, b + 1, c2)) \ Vals(nodes, 0, low)
  BY ONLY <1>1, <1>3, <1>5 DEF Shares
<1>9. members = Vals(nodes, 0, low) \union (Vals(src1, 1, c1) \intersect Vals(src2, 1, c2))
  BY ONLY <1>1, <1>3, <1>5 DEF Shares
<1>10. a = 0 \/ b = 0
  BY <1>1, <1>2, <1>3, <1>5, <1>6
<1>11. last = top - 1 /\ last \in Int /\ top \in Int
  BY <1>1, <1>5
<1>12. \A y : y \in Vals(src1, 1, c1) /\ y \in Vals(src2, 1, c2) =>
             y \in Vals(src1, a + 1, c1) /\ y \in Vals(src2, b + 1, c2)
  <2> SUFFICES ASSUME NEW y, NEW j \in 1..c1, NEW m \in 1..c2, y = src1[j], y = src2[m]
               PROVE  y \in Vals(src1, a + 1, c1) /\ y \in Vals(src2, b + 1, c2)
    BY DEF Vals
  <2>0. y \in Int /\ y = src1[j] /\ y = src2[m]
    BY <1>5
  <2>1. j \in (a + 1)..c1
    <3>1. CASE a = 0
      BY ONLY <1>5, <3>1
    <3>2. CASE b = 0 /\ j \in 1..a
      <4>1. m \in (b + 1)..c2
        BY ONLY <1>5, <3>2
      <4>2. src1[j] < src2[m]
        BY ONLY <1>7, <3>2, <4>1
      <4> QED
        BY ONLY <2>0, <4>2
    <3>3. j \in 1..a \/ j \in (a + 1)..c1
      BY ONLY <1>5, <1>6
    <3> QED
      BY ONLY <1>10, <3>1, <3>2, <3>3
  <2>2. m \in (b + 1)..c2
    <3>1. CASE b = 0
      BY ONLY <1>5, <3>1
    <3>2. CASE a = 0 /\ m \in 1..b
      <4>1. src2[m] < src1[j]
        BY ONLY <1>7, <2>1, <3>2
      <4> QED
        BY ONLY <2>0, <4>1
    <3>3. m \in 1..b \/ m \in (b + 1)..c2
      BY ONLY <1>5, <1>6
    <3> QED
      BY ONLY <1>10, <3>1, <3>2, <3>3
  <2> QED
    BY <2>0, <2>1, <2>2 DEF Vals
<1>13. \A y : y \in Vals(nodes, sbase, last) <=>
              /\ y \in Vals(src1, 1, c1) /\ y \in Vals(src2, 1, c2) /\ y \notin Vals(nodes, 0, low)
  <2>1. \A y : y \in Vals(nodes, sbase, last) <=>
               /\ y \in Vals(src1, a + 1, c1) /\ y \in Vals(src2, b + 1, c2) /\ y \notin Vals(nodes, 0, low)
    BY ONLY <1>8, <1>11
  <2>2. ((a + 1)..c1) \subseteq 1..c1 /\ ((b + 1)..c2) \subseteq 1..c2
    BY <1>5, <1>6
  <2>3. /\ \A y : y \in Vals(src1, a + 1, c1) => y \in Vals(src1, 1, c1)
        /\ \A y : y \in Vals(src2, b + 1, c2) => y \in Vals(src2, 1, c2)
    BY <2>2 DEF Vals
  <2> QED
    BY ONLY <1>12, <2>1, <2>3
<1>14. members = Vals(nodes, 0, low) \union Vals(nodes, sbase, last)
  BY ONLY <1>9, <1>13
<1>15. \A k \in 0..low, l \in sbase..last : nodes[k] # nodes[l]
  <2>1. \A l \in sbase..last : nodes[l] \notin Vals(nodes, 0, low)
    <3> SUFFICES ASSUME NEW l \in sbase..last PROVE nodes[l] \notin Vals(nodes, 0, low)
      OBVIOUS
    <3>1. nodes[l] \in Vals(nodes, sbase, last)
      BY DEF Vals
    <3> QED
      BY ONLY <1>13, <3>1
  <2> QED
    BY <2>1 DEF Vals
<1>16. PICK f, s : f = nodes' /\ s = sbase
  OBVIOUS
<1>17. Ready(f, nelem, members, block, s, last)
  <2>1. /\ nelem \in Nat /\ block \in Nat /\ s \in Int /\ last \in Int
        /\ s <= last + 1 /\ last < block /\ nelem + (last - s + 1) <= s
    BY ONLY <1>5, <1>6, <1>10, <1>11, <1>16, <1>1, SMTT(30)
  <2>2. f = nodes /\ low = nelem - 1 /\ sbase = s
    BY <1>1, <1>2, <1>16
  <2>3. Rising(f, 0, nelem - 1) /\ Rising(f, s, last)
    BY ONLY <1>6, <1>11, <2>2
  <2>4. \A k \in 0..(nelem - 1), l \in s..last : f[k] # f[l]
    BY ONLY <1>15, <2>2
  <2>5. members = Vals(f, 0, nelem - 1) \union Vals(f, s, last)
    BY ONLY <1>14, <2>2
  <2> QED
    BY ONLY <2>1, <2>3, <2>4, <2>5 DEF Ready
<1>18. SetInv /\ nodes' \in [0..(block - 1) -> Int] /\ beyond' = FALSE
  BY <1>2, SetNumbers
<1>19. Ready(nodes', nelem, members, block, s, last) /\ N!SlideBegin(s, last)
  BY <1>2, <1>16, <1>17
<1> QED
  BY ONLY <1>18, <1>19, SlideStarts

--------------------------------------------------------------------------------
(* Node sets: the slide.                                                   *)

\* What the loop that slides looks at, in names of its own.
Slide(t, s, d, low, high, p) ==
    /\ t = is /\ s = sbase /\ d = id /\ low = nelem - 1 /\ p = d + (t - s + 1) /\ high = p + 1
    /\ t \in Int /\ s \in Int /\ d \in Int /\ low \in Int /\ p \in Int /\ high \in Int
    /\ d >= -1 /\ s <= t + 1 /\ p <= low /\ low < s /\ t < block /\ d <= p
    /\ nelem \in Nat /\ block \in Nat /\ nelem <= block
    /\ Rising(nodes, 0, d) /\ Rising(nodes, s, t) /\ Rising(nodes, high, low)
    /\ \A k \in 0..d, l \in s..t : nodes[k] # nodes[l]
    /\ \A k \in 0..d, l \in high..low : nodes[k] < nodes[l]
    /\ \A k \in s..t, l \in high..low : nodes[k] < nodes[l]
    /\ members = Vals(nodes, 0, d) \union Vals(nodes, s, t) \union Vals(nodes, high, low)

\* The loop that slides, in those names.
LEMMA SlidingIs ==
  ASSUME SetInv, loop = "slide"
  PROVE  \E t, s, d, low, high, p : Slide(t, s, d, low, high, p)
<1>1. PICK t, s, d, low, high, p :
         t = is /\ s = sbase /\ d = id /\ low = nelem - 1 /\ p = d + (t - s + 1) /\ high = p + 1
  OBVIOUS
<1>2. Slides(nodes, nelem, members, block, d, t, s)
  BY <1>1 DEF SetInv, Sliding
<1>3. nelem \in Nat /\ block \in Nat /\ nelem <= block
  BY SetNumbers
<1>4. /\ t \in Int /\ s \in Int /\ d \in Int /\ d >= -1 /\ s <= t + 1 /\ high <= nelem /\ nelem <= s /\ t < block
      /\ Rising(nodes, 0, d) /\ Rising(nodes, s, t)
  BY ONLY <1>1, <1>2, <1>3 DEF Slides
<1>5. high = d + (t - s + 1) + 1 /\ low = nelem - 1
  BY <1>1
<1>6. /\ Rising(nodes, high, low)
      /\ \A k \in 0..d, l \in s..t : nodes[k] # nodes[l]
      /\ \A k \in 0..d, l \in high..low : nodes[k] < nodes[l]
      /\ \A k \in s..t, l \in high..low : nodes[k] < nodes[l]
  BY ONLY <1>2, <1>5 DEF Slides
<1>7. members = Vals(nodes, 0, d) \union Vals(nodes, s, t) \union Vals(nodes, high, low)
  BY ONLY <1>2, <1>5 DEF Slides
<1>8. low \in Int /\ p \in Int /\ high \in Int /\ p <= low /\ low < s /\ d <= p
  BY <1>1, <1>3, <1>4
<1>9. Slide(t, s, d, low, high, p)
  BY ONLY <1>1, <1>3, <1>4, <1>6, <1>7, <1>8 DEF Slide
<1> QED
  BY <1>9

\* After a round: f is the block, with one more in its place.
Slid(f, t, s, d, low, p) ==
    /\ t \in Int /\ s \in Int /\ d \in Int /\ low \in Int /\ p \in Int
    /\ d >= -1 /\ s <= t + 1 /\ p <= low /\ low < s /\ t < block
    /\ p = d + (t - s + 1) + 1 /\ low = nelem - 1
    /\ Rising(f, 0, d) /\ Rising(f, s, t) /\ Rising(f, p, low)
    /\ \A k \in 0..d, l \in s..t : f[k] # f[l]
    /\ \A k \in 0..d, l \in p..low : f[k] < f[l]
    /\ \A k \in s..t, l \in p..low : f[k] < f[l]
    /\ members = Vals(f, 0, d) \union Vals(f, s, t) \union Vals(f, p, low)
    /\ f = nodes' /\ f \in [0..(block - 1) -> Int] /\ beyond' = FALSE
    /\ loop' = "slide" /\ alloc' = alloc /\ nelem' = nelem /\ block' = block /\ members' = members
    /\ id' = d /\ is' = t /\ sbase' = s

\* What a round of it must leave for the next.
LEMMA SlidKeeps ==
  ASSUME SetInv, NEW f, NEW t, NEW s, NEW d, NEW low, NEW p, Slid(f, t, s, d, low, p)
  PROVE  SetInv'
<1>0. /\ t \in Int /\ s \in Int /\ d \in Int /\ low \in Int /\ p \in Int
      /\ d >= -1 /\ s <= t + 1 /\ p <= low /\ low < s /\ t < block
      /\ p = d + (t - s + 1) + 1 /\ low = nelem - 1
      /\ Rising(f, 0, d) /\ Rising(f, s, t) /\ Rising(f, p, low)
  BY DEF Slid
<1>1. /\ \A k \in 0..d, l \in s..t : f[k] # f[l]
      /\ \A k \in 0..d, l \in p..low : f[k] < f[l]
      /\ \A k \in s..t, l \in p..low : f[k] < f[l]
  BY DEF Slid
<1>2. members = Vals(f, 0, d) \union Vals(f, s, t) \union Vals(f, p, low)
  BY DEF Slid
<1>3. /\ f = nodes' /\ f \in [0..(block - 1) -> Int] /\ beyond' = FALSE
      /\ loop' = "slide" /\ alloc' = alloc /\ nelem' = nelem /\ block' = block /\ members' = members
      /\ id' = d /\ is' = t /\ sbase' = s
  BY DEF Slid
<1>4. alloc \in Nat /\ nelem \in Nat /\ block \in Nat /\ nelem <= block /\ members \subseteq Int
  BY SetNumbers
<1>5. p <= nelem /\ nelem <= s
  BY <1>0, <1>4
<1>6. Slides(f, nelem, members, block, d, t, s)
  BY ONLY <1>0, <1>1, <1>2, <1>5 DEF Slides
<1>7. Sliding'
  BY ONLY <1>3, <1>6 DEF Sliding
<1>8. SetTypes'
  BY ONLY <1>3, <1>4 DEF SetTypes
<1> QED
  BY <1>3, <1>7, <1>8 DEF SetInv, Whole, Searching, Inserting, Uniting, Merging, Sharing

\* An item that goes to its place.
Placing(t, s, d, low, high, p, v) ==
    /\ Slide(t, s, d, low, high, p) /\ d < p /\ d >= 0 /\ v \in Int /\ block' = block /\ N!Put(p, v)
    /\ \A l \in high..low : v < nodes[l]

\* Where it is then, and all that did not move.
Settled(f, t, s, d, low, high, p, v) ==
    /\ f \in [0..(block - 1) -> Int] /\ beyond' = FALSE /\ f[p] = v
    /\ \A k \in 0..d : f[k] = nodes[k]
    /\ \A k \in s..t : f[k] = nodes[k]
    /\ \A k \in high..low : f[k] = nodes[k]
    /\ Rising(f, p, low)
    /\ \A q : q \in Vals(f, p, low) <=> q = v \/ q \in Vals(nodes, high, low)
    /\ \A k \in 0..d : nodes[k] \in Int
    /\ \A k \in s..t : nodes[k] \in Int

\* The place is free, so nothing that is needed is lost.
LEMMA ItemPlaced ==
  ASSUME SetInv, NEW t, NEW s, NEW d, NEW low, NEW high, NEW p, NEW v,
         Placing(t, s, d, low, high, p, v)
  PROVE  Settled(nodes', t, s, d, low, high, p, v)
<1>1. /\ t \in Int /\ s \in Int /\ d \in Int /\ low \in Int /\ p \in Int /\ high \in Int /\ high = p + 1
      /\ d >= -1 /\ s <= t + 1 /\ p <= low /\ low < s /\ t < block /\ d <= p /\ low = nelem - 1
      /\ nelem \in Nat /\ block \in Nat /\ nelem <= block /\ Rising(nodes, high, low)
  BY DEF Slide, Placing
<1>0. v \in Int /\ N!Put(p, v) /\ block' = block /\ d < p /\ \A l \in high..low : v < nodes[l]
  BY DEF Placing
<1>2. \A k \in 0..(block - 1) : nodes[k] \in Int
  BY SetNumbers
<1>3. p \in 0..(block - 1)
  BY <1>0, <1>1
<1>4. /\ nodes' \in [0..(block' - 1) -> Int] /\ beyond' = FALSE /\ nodes'[p] = v
      /\ \A k \in 0..(block - 1) : k # p => nodes'[k] = nodes[k]
  <2>1. SetTypes
    BY DEF SetInv
  <2> QED
    BY <1>0, <1>3, <2>1, PutIs
<1>5. /\ \A k \in 0..d : k \in 0..(block - 1) /\ k # p
      /\ \A k \in s..t : k \in 0..(block - 1) /\ k # p
      /\ \A k \in high..low : k \in 0..(block - 1) /\ k # p
      /\ \A k \in p..low : k = p \/ k \in high..low
  BY <1>0, <1>1
<1>6. PICK h : h = nodes'
  OBVIOUS
<1>7. /\ \A k \in high..low : h[k] = nodes[k]
      /\ h[high - 1] = v /\ h[p] = v /\ high - 1 = p
  BY <1>1, <1>4, <1>5, <1>6
<1>8. Rising(h, high, low) /\ Vals(h, high, low) = Vals(nodes, high, low)
  BY ONLY <1>1, <1>7, SameItems
<1>9. \A k \in (high - 1)..low : h[k] \in Int
  <2>1. \A k \in (high - 1)..low : k = p \/ k \in high..low
    BY <1>5, <1>7
  <2>2. \A k \in high..low : h[k] \in Int
    BY ONLY <1>2, <1>5, <1>7
  <2> QED
    BY <1>0, <1>7, <2>1, <2>2
<1>10. \A k \in high..low : h[high - 1] < h[k]
  BY <1>0, <1>7
<1>11. high - 1 <= low
  BY <1>1
<1>12. Rising(h, high - 1, low) /\ Vals(h, high - 1, low) = Vals(h, high, low) \union {h[high - 1]}
  BY ONLY <1>1, <1>8, <1>9, <1>10, <1>11, ItemBelow
<1>13. Rising(h, p, low) /\ \A q : q \in Vals(h, p, low) <=> q = v \/ q \in Vals(nodes, high, low)
  BY ONLY <1>7, <1>8, <1>12
<1> QED
  BY <1>0, <1>2, <1>4, <1>5, <1>6, <1>13 DEF Settled

\* A round of the slide: the larger of an element and an item goes to the place above.
LEMMA SlideItemKeeps == ASSUME SetInv, N!SlideItem PROVE SetInv'
<1>1. /\ loop = "slide" /\ N!Delta > 0 /\ id >= 0 /\ loop' = "slide"
      /\ alloc' = alloc /\ nelem' = nelem /\ block' = block /\ members' = members /\ sbase' = sbase
      /\ \/ nodes[is] > nodes[id] /\ N!Put(id + N!Delta, nodes[is]) /\ is' = is - 1 /\ id' = id
         \/ nodes[is] <= nodes[id] /\ N!Put(id + N!Delta, nodes[id]) /\ id' = id - 1 /\ is' = is
  BY DEF N!SlideItem
<1>2. PICK t, s, d, low, high, p : Slide(t, s, d, low, high, p)
  BY <1>1, SlidingIs
<1>3. /\ t = is /\ s = sbase /\ d = id /\ low = nelem - 1 /\ p = d + (t - s + 1) /\ high = p + 1
      /\ t \in Int /\ s \in Int /\ d \in Int /\ low \in Int /\ p \in Int /\ high \in Int
      /\ d >= -1 /\ s <= t + 1 /\ p <= low /\ low < s /\ t < block /\ d <= p
      /\ nelem \in Nat /\ block \in Nat /\ nelem <= block
  BY <1>2 DEF Slide
<1>4. Rising(nodes, 0, d) /\ Rising(nodes, s, t)
  BY <1>2 DEF Slide
<1>5. /\ \A k \in 0..d, l \in s..t : nodes[k] # nodes[l]
      /\ \A k \in 0..d, l \in high..low : nodes[k] < nodes[l]
      /\ \A k \in s..t, l \in high..low : nodes[k] < nodes[l]
  BY <1>2 DEF Slide
<1>6. members = Vals(nodes, 0, d) \union Vals(nodes, s, t) \union Vals(nodes, high, low)
  BY <1>2 DEF Slide
<1>7. N!Delta = t - s + 1 /\ id + N!Delta = p /\ t - s + 1 > 0 /\ d >= 0
  BY <1>1, <1>3 DEF N!Delta
<1>8. /\ s <= t /\ d < p /\ d \in 0..d /\ t \in s..t /\ 0 <= d
  BY <1>3, <1>7
<1>9. /\ (\A k \in 0..d : nodes[k] \in Int) /\ (\A k \in s..t : nodes[k] \in Int)
  <2>1. \A k \in 0..(block - 1) : nodes[k] \in Int
    BY SetNumbers
  <2>2. /\ \A k \in 0..d : k \in 0..(block - 1)
        /\ \A k \in s..t : k \in 0..(block - 1)
    BY <1>3
  <2> QED
    BY <2>1, <2>2
<1>10. PICK x, y : x = nodes[d] /\ y = nodes[t]
  OBVIOUS
<1>11. x \in Int /\ y \in Int /\ x # y
  BY <1>5, <1>8, <1>9, <1>10
<1>12. /\ \A q : q \in Vals(nodes, 0, d) <=> q = x \/ q \in Vals(nodes, 0, d - 1)
       /\ Rising(nodes, 0, d - 1) /\ \A k \in 0..(d - 1) : nodes[k] < x
  <2>1. /\ Vals(nodes, 0, d) = Vals(nodes, 0, d - 1) \union {nodes[d]}
        /\ Rising(nodes, 0, d - 1) /\ \A k \in 0..(d - 1) : nodes[k] < nodes[d]
    BY ONLY <1>3, <1>4, <1>8, <1>9, ItemApart
  <2> QED
    BY ONLY <1>10, <2>1
<1>13. /\ \A q : q \in Vals(nodes, s, t) <=> q = y \/ q \in Vals(nodes, s, t - 1)
       /\ Rising(nodes, s, t - 1) /\ \A k \in s..(t - 1) : nodes[k] < y
  <2>1. /\ Vals(nodes, s, t) = Vals(nodes, s, t - 1) \union {nodes[t]}
        /\ Rising(nodes, s, t - 1) /\ \A k \in s..(t - 1) : nodes[k] < nodes[t]
    BY ONLY <1>3, <1>4, <1>8, <1>9, ItemApart
  <2> QED
    BY ONLY <1>10, <2>1
<1>14. /\ \A k \in 0..d : k = d \/ k \in 0..(d - 1)
       /\ \A k \in s..t : k = t \/ k \in s..(t - 1)
       /\ \A k \in 0..(d - 1) : k \in 0..d
       /\ \A k \in s..(t - 1) : k \in s..t
       /\ \A k \in p..low : k = p \/ k \in high..low
  BY <1>3
<1>15. CASE y > x /\ N!Put(p, y) /\ is' = is - 1 /\ id' = id
  <2>1. \A l \in high..low : y < nodes[l]
    BY <1>5, <1>8, <1>10
  <2>2. PICK f, e : f = nodes' /\ e = t - 1
    OBVIOUS
  <2>3. /\ f \in [0..(block - 1) -> Int] /\ beyond' = FALSE /\ f[p] = y
        /\ \A k \in 0..d : f[k] = nodes[k]
        /\ \A k \in s..t : f[k] = nodes[k]
        /\ \A k \in high..low : f[k] = nodes[k]
        /\ Rising(f, p, low)
        /\ \A q : q \in Vals(f, p, low) <=> q = y \/ q \in Vals(nodes, high, low)
    <3>0. SetInv /\ Placing(t, s, d, low, high, p, y)
      BY <1>1, <1>2, <1>7, <1>8, <1>11, <1>15, <2>1 DEF Placing
    <3>1. Settled(nodes', t, s, d, low, high, p, y)
      BY ONLY <3>0, ItemPlaced
    <3>2. Settled(f, t, s, d, low, high, p, y)
      BY ONLY <2>2, <3>1
    <3> QED
      BY ONLY <3>2 DEF Settled
  <2>4. e \in Int /\ s <= e + 1 /\ e < block /\ p = d + (e - s + 1) + 1 /\ is' = e /\ id' = d /\ sbase' = s
    BY <1>1, <1>3, <1>8, <1>15, <2>2
  <2>5. Rising(f, 0, d) /\ Vals(f, 0, d) = Vals(nodes, 0, d)
    <3>1. 0 \in Int /\ d \in Int /\ Rising(nodes, 0, d) /\ \A k \in 0..d : f[k] = nodes[k]
      BY <1>3, <1>4, <2>3
    <3> QED
      BY ONLY <3>1, SameItems
  <2>6. Rising(f, s, e) /\ Vals(f, s, e) = Vals(nodes, s, e)
    <3>1. \A k \in s..e : f[k] = nodes[k]
      BY <1>14, <2>2, <2>3
    <3>2. Rising(nodes, s, e)
      BY <1>13, <2>2
    <3> QED
      BY ONLY <1>3, <2>4, <3>1, <3>2, SameItems
  <2>7. \A k \in 0..d, l \in s..e : f[k] # f[l]
    BY <1>5, <1>14, <2>2, <2>3
  <2>8. \A k \in 0..d, l \in p..low : f[k] < f[l]
    <3> SUFFICES ASSUME NEW k \in 0..d, NEW l \in p..low PROVE f[k] < f[l]
      OBVIOUS
    <3>1. CASE l \in high..low
      BY <1>5, <2>3, <3>1
    <3>2. CASE l = p
      <4>1. nodes[k] = x \/ nodes[k] < x
        BY <1>10, <1>12, <1>14
      <4>2. nodes[k] \in Int /\ f[k] = nodes[k] /\ f[l] = y /\ y > x
        BY <1>9, <1>15, <2>3, <3>2
      <4> QED
        BY ONLY <1>11, <4>1, <4>2
    <3> QED
      BY <1>14, <3>1, <3>2
  <2>9. \A k \in s..e, l \in p..low : f[k] < f[l]
    <3> SUFFICES ASSUME NEW k \in s..e, NEW l \in p..low PROVE f[k] < f[l]
      OBVIOUS
    <3>0. k \in s..(t - 1) /\ k \in s..t
      BY <1>14, <2>2
    <3>1. CASE l \in high..low
      BY <1>5, <2>3, <3>0, <3>1
    <3>2. CASE l = p
      BY <1>13, <2>3, <3>0, <3>2
    <3> QED
      BY <1>14, <3>1, <3>2
  <2>10. members = Vals(f, 0, d) \union Vals(f, s, e) \union Vals(f, p, low)
    <3>1. \A q : q \in Vals(nodes, s, t) <=> q = y \/ q \in Vals(nodes, s, e)
      BY ONLY <1>13, <2>2
    <3> QED
      BY ONLY <1>6, <2>3, <2>5, <2>6, <3>1
  <2>11. Slid(f, e, s, d, low, p)
    BY ONLY <1>1, <1>3, <2>2, <2>3, <2>4, <2>5, <2>6, <2>7, <2>8, <2>9, <2>10 DEF Slid
  <2>12. SetInv
    OBVIOUS
  <2> QED
    BY ONLY <2>11, <2>12, SlidKeeps
<1>16. CASE x > y /\ N!Put(p, x) /\ id' = id - 1 /\ is' = is
  <2>1. \A l \in high..low : x < nodes[l]
    BY <1>5, <1>8, <1>10
  <2>2. PICK f, e : f = nodes' /\ e = d - 1
    OBVIOUS
  <2>3. /\ f \in [0..(block - 1) -> Int] /\ beyond' = FALSE /\ f[p] = x
        /\ \A k \in 0..d : f[k] = nodes[k]
        /\ \A k \in s..t : f[k] = nodes[k]
        /\ \A k \in high..low : f[k] = nodes[k]
        /\ Rising(f, p, low)
        /\ \A q : q \in Vals(f, p, low) <=> q = x \/ q \in Vals(nodes, high, low)
    <3>0. SetInv /\ Placing(t, s, d, low, high, p, x)
      BY <1>1, <1>2, <1>7, <1>8, <1>11, <1>16, <2>1 DEF Placing
    <3>1. Settled(nodes', t, s, d, low, high, p, x)
      BY ONLY <3>0, ItemPlaced
    <3>2. Settled(f, t, s, d, low, high, p, x)
      BY ONLY <2>2, <3>1
    <3> QED
      BY ONLY <3>2 DEF Settled
  <2>4. e \in Int /\ e >= -1 /\ p = e + (t - s + 1) + 1 /\ is' = t /\ id' = e /\ sbase' = s
    BY <1>1, <1>3, <1>8, <1>16, <2>2
  <2>5. Rising(f, 0, e) /\ Vals(f, 0, e) = Vals(nodes, 0, e)
    <3>1. \A k \in 0..e : f[k] = nodes[k]
      BY <1>14, <2>2, <2>3
    <3>2. Rising(nodes, 0, e) /\ 0 \in Int
      BY <1>12, <2>2
    <3> QED
      BY ONLY <2>4, <3>1, <3>2, SameItems
  <2>6. Rising(f, s, t) /\ Vals(f, s, t) = Vals(nodes, s, t)
    <3>1. s \in Int /\ t \in Int /\ Rising(nodes, s, t) /\ \A k \in s..t : f[k] = nodes[k]
      BY <1>3, <1>4, <2>3
    <3> QED
      BY ONLY <3>1, SameItems
  <2>7. \A k \in 0..e, l \in s..t : f[k] # f[l]
    BY <1>5, <1>14, <2>2, <2>3
  <2>8. \A k \in s..t, l \in p..low : f[k] < f[l]
    <3> SUFFICES ASSUME NEW k \in s..t, NEW l \in p..low PROVE f[k] < f[l]
      OBVIOUS
    <3>1. CASE l \in high..low
      BY <1>5, <2>3, <3>1
    <3>2. CASE l = p
      <4>1. nodes[k] = y \/ nodes[k] < y
        BY <1>10, <1>13, <1>14
      <4>2. nodes[k] \in Int /\ f[k] = nodes[k] /\ f[l] = x /\ x > y
        BY <1>9, <1>16, <2>3, <3>2
      <4> QED
        BY ONLY <1>11, <4>1, <4>2
    <3> QED
      BY <1>14, <3>1, <3>2
  <2>9. \A k \in 0..e, l \in p..low : f[k] < f[l]
    <3> SUFFICES ASSUME NEW k \in 0..e, NEW l \in p..low PROVE f[k] < f[l]
      OBVIOUS
    <3>0. k \in 0..(d - 1) /\ k \in 0..d
      BY <1>14, <2>2
    <3>1. CASE l \in high..low
      BY <1>5, <2>3, <3>0, <3>1
    <3>2. CASE l = p
      BY <1>12, <2>3, <3>0, <3>2
    <3> QED
      BY <1>14, <3>1, <3>2
  <2>10. members = Vals(f, 0, e) \union Vals(f, s, t) \union Vals(f, p, low)
    <3>1. \A q : q \in Vals(nodes, 0, d) <=> q = x \/ q \in Vals(nodes, 0, e)
      BY ONLY <1>12, <2>2
    <3> QED
      BY ONLY <1>6, <2>3, <2>5, <2>6, <3>1
  <2>11. Slid(f, t, s, e, low, p)
    BY ONLY <1>1, <1>3, <2>2, <2>3, <2>4, <2>5, <2>6, <2>7, <2>8, <2>9, <2>10 DEF Slid
  <2>12. SetInv
    OBVIOUS
  <2> QED
    BY ONLY <2>11, <2>12, SlidKeeps
<1>17. /\ (nodes[is] > nodes[id] /\ N!Put(id + N!Delta, nodes[is]) <=> y > x /\ N!Put(p, y))
       /\ (nodes[is] <= nodes[id] /\ N!Put(id + N!Delta, nodes[id]) <=> y <= x /\ N!Put(p, x))
  <2>1. nodes[is] = y /\ nodes[id] = x /\ id + N!Delta = p
    BY <1>3, <1>7, <1>10
  <2> QED
    BY ONLY <2>1
<1>18. y <= x <=> x > y
  BY <1>11
<1> QED
  BY ONLY <1>1, <1>15, <1>16, <1>17, <1>18

--------------------------------------------------------------------------------
(* Node sets: all together.                                                *)

\* The rest of the workbench goes to the front, and the set is whole.
LEMMA SlideEndKeeps == ASSUME SetInv, N!SlideEnd PROVE SetInv'
<1>1. PICK z, moved, all : z = 0 /\ moved = N!Copied(0, nodes, sbase, N!Delta) /\ all = N!Delta
  OBVIOUS
<1>2. /\ loop = "slide" /\ (all = 0 \/ id < 0)
      /\ nodes' = N!Block(moved, nelem, block) /\ beyond' = (beyond \/ N!Outside(0, all))
      /\ loop' = "none" /\ alloc' = alloc /\ nelem' = nelem /\ block' = block /\ members' = members
  BY <1>1 DEF N!SlideEnd, N!Return
<1>3. PICK t, s, d, low, high, p : Slide(t, s, d, low, high, p)
  BY <1>2, SlidingIs
<1>4. /\ t = is /\ s = sbase /\ d = id /\ low = nelem - 1 /\ p = d + (t - s + 1) /\ high = p + 1
      /\ t \in Int /\ s \in Int /\ d \in Int /\ low \in Int /\ p \in Int /\ high \in Int
      /\ d >= -1 /\ s <= t + 1 /\ p <= low /\ low < s /\ t < block /\ d <= p
      /\ nelem \in Nat /\ block \in Nat /\ nelem <= block
  BY <1>3 DEF Slide
<1>5. Rising(nodes, 0, d) /\ Rising(nodes, s, t) /\ Rising(nodes, high, low)
  BY <1>3 DEF Slide
<1>6. /\ \A k \in 0..d, l \in high..low : nodes[k] < nodes[l]
      /\ \A k \in s..t, l \in high..low : nodes[k] < nodes[l]
  BY <1>3 DEF Slide
<1>7. members = Vals(nodes, 0, d) \union Vals(nodes, s, t) \union Vals(nodes, high, low)
  BY <1>3 DEF Slide
<1>8. all = t - s + 1 /\ all \in Nat /\ all <= nelem /\ s \in Nat /\ (all = 0 \/ d = -1)
  BY <1>1, <1>2, <1>4 DEF N!Delta
<1>9. \A k \in 0..(block - 1) : nodes[k] \in Int
  BY SetNumbers
<1>10. /\ moved \in [0..(block - 1) -> Int]
       /\ \A k \in 0..(all - 1) : moved[k] = nodes[s + k]
       /\ \A k \in 0..(block - 1) : k >= all => moved[k] = nodes[k]
  <2>1. z \in Nat /\ all \in Nat /\ z + all <= block /\ s \in Int /\ SetTypes
    BY <1>1, <1>4, <1>8 DEF SetInv
  <2>2. \A k \in s..(s + all - 1) : nodes[k] \in Int
    <3>1. \A k \in s..(s + all - 1) : k \in 0..(block - 1)
      BY <1>4, <1>8
    <3> QED
      BY <1>9, <3>1
  <2>3. /\ N!Copied(z, nodes, s, all) \in [0..(block - 1) -> Int]
        /\ \A k \in z..(z + all - 1) : N!Copied(z, nodes, s, all)[k] = nodes[s + k - z]
        /\ \A k \in 0..(block - 1) :
              k < z \/ k >= z + all => N!Copied(z, nodes, s, all)[k] = nodes[k]
    BY ONLY <2>1, <2>2, CopiedBlock
  <2>4. moved = N!Copied(z, nodes, s, all)
    BY <1>1, <1>4
  <2>5. /\ moved \in [0..(block - 1) -> Int]
        /\ \A k \in z..(z + all - 1) : moved[k] = nodes[s + k - z]
        /\ \A k \in 0..(block - 1) : k < z \/ k >= z + all => moved[k] = nodes[k]
    BY ONLY <2>3, <2>4
  <2>6. \A k \in 0..(all - 1) : k \in z..(z + all - 1) /\ s + k - z = s + k
    BY <1>1, <1>8
  <2>7. \A k \in 0..(block - 1) : k >= all => k >= z + all
    BY <1>1, <1>8
  <2> QED
    BY ONLY <2>5, <2>6, <2>7
<1>11. PICK h : h = nodes'
  OBVIOUS
<1>12. h \in [0..(block - 1) -> Int] /\ \A k \in 0..low : h[k] = moved[k]
  <2>1. \A k \in 0..(nelem - 1) : moved[k] \in Int
    <3>1. \A k \in 0..(nelem - 1) : k \in 0..(block - 1)
      BY <1>4
    <3> QED
      BY <1>10, <3>1
  <2>2. /\ N!Block(moved, nelem, block) \in [0..(block - 1) -> Int]
        /\ \A k \in 0..(nelem - 1) : N!Block(moved, nelem, block)[k] = moved[k]
    BY ONLY <1>4, <2>1, BlockIs
  <2> QED
    BY ONLY <1>2, <1>4, <1>11, <2>2
<1>13. /\ \A k \in 0..(all - 1) : h[k] = nodes[s + k]
       /\ \A k \in all..low : h[k] = nodes[k]
  <2>1. /\ \A k \in 0..(all - 1) : k \in 0..low
        /\ \A k \in all..low : k \in 0..low /\ k \in 0..(block - 1) /\ k >= all
    BY <1>4, <1>8
  <2> QED
    BY ONLY <1>10, <1>12, <2>1
<1>14. ASSUME all = 0 PROVE Rising(h, 0, low) /\ members = Vals(h, 0, low)
  <2>1. d + 1 = high /\ \A k \in 0..low : k \in all..low
    BY <1>4, <1>8, <1>14
  <2>2. \A k \in 0..low : h[k] = nodes[k]
    BY <1>13, <2>1
  <2>3. /\ \A k \in 0..low : k \in 0..d \/ k \in high..low
        /\ \A k \in 0..d : k \in 0..low
        /\ \A k \in high..low : k \in 0..low
        /\ \A k \in s..t : FALSE
    BY <1>4, <1>8, <1>14, <2>1
  <2>4. Rising(h, 0, low)
    <3> SUFFICES ASSUME NEW k \in 0..low, NEW l \in 0..low, k < l PROVE nodes[k] < nodes[l]
      BY <2>2 DEF Rising
    <3>1. CASE l \in 0..d
      <4>1. k \in 0..d
        BY <1>4, <3>1
      <4> QED
        BY <1>5, <3>1, <4>1 DEF Rising
    <3>2. CASE k \in 0..d /\ l \in high..low
      BY <1>6, <3>2
    <3>3. CASE k \in high..low
      <4>1. l \in high..low
        BY <1>4, <3>3
      <4> QED
        BY <1>5, <3>3, <4>1 DEF Rising
    <3> QED
      BY <2>3, <3>1, <3>2, <3>3
  <2>5. members = Vals(h, 0, low)
    <3>1. \A q : q \in members <=> q \in Vals(nodes, 0, d) \/ q \in Vals(nodes, high, low)
      <4>1. Vals(nodes, s, t) = {}
        BY <2>3 DEF Vals
      <4> QED
        BY ONLY <1>7, <4>1
    <3>2. \A q : q \in Vals(h, 0, low) <=> \E k \in 0..low : q = nodes[k]
      BY <2>2 DEF Vals
    <3>3. \A q : q \in members <=> (\E k \in 0..d : q = nodes[k]) \/ (\E k \in high..low : q = nodes[k])
      BY <3>1 DEF Vals
    <3> QED
      BY ONLY <2>3, <3>2, <3>3
  <2> QED
    BY ONLY <2>4, <2>5
<1>15. ASSUME d = -1 PROVE Rising(h, 0, low) /\ members = Vals(h, 0, low)
  <2>1. high = all /\ \A k \in 0..d : FALSE
    BY <1>4, <1>8, <1>15
  <2>2. /\ \A k \in 0..low : k \in 0..(all - 1) \/ k \in high..low
        /\ \A k \in 0..(all - 1) : k \in 0..low /\ s + k \in s..t
        /\ \A k \in high..low : k \in 0..low
    BY <1>4, <1>8, <2>1
  <2>3. Rising(h, 0, low)
    <3> SUFFICES ASSUME NEW k \in 0..low, NEW l \in 0..low, k < l PROVE h[k] < h[l]
      BY DEF Rising
    <3>1. CASE l \in 0..(all - 1)
      <4>1. k \in 0..(all - 1) /\ s + k < s + l
        BY <1>4, <1>8, <3>1
      <4>2. nodes[s + k] < nodes[s + l]
        BY <1>5, <2>2, <3>1, <4>1 DEF Rising
      <4> QED
        BY <1>13, <3>1, <4>1, <4>2
    <3>2. CASE k \in 0..(all - 1) /\ l \in high..low
      <4>1. nodes[s + k] < nodes[l]
        BY <1>6, <2>2, <3>2
      <4> QED
        BY <1>13, <2>1, <3>2, <4>1
    <3>3. CASE k \in high..low
      <4>1. l \in high..low
        BY <1>4, <3>3
      <4>2. nodes[k] < nodes[l]
        BY <1>5, <3>3, <4>1 DEF Rising
      <4> QED
        BY <1>13, <2>1, <3>3, <4>1, <4>2
    <3> QED
      BY <2>2, <3>1, <3>2, <3>3
  <2>4. members = Vals(h, 0, low)
    <3>1. \A q : q \in members <=> (\E k \in s..t : q = nodes[k]) \/ (\E k \in high..low : q = nodes[k])
      <4>1. Vals(nodes, 0, d) = {}
        BY <2>1 DEF Vals
      <4>2. \A q : q \in members <=> q \in Vals(nodes, s, t) \/ q \in Vals(nodes, high, low)
        BY ONLY <1>7, <4>1
      <4> QED
        BY <4>2 DEF Vals
    <3>2. \A q : (\E k \in s..t : q = nodes[k]) <=> \E k \in 0..(all - 1) : q = h[k]
      <4>1. ASSUME NEW k \in s..t PROVE k - s \in 0..(all - 1) /\ h[k - s] = nodes[k]
        <5>1. k - s \in 0..(all - 1) /\ s + (k - s) = k
          BY <1>4, <1>8
        <5> QED
          BY <1>13, <5>1
      <4>2. ASSUME NEW k \in 0..(all - 1) PROVE s + k \in s..t /\ h[k] = nodes[s + k]
        BY <1>13, <2>2
      <4> QED
        BY <4>1, <4>2
    <3>3. \A q : (\E k \in high..low : q = nodes[k]) <=> \E k \in high..low : q = h[k]
      BY <1>13, <2>1
    <3>4. \A q : q \in Vals(h, 0, low) <=> (\E k \in 0..(all - 1) : q = h[k]) \/ (\E k \in high..low : q = h[k])
      BY <2>2 DEF Vals
    <3> QED
      BY ONLY <3>1, <3>2, <3>3, <3>4
  <2> QED
    BY ONLY <2>3, <2>4
<1>16. Rising(h, 0, low) /\ members = Vals(h, 0, low)
  BY <1>8, <1>14, <1>15
<1>17. Rising(nodes', 0, nelem' - 1) /\ members' = Vals(nodes', 0, nelem' - 1)
  BY ONLY <1>2, <1>4, <1>11, <1>16
<1>18. beyond' = FALSE
  <2>1. ~N!Outside(0, all) /\ beyond = FALSE
    BY <1>4, <1>8, SetNumbers DEF N!Outside
  <2> QED
    BY <1>2, <2>1
<1>19. SetTypes'
  <2>1. alloc \in Nat /\ members \subseteq Int /\ h \in [0..(block - 1) -> Int]
    BY <1>12, SetNumbers
  <2> QED
    BY ONLY <1>2, <1>4, <1>11, <1>18, <2>1 DEF SetTypes
<1>20. loop' = "none"
  BY <1>2
<1> QED
  BY ONLY <1>17, <1>19, <1>20, OverKeeps

\* Every step of the set keeps all of it.
LEMMA SetSteps == SetInv /\ [N!NodeNext]_set => SetInv'
<1> SUFFICES ASSUME SetInv, [N!NodeNext]_set PROVE SetInv'
  OBVIOUS
<1>1. CASE N!NodeNext
  BY <1>1, MakeKeeps, UnionBeginKeeps, UnionItemKeeps, UnionRestKeeps, MergeBeginKeeps, MergeItemKeeps,
     MergeRestKeeps, IntersectBeginKeeps, IntersectItemKeeps, IntersectEndKeeps, SlideItemKeeps,
     SlideEndKeeps, InsertBeginKeeps, InsertShiftKeeps, InsertEndKeeps, InsertLastKeeps,
     ContainsBeginKeeps, ContainsStepKeeps, ContainsEndKeeps, AnsweredKeeps, RemoveKeeps
  DEF N!NodeNext
<1>2. CASE UNCHANGED set
  BY <1>2 DEF set, SetInv, SetTypes, Whole, Searching, Inserting, Uniting, Merging, Sharing, Sliding
<1> QED
  BY <1>1, <1>2

\* What is true in every loop is more than what is promised.
LEMMA SetIsMeant == SetInv => ArrayIsTheSet
<1> SUFFICES ASSUME SetInv PROVE ArrayIsTheSet
  OBVIOUS
<1>1. nelem <= block /\ beyond = FALSE
  BY SetNumbers
<1>2. loop \in {"none", "found"} => N!Is(members)
  BY DEF SetInv, Whole, Rising, Vals, N!Is
<1>3. loop = "found" =>
         IF elem \in members THEN found \in 1..nelem /\ nodes[found - 1] = elem ELSE found = 0
  BY DEF SetInv, Searching
<1> QED
  BY <1>1, <1>2, <1>3 DEF ArrayIsTheSet, N!ArrayIsTheSet

\* Whatever sets are united, merged, intersected, searched and changed, in whatever
\* order and wherever memory runs out, the array holds the members in order, each
\* once, the binary search answers rightly, and nothing is stored beyond the block
\* (regex_internal.c lines 967-1405).
THEOREM NodeSetsCorrect == StoreSpec => []ArrayIsTheSet
<1>1. StoreInit => SetInv
  BY SetBegins DEF StoreInit
<1>2. SetInv /\ [StoreNext]_storevars => SetInv'
  <2>1. [StoreNext]_storevars => [N!NodeNext]_set
    BY DEF StoreNext, UseObstack, UseHsearch, UseDynarray, UseServices, UseNodeSet, storevars
  <2> QED
    BY <2>1, SetSteps
<1> QED
  BY <1>1, <1>2, SetIsMeant, PTL DEF StoreSpec
================================================================================
