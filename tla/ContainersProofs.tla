------------------------------ MODULE ContainersProofs ------------------------------
(***************************************************************************)
(* Of string vectors, for any strings, any delimiter and any length; and   *)
(* with them and StoresProofs of all the containers together.              *)
(***************************************************************************)
EXTENDS Containers, StoresProofs, SequenceTheorems, TLAPS

--------------------------------------------------------------------------------
(* Argz: blocks of strings.                                                *)

\* What a block is made of, and a string without a NUL.
Characters == STRING \union {Z!NUL}
Text == Seq(Characters)
Clean == {string \in Text : \A p \in DOMAIN string : string[p] # Z!NUL}

\* What comes before each string, string by string.
Piled(f, strings, n) ==
    /\ f \in [0..n -> Text] /\ f[0] = << >>
    /\ \A k \in 1..n : f[k] = f[k - 1] \o Z!Bytes(strings[k])

LEMMA BytesAre ==
    ASSUME NEW string \in Text
    PROVE  /\ Z!Bytes(string) \in Text
           /\ Len(Z!Bytes(string)) = Len(string) + 1
           /\ Z!Bytes(string)[Len(string) + 1] = Z!NUL
           /\ \A p \in 1..Len(string) : Z!Bytes(string)[p] = string[p]
<1>1. Z!NUL \in Characters
  BY DEF Characters
<1>2. string \in Seq(Characters) /\ Len(string) \in Nat
  BY LenProperties DEF Text
<1> HIDE DEF Z!NUL
<1> QED
  BY <1>1, <1>2, AppendProperties DEF Text, Z!Bytes

LEMMA CleanIsText == Clean \subseteq Text
BY DEF Clean

\* The library's recursion is the pile.
LEMMA FlatIs ==
    ASSUME NEW strings \in Seq(Clean), NEW n, n = Len(strings)
    PROVE  \E f : Piled(f, strings, n) /\ Z!Flat(strings) = f[n]
<1>1. n \in Nat /\ DOMAIN strings = 1..n /\ \A k \in 1..n : strings[k] \in Text
  BY CleanIsText, LenProperties, ElementOfSeq
<1>2. PICK bytes : bytes = [k \in 1..n |-> Z!Bytes(strings[k])]
  OBVIOUS
<1>3. \A k \in 1..n : bytes[k] \in Text /\ bytes[k] = Z!Bytes(strings[k])
  BY <1>1, <1>2, BytesAre
<1>4. bytes \in Seq(Text) /\ Len(bytes) = n /\ DOMAIN bytes = 1..n
  BY <1>1, <1>2, <1>3
<1> DEFINE Round == [k \in 1..n |-> [before \in Text |-> before \o bytes[k]]]
<1>5. Round \in [1..n -> [Text -> Text]]
  <2>1. \A k \in 1..n, before \in Text : before \o bytes[k] \in Text
    BY <1>3, ConcatProperties DEF Text
  <2> QED
    BY <2>1
<1>6. << >> \in Text
  BY DEF Text
<1>7. PICK f \in [0..n -> Text] : Computes(f, n, << >>, Round)
  <2> HIDE DEF Round
  <2> QED
    BY <1>1, <1>5, <1>6, Rounds
<1>8. f[0] = << >> /\ \A k \in 1..n : k - 1 \in 0..n /\ f[k - 1] \in Text /\ f[k] = f[k - 1] \o bytes[k]
  <2>1. f[0] = << >> /\ \A k \in 1..n : f[k] = Round[k][f[k - 1]]
    BY <1>7 DEF Computes
  <2>2. \A k \in 1..n : k - 1 \in 0..n /\ f[k - 1] \in Text
    <3>1. n \in Nat /\ f \in [0..n -> Text]
      BY <1>1, <1>7
    <3> QED
      BY ONLY <3>1
  <2>3. ASSUME NEW k \in 1..n PROVE f[k] = f[k - 1] \o bytes[k]
    BY ONLY <2>1, <2>2, <2>3
  <2> HIDE DEF Round
  <2> QED
    BY <2>1, <2>2, <2>3
<1> HIDE DEF Round
<1>9. Piled(f, strings, n)
  BY <1>3, <1>7, <1>8 DEF Piled
<1>10. Z!Flat(strings) = Z!FlattenSeq(bytes)
  BY <1>1, <1>2 DEF Z!Flat
<1>11. CASE n = 0
  <2>1. Z!FlattenSeq(bytes) = bytes
    BY <1>4, <1>11 DEF Z!FlattenSeq
  <2>2. bytes = << >>
    BY <1>4, <1>11, EmptySeq
  <2> QED
    BY <1>8, <1>9, <1>10, <1>11, <2>1, <2>2
<1>12. CASE n # 0
  <2> DEFINE Sum(g, k) == IF k = 1 THEN bytes[k] ELSE g[k - 1] \o bytes[k]
             flatten == CHOOSE g : g = [k \in 1..n |-> Sum(g, k)]
  <2>1. Z!FlattenSeq(bytes) = flatten[n]
    BY <1>4, <1>12 DEF Z!FlattenSeq
  <2>2. \E g : g = [k \in 1..n |-> Sum(g, k)]
    <3> DEFINE g == [k \in 1..n |-> f[k]]
    <3>1. ASSUME NEW k \in 1..n PROVE g[k] = Sum(g, k)
      <4>1. CASE k = 1
        <5>1. f[1] = << >> \o bytes[1]
          BY <1>8, <4>1
        <5> QED
          BY <1>3, <4>1, <5>1, ConcatEmptySeq DEF Text
      <4>2. CASE k # 1
        <5>1. k - 1 \in 1..n
          BY <1>1, <4>2
        <5>2. g[k - 1] = f[k - 1] /\ g[k] = f[k]
          BY <5>1
        <5> QED
          BY <1>8, <4>2, <5>2
      <4> QED
        BY <4>1, <4>2
    <3>2. g = [k \in 1..n |-> g[k]]
      OBVIOUS
    <3>3. g = [k \in 1..n |-> Sum(g, k)]
      <4> HIDE DEF g, Sum
      <4> QED
        BY <3>1, <3>2
    <3> HIDE DEF g, Sum
    <3> QED
      BY <3>3
  <2>3. flatten = [k \in 1..n |-> Sum(flatten, k)]
    <3> HIDE DEF Sum
    <3> QED
      BY <2>2
  <2>4. PICK g : g = flatten
    OBVIOUS
  <2>5. \A k \in 1..n : g[k] = Sum(g, k)
    <3> HIDE DEF Sum, flatten
    <3> QED
      BY <2>3, <2>4
  <2> DEFINE P == {k \in 0..n : k > 0 => g[k] = f[k]}
  <2>6. 0 \in P
    BY <1>1
  <2> HIDE DEF flatten, Sum
  <2>7. ASSUME NEW k \in 0..n, k \in P, k < n PROVE k + 1 \in P
    <3>1. k + 1 \in 1..n /\ (k + 1) - 1 = k
      BY <1>1, <2>7
    <3>2. g[k + 1] = IF k + 1 = 1 THEN bytes[k + 1] ELSE g[(k + 1) - 1] \o bytes[k + 1]
      BY <2>5, <3>1 DEF Sum
    <3>3. f[k + 1] = f[k] \o bytes[k + 1]
      BY <1>8, <3>1
    <3>4. CASE k = 0
      <4>1. f[k + 1] = << >> \o bytes[k + 1]
        BY <1>8, <3>3, <3>4
      <4>2. f[k + 1] = bytes[k + 1]
        BY <1>3, <3>1, <4>1, ConcatEmptySeq DEF Text
      <4> QED
        BY <3>1, <3>2, <3>4, <4>2
    <3>5. CASE k # 0
      <4>1. k > 0
        BY <2>7, <3>5
      <4>3. g[k] = f[k]
        BY <2>7, <4>1
      <4>4. k + 1 # 1
        BY <2>7, <3>5
      <4>5. g[k + 1] = g[k] \o bytes[k + 1]
        BY <3>1, <3>2, <4>4
      <4>2. g[k + 1] = f[k + 1]
        BY <3>3, <4>3, <4>5
      <4> QED
        BY <3>1, <4>2
    <3> QED
      BY <3>4, <3>5
  <2>8. 0..n \subseteq P
    <3>1. P \in SUBSET Nat
      OBVIOUS
    <3> HIDE DEF P
    <3> QED
      BY <1>1, <2>6, <2>7, <3>1, UpTo
  <2>9. g[n] = f[n]
    BY <1>1, <1>12, <2>8
  <2> QED
    BY <1>9, <1>10, <2>1, <2>4, <2>9
<1> QED
  BY <1>11, <1>12

\* Piles of strings that begin alike do so too.
LEMMA PilesAgree ==
    ASSUME NEW f, NEW g, NEW strings, NEW others, NEW n \in Nat, NEW m \in Nat, NEW l \in Nat,
           Piled(f, strings, n), Piled(g, others, m), l <= n, l <= m,
           \A k \in 1..l : strings[k] = others[k]
    PROVE  f[l] = g[l]
<1> DEFINE P == {k \in 0..l : f[k] = g[k]}
<1>1. 0 \in P
  BY DEF Piled
<1>2. ASSUME NEW k \in 0..l, k \in P, k < l PROVE k + 1 \in P
  <2>1. k + 1 \in 1..l /\ k + 1 \in 1..n /\ k + 1 \in 1..m /\ (k + 1) - 1 = k
    BY <1>2
  <2>2. f[k + 1] = f[k] \o Z!Bytes(strings[k + 1]) /\ g[k + 1] = g[k] \o Z!Bytes(others[k + 1])
    BY <2>1 DEF Piled
  <2>3. f[k] = g[k]
    BY <1>2
  <2>4. f[k + 1] = g[k + 1]
    BY <1>2, <2>1, <2>2, <2>3
  <2> QED
    BY <2>1, <2>4
<1>3. 0..l \subseteq P
  <2>1. P \in SUBSET Nat
    OBVIOUS
  <2> HIDE DEF P
  <2> QED
    BY <1>1, <1>2, <2>1, UpTo
<1> QED
  BY <1>3

LEMMA FlatEmpty == Z!Flat(<< >>) = << >>
<1>1. << >> \in Seq(Clean) /\ Len(<< >>) = 0
  BY EmptySeq
<1>2. PICK f : Piled(f, << >>, 0) /\ Z!Flat(<< >>) = f[0]
  BY <1>1, FlatIs
<1> QED
  BY <1>2 DEF Piled

LEMMA FlatIsText ==
    ASSUME NEW strings \in Seq(Clean)
    PROVE  Z!Flat(strings) \in Text
<1>1. PICK n : n = Len(strings)
  OBVIOUS
<1>2. n \in Nat
  BY <1>1, LenProperties
<1>3. PICK f : Piled(f, strings, n) /\ Z!Flat(strings) = f[n]
  BY <1>1, FlatIs
<1> QED
  BY <1>2, <1>3 DEF Piled

\* A string more is its bytes behind.
LEMMA FlatAppend ==
    ASSUME NEW strings \in Seq(Clean), NEW string \in Clean
    PROVE  Z!Flat(Append(strings, string)) = Z!Flat(strings) \o Z!Bytes(string)
<1>1. PICK n : n = Len(strings)
  OBVIOUS
<1>2. PICK more : more = Append(strings, string)
  OBVIOUS
<1>3. /\ n \in Nat /\ more \in Seq(Clean) /\ Len(more) = n + 1 /\ more[n + 1] = string
      /\ \A k \in 1..n : more[k] = strings[k]
  BY <1>1, <1>2, LenProperties, AppendProperties
<1>4. PICK f : Piled(f, strings, n) /\ Z!Flat(strings) = f[n]
  BY <1>1, FlatIs
<1>5. PICK g : Piled(g, more, n + 1) /\ Z!Flat(more) = g[n + 1]
  BY <1>3, FlatIs
<1>6. f[n] = g[n]
  <2>1. n + 1 \in Nat /\ n <= n /\ n <= n + 1 /\ \A k \in 1..n : strings[k] = more[k]
    BY <1>3
  <2> QED
    BY ONLY <1>3, <1>4, <1>5, <2>1, PilesAgree
<1>7. g[n + 1] = g[n] \o Z!Bytes(string)
  <2>1. n + 1 \in 1..(n + 1) /\ (n + 1) - 1 = n
    BY <1>3
  <2> QED
    BY <1>3, <1>5, <2>1 DEF Piled
<1> QED
  BY <1>2, <1>4, <1>5, <1>6, <1>7

\* The first strings of a sequence, one more of them.
LEMMA OneMoreOf ==
    ASSUME NEW T, NEW seq \in Seq(T), NEW k \in Nat, k < Len(seq)
    PROVE  /\ SubSeq(seq, 1, k) \in Seq(T) /\ seq[k + 1] \in T
           /\ SubSeq(seq, 1, k + 1) = Append(SubSeq(seq, 1, k), seq[k + 1])
<1>1. Len(seq) \in Nat
  BY LenProperties
<1>2. k + 1 \in 1..Len(seq) /\ 1 \in 1..Len(seq) /\ (k + 1) - 1 = k /\ k + 1 \in 1..Len(seq)
  BY <1>1
<1>3. \A j \in 1..k : j \in 1..Len(seq)
  BY <1>1
<1>4. \A j \in 1..k : seq[j] \in T
  BY <1>3, ElementOfSeq
<1>5. SubSeq(seq, 1, k) \in Seq(T)
  BY <1>4, SubSeqProperties
<1>6. seq[k + 1] \in T
  BY <1>2, ElementOfSeq
<1>7. SubSeq(seq, 1, k + 1) = SubSeq(seq, 1, k) \o <<seq[k + 1]>>
  <2>1. k + 1 \in 1..Len(seq)
    BY <1>2
  <2>2. SubSeq(seq, 1, k + 1) = SubSeq(seq, 1, (k + 1) - 1) \o <<seq[k + 1]>>
    BY <1>2, SubSeqRecursiveSecond
  <2> QED
    BY <1>2, <2>2
<1> QED
  BY <1>5, <1>6, <1>7, AppendIsConcat

\* Strings behind strings are their bytes behind.
LEMMA FlatJoins ==
    ASSUME NEW strings \in Seq(Clean), NEW others \in Seq(Clean)
    PROVE  Z!Flat(strings \o others) = Z!Flat(strings) \o Z!Flat(others)
<1>1. PICK m : m = Len(others)
  OBVIOUS
<1>2. m \in Nat
  BY <1>1, LenProperties
<1> DEFINE Up(k) == SubSeq(others, 1, k)
           P == {k \in 0..m : Z!Flat(strings \o Up(k)) = Z!Flat(strings) \o Z!Flat(Up(k))}
<1>3. 0 \in P
  <2>1. Up(0) = << >>
    BY SubSeqEmpty
  <2>2. strings \o << >> = strings /\ Z!Flat(strings) \o << >> = Z!Flat(strings)
    BY FlatIsText, ConcatEmptySeq DEF Text
  <2> HIDE DEF Up
  <2>3. Z!Flat(strings \o Up(0)) = Z!Flat(strings) \o Z!Flat(Up(0))
    BY <2>1, <2>2, FlatEmpty
  <2> QED
    BY <1>2, <2>3
<1>4. ASSUME NEW k \in 0..m, k \in P, k < m PROVE k + 1 \in P
  <2>1. Up(k) \in Seq(Clean) /\ others[k + 1] \in Clean /\ Up(k + 1) = Append(Up(k), others[k + 1])
    BY <1>1, <1>4, OneMoreOf
  <2>2. PICK up, last : up = Up(k) /\ last = others[k + 1]
    OBVIOUS
  <2>3. Z!Flat(strings \o up) = Z!Flat(strings) \o Z!Flat(up)
    BY <1>4, <2>2
  <2> HIDE DEF Up
  <2>4. up \in Seq(Clean) /\ last \in Clean /\ Up(k + 1) = Append(up, last)
    BY <2>1, <2>2
  <2>5. strings \o Append(up, last) = Append(strings \o up, last)
    <3>1. strings \o up \in Seq(Clean) /\ <<last>> \in Seq(Clean)
      BY <2>4, ConcatProperties
    <3>2. Append(up, last) = up \o <<last>> /\ Append(strings \o up, last) = (strings \o up) \o <<last>>
      BY <2>4, <3>1, AppendIsConcat
    <3>3. (strings \o up) \o <<last>> = strings \o (up \o <<last>>)
      BY <2>4, <3>1, ConcatAssociative
    <3> QED
      BY <3>2, <3>3
  <2>6. Z!Flat(Append(strings \o up, last)) = Z!Flat(strings \o up) \o Z!Bytes(last)
    BY <2>4, ConcatProperties, FlatAppend
  <2>7. Z!Flat(Append(up, last)) = Z!Flat(up) \o Z!Bytes(last)
    BY <2>4, FlatAppend
  <2>8. (Z!Flat(strings) \o Z!Flat(up)) \o Z!Bytes(last) = Z!Flat(strings) \o (Z!Flat(up) \o Z!Bytes(last))
    <3>1. Z!Flat(strings) \in Text /\ Z!Flat(up) \in Text /\ Z!Bytes(last) \in Text
      BY <2>4, FlatIsText, BytesAre, CleanIsText
    <3> QED
      BY ONLY <3>1, ConcatAssociative DEF Text
  <2>9. Z!Flat(strings \o Up(k + 1)) = Z!Flat(strings) \o Z!Flat(Up(k + 1))
    BY <2>3, <2>4, <2>5, <2>6, <2>7, <2>8
  <2> QED
    BY <1>2, <1>4, <2>9
<1>5. 0..m \subseteq P
  <2>1. P \in SUBSET Nat
    OBVIOUS
  <2> HIDE DEF P
  <2> QED
    BY <1>2, <1>3, <1>4, <2>1, UpTo
<1>6. Up(m) = others
  BY <1>1, SubSeqFull
<1> HIDE DEF Up
<1>7. m \in P
  BY <1>2, <1>5
<1> QED
  BY <1>6, <1>7

LEMMA FlatOne ==
    ASSUME NEW string \in Clean
    PROVE  Z!Flat(<<string>>) = Z!Bytes(string)
<1>1. << >> \in Seq(Clean) /\ <<string>> = Append(<< >>, string)
  BY EmptySeq
<1>2. Z!Flat(<<string>>) = << >> \o Z!Bytes(string)
  BY <1>1, FlatAppend, FlatEmpty
<1> QED
  BY <1>2, BytesAre, CleanIsText, ConcatEmptySeq DEF Text

--------------------------------------------------------------------------------
(* Argz: walks over the bytes.                                             *)

\* The least of a set of numbers.
LEMMA LeastIs ==
    ASSUME NEW numbers \in SUBSET Int, NEW p \in numbers, \A q \in numbers : p <= q
    PROVE  Z!Min(numbers) = p
<1>1. \A q \in numbers : (\A r \in numbers : q <= r) => q = p
  BY DEF Z!Min
<1> QED
  BY <1>1 DEF Z!Min

LEMMA LeastExists ==
    ASSUME NEW numbers \in SUBSET Nat, numbers # {}
    PROVE  Z!Min(numbers) \in numbers /\ \A q \in numbers : Z!Min(numbers) <= q
<1>1. \E p \in numbers : \A q \in numbers : p <= q
  BY LeastOf
<1> QED
  BY <1>1 DEF Z!Min

\* A function that each place gets from a later one, from the place l on.
Follows(f, l, n, T, last, jump, round) ==
    /\ f \in [l..(n + 1) -> T] /\ f[n + 1] = last
    /\ \A p \in l..n : f[p] = round[p][f[jump[p]]]

\* There is one.
LEMMA Jumps ==
    ASSUME NEW n \in Nat, NEW T, NEW last \in T, NEW round \in [1..n -> [T -> T]],
           NEW jump \in [1..n -> 1..(n + 1)], \A p \in 1..n : jump[p] > p
    PROVE  \E f : Follows(f, 1, n, T, last, jump, round)
<1> DEFINE P == {m \in 0..n : \E f : Follows(f, n + 1 - m, n, T, last, jump, round)}
<1>1. 0 \in P
  <2> DEFINE f == [p \in (n + 1)..(n + 1) |-> last]
  <2>1. n + 1 - 0 = n + 1 /\ n + 1 \in (n + 1)..(n + 1) /\ \A p \in (n + 1)..n : FALSE
    OBVIOUS
  <2>2. f \in [(n + 1)..(n + 1) -> T] /\ f[n + 1] = last
    BY <2>1
  <2> HIDE DEF f
  <2>3. Follows(f, n + 1, n, T, last, jump, round)
    BY <2>1, <2>2 DEF Follows
  <2>4. \E g : Follows(g, n + 1 - 0, n, T, last, jump, round)
    BY <2>1, <2>3
  <2> QED
    BY <2>4
<1>2. ASSUME NEW m \in 0..n, m \in P, m < n PROVE m + 1 \in P
  <2>1. PICK l : l = n + 1 - m
    OBVIOUS
  <2>2. PICK k : k = n - m
    OBVIOUS
  <2>3. /\ l \in 1..(n + 1) /\ k \in 1..n /\ l = k + 1 /\ n + 1 - (m + 1) = k
        /\ n + 1 \in l..(n + 1) /\ n + 1 # k /\ n + 1 \in k..(n + 1)
    BY <1>2, <2>1, <2>2
  <2>4. PICK f : Follows(f, l, n, T, last, jump, round)
    BY <1>2, <2>1
  <2>5. jump[k] \in l..(n + 1)
    <3>1. jump[k] \in 1..(n + 1) /\ jump[k] > k
      BY <2>3
    <3> QED
      BY <2>3, <3>1
  <2>6. f[jump[k]] \in T /\ round[k][f[jump[k]]] \in T
    BY <2>3, <2>4, <2>5 DEF Follows
  <2> DEFINE g == [p \in k..(n + 1) |-> IF p = k THEN round[k][f[jump[k]]] ELSE f[p]]
  <2>7. \A p \in k..(n + 1) : p = k \/ p \in l..(n + 1)
    BY <2>3
  <2>8. g \in [k..(n + 1) -> T]
    BY <2>4, <2>6, <2>7 DEF Follows
  <2>9. g[n + 1] = last
    BY <2>3, <2>4 DEF Follows
  <2>10. \A p \in l..(n + 1) : p \in k..(n + 1) /\ p # k
    BY <2>3
  <2>11. \A p \in l..(n + 1) : g[p] = f[p]
    BY <2>10
  <2>12. k \in k..(n + 1) /\ g[k] = round[k][f[jump[k]]]
    BY <2>3
  <2> HIDE DEF g
  <2>13. ASSUME NEW p \in k..n PROVE g[p] = round[p][g[jump[p]]]
    <3>1. CASE p = k
      BY <2>5, <2>11, <2>12, <3>1
    <3>2. CASE p # k
      <4>1. p \in l..n /\ p \in 1..n /\ p \in l..(n + 1)
        BY <2>3, <3>2
      <4>2. jump[p] \in 1..(n + 1) /\ jump[p] > p
        BY <4>1
      <4>3. jump[p] \in l..(n + 1)
        BY <2>3, <4>1, <4>2
      <4>4. f[p] = round[p][f[jump[p]]]
        BY <2>4, <4>1 DEF Follows
      <4> QED
        BY <2>11, <4>1, <4>3, <4>4
    <3> QED
      BY <3>1, <3>2
  <2>14. Follows(g, k, n, T, last, jump, round)
    BY <2>8, <2>9, <2>13 DEF Follows
  <2>15. \E h : Follows(h, n + 1 - (m + 1), n, T, last, jump, round)
    BY <2>3, <2>14
  <2>16. m + 1 \in 0..n
    BY <1>2
  <2> QED
    BY <2>15, <2>16
<1>3. 0..n \subseteq P
  <2>1. P \in SUBSET Nat
    OBVIOUS
  <2> HIDE DEF P
  <2> QED
    BY <1>1, <1>2, <2>1, UpTo
<1>4. n \in P
  <2> HIDE DEF P
  <2> QED
    BY <1>3
<1>5. n + 1 - n = 1
  OBVIOUS
<1> QED
  BY <1>4, <1>5

\* Where the first NUL from p on is, there a string ends.
LEMMA StrLenIs ==
    ASSUME NEW bytes \in Text, NEW p \in 1..Len(bytes), NEW l \in Nat, p + l <= Len(bytes),
           bytes[p + l] = Z!NUL, \A r \in p..(p + l - 1) : bytes[r] # Z!NUL
    PROVE  Z!StrLen(bytes, p) = l
<1>1. Len(bytes) \in Nat
  BY LenProperties DEF Text
<1> DEFINE ends == {q \in p..Len(bytes) : bytes[q] = Z!NUL}
<1>2. ends \in SUBSET Int /\ p + l \in ends
  BY <1>1
<1>3. ASSUME NEW q \in ends PROVE p + l <= q
  <2>1. q \in p..Len(bytes) /\ bytes[q] = Z!NUL
    OBVIOUS
  <2>2. q \notin p..(p + l - 1)
    BY <2>1
  <2> QED
    BY <1>1, <2>1, <2>2
<1>4. Z!Min(ends) = p + l
  <2> HIDE DEF ends
  <2> QED
    BY <1>2, <1>3, LeastIs
<1> QED
  BY <1>4 DEF Z!StrLen

\* In a block that ends with a NUL, a string ends somewhere.
LEMMA StrLenFits ==
    ASSUME NEW bytes \in Text, NEW n, n = Len(bytes), NEW p \in 1..n, bytes[n] = Z!NUL
    PROVE  Z!StrLen(bytes, p) \in Nat /\ p + Z!StrLen(bytes, p) + 1 \in (p + 1)..(n + 1)
<1>1. n \in Nat
  BY LenProperties DEF Text
<1> DEFINE ends == {q \in p..n : bytes[q] = Z!NUL}
<1>2. ends \in SUBSET Nat /\ n \in ends
  BY <1>1
<1>3. Z!Min(ends) \in p..n
  <2>1. Z!Min(ends) \in ends
    <3> HIDE DEF ends
    <3> QED
      BY <1>2, LeastExists
  <2> QED
    BY <2>1
<1>4. Z!StrLen(bytes, p) = Z!Min(ends) - p
  BY DEF Z!StrLen
<1>5. PICK q : q = Z!Min(ends)
  OBVIOUS
<1> HIDE DEF ends
<1> QED
  BY <1>1, <1>3, <1>4, <1>5

\* The walk of argz_next is one of jumps from string to string.
Walks(f, bytes, n) ==
    /\ f[n + 1] = << >>
    /\ \A p \in 1..n : f[p] = <<p>> \o f[p + Z!StrLen(bytes, p) + 1]

LEMMA WalkIs ==
    ASSUME NEW bytes \in Text, NEW n, n = Len(bytes), n > 0 => bytes[n] = Z!NUL
    PROVE  \E f : Walks(f, bytes, n) /\ Z!Walk(bytes, n) = f[1]
<1>1. n \in Nat
  BY LenProperties DEF Text
<1>2. \A p \in 1..n : Z!StrLen(bytes, p) \in Nat /\ p + Z!StrLen(bytes, p) + 1 \in (p + 1)..(n + 1)
  <2>1. ASSUME NEW p \in 1..n PROVE bytes[n] = Z!NUL
    BY <1>1
  <2> QED
    BY <2>1, StrLenFits
<1>3. PICK jump : jump = [p \in 1..n |-> p + Z!StrLen(bytes, p) + 1]
  OBVIOUS
<1>4. /\ jump \in [1..n -> 1..(n + 1)]
      /\ \A p \in 1..n : jump[p] > p /\ jump[p] = p + Z!StrLen(bytes, p) + 1
  <2>1. ASSUME NEW p \in 1..n
        PROVE  p + Z!StrLen(bytes, p) + 1 \in 1..(n + 1) /\ p + Z!StrLen(bytes, p) + 1 > p
    <3>1. PICK j : j = p + Z!StrLen(bytes, p) + 1
      OBVIOUS
    <3>2. j \in (p + 1)..(n + 1)
      BY <1>2, <3>1
    <3> QED
      BY <1>1, <3>1, <3>2
  <2> QED
    BY <1>3, <2>1
<1> DEFINE T == Seq(Nat)
           Round == [p \in 1..n |-> [after \in T |-> <<p>> \o after]]
<1>5. Round \in [1..n -> [T -> T]] /\ << >> \in T
  <2>1. ASSUME NEW p \in 1..n, NEW after \in T PROVE <<p>> \o after \in T
    <3>1. <<p>> \in Seq(Nat)
      BY <1>1
    <3> QED
      BY <3>1, ConcatProperties
  <2> HIDE DEF T
  <2>2. Round \in [1..n -> [T -> T]]
    BY <2>1
  <2>3. << >> \in T
    BY EmptySeq DEF T
  <2> QED
    BY <2>2, <2>3
<1>6. PICK f : Follows(f, 1, n, T, << >>, jump, Round)
  <2> HIDE DEF Round, T
  <2> QED
    BY <1>1, <1>4, <1>5, Jumps
<1>7. f \in [1..(n + 1) -> T] /\ f[n + 1] = << >>
  BY <1>6 DEF Follows
<1>8. ASSUME NEW p \in 1..n PROVE f[p] = <<p>> \o f[p + Z!StrLen(bytes, p) + 1]
  <2>1. f[p] = Round[p][f[jump[p]]]
    BY <1>6 DEF Follows
  <2>2. f[jump[p]] \in T
    BY <1>4, <1>7
  <2>3. Round[p][f[jump[p]]] = <<p>> \o f[jump[p]]
    <3> HIDE DEF T
    <3> QED
      BY <2>2
  <2> HIDE DEF Round
  <2> QED
    BY <1>4, <2>1, <2>3
<1> HIDE DEF Round
<1> DEFINE Step(g, p) == IF p > n THEN << >> ELSE <<p>> \o g[p + Z!StrLen(bytes, p) + 1]
           from == CHOOSE g : g = [p \in 1..(n + 1) |-> Step(g, p)]
<1>9. Z!Walk(bytes, n) = from[1]
  BY DEF Z!Walk
<1>10. ASSUME NEW p \in 1..(n + 1) PROVE f[p] = Step(f, p)
  <2>1. CASE p = n + 1
    BY <1>1, <1>7, <2>1
  <2>2. CASE p # n + 1
    <3>1. p \in 1..n /\ ~(p > n)
      BY <1>1, <2>2
    <3> QED
      BY <1>8, <3>1
  <2> QED
    BY <2>1, <2>2
<1>11. f = [p \in 1..(n + 1) |-> Step(f, p)]
  <2>1. f = [p \in 1..(n + 1) |-> f[p]]
    BY <1>7
  <2> HIDE DEF Step
  <2> QED
    BY <1>10, <2>1
<1>12. from = [p \in 1..(n + 1) |-> Step(from, p)]
  <2> HIDE DEF Step
  <2> QED
    BY <1>11
<1>13. PICK g : g = from
  OBVIOUS
<1>14. \A p \in 1..(n + 1) : g[p] = Step(g, p)
  <2> HIDE DEF Step, from
  <2> QED
    BY <1>12, <1>13
<1> HIDE DEF from
<1>15. g[n + 1] = << >>
  <2>1. n + 1 \in 1..(n + 1) /\ n + 1 > n
    BY <1>1
  <2>2. g[n + 1] = Step(g, n + 1)
    <3> HIDE DEF Step
    <3> QED
      BY <1>14, <2>1
  <2>3. Step(g, n + 1) = << >>
    BY ONLY <2>1
  <2> QED
    BY ONLY <2>2, <2>3
<1>16. ASSUME NEW p \in 1..n PROVE g[p] = <<p>> \o g[p + Z!StrLen(bytes, p) + 1]
  <2>1. p \in 1..(n + 1) /\ ~(p > n)
    BY <1>1
  <2> QED
    BY <1>14, <2>1
<1>17. Walks(g, bytes, n)
  BY <1>15, <1>16 DEF Walks
<1> QED
  BY <1>9, <1>13, <1>17

--------------------------------------------------------------------------------
(* Argz: where the strings of a block are.                                 *)

\* Where the string k begins, or after the last the block ends.
Place(strings, k) == Len(Z!Flat(SubSeq(strings, 1, k - 1))) + 1

\* A block is that of the first strings and that of the others.
LEMMA Halves ==
    ASSUME NEW strings \in Seq(Clean), NEW n, n = Len(strings), NEW k \in 0..n
    PROVE  /\ SubSeq(strings, 1, k) \in Seq(Clean) /\ SubSeq(strings, k + 1, n) \in Seq(Clean)
           /\ Len(SubSeq(strings, 1, k)) = k
           /\ strings = SubSeq(strings, 1, k) \o SubSeq(strings, k + 1, n)
           /\ Z!Flat(strings) = Z!Flat(SubSeq(strings, 1, k)) \o Z!Flat(SubSeq(strings, k + 1, n))
<1>1. n \in Nat /\ \A j \in 1..n : strings[j] \in Clean
  BY LenProperties, ElementOfSeq
<1>2. k \in Int /\ k + 1 \in Int /\ (\A j \in 1..k : j \in 1..n) /\ \A j \in (k + 1)..n : j \in 1..n
  BY <1>1
<1>3. (\A j \in 1..k : strings[j] \in Clean) /\ \A j \in (k + 1)..n : strings[j] \in Clean
  BY <1>1, <1>2
<1>4. SubSeq(strings, 1, k) \in Seq(Clean) /\ SubSeq(strings, k + 1, n) \in Seq(Clean)
  BY <1>1, <1>2, <1>3, SubSeqProperties
<1>5. Len(SubSeq(strings, 1, k)) = k
  <2>1. Len(SubSeq(strings, 1, k)) = IF 1 <= k THEN k - 1 + 1 ELSE 0
    BY <1>2, <1>3, SubSeqProperties
  <2> QED
    BY <1>1, <2>1
<1>6. SubSeq(strings, 1, k) \o SubSeq(strings, k + 1, n) = strings
  <2>1. 1 \in 1..(Len(strings) + 1) /\ k \in (1 - 1)..Len(strings) /\ n \in k..Len(strings)
    BY <1>1
  <2>2. SubSeq(strings, 1, k) \o SubSeq(strings, k + 1, n) = SubSeq(strings, 1, n)
    BY <2>1, ConcatAdjacentSubSeq
  <2> QED
    BY <2>2, SubSeqFull
<1>7. Z!Flat(SubSeq(strings, 1, k) \o SubSeq(strings, k + 1, n))
         = Z!Flat(SubSeq(strings, 1, k)) \o Z!Flat(SubSeq(strings, k + 1, n))
  BY <1>4, FlatJoins
<1> QED
  BY <1>4, <1>5, <1>6, <1>7

\* A sequence between two others is where the first one ends.
Sits(a, b, c, whole) ==
    /\ Len(a) \in Nat /\ Len(b) \in Nat /\ Len(c) \in Nat
    /\ whole \in Text /\ Len(whole) = Len(a) + Len(b) + Len(c)
    /\ \A j \in 1..Len(b) : whole[Len(a) + j] = b[j]

LEMMA Between ==
    ASSUME NEW a \in Text, NEW b \in Text, NEW c \in Text
    PROVE  Sits(a, b, c, a \o (b \o c))
<1>0. PICK whole : whole = a \o (b \o c)
  OBVIOUS
<1>1. PICK k, l, m : k = Len(a) /\ l = Len(b) /\ m = Len(c)
  OBVIOUS
<1>2. k \in Nat /\ l \in Nat /\ m \in Nat
  BY <1>1, LenProperties DEF Text
<1>3. PICK rest : rest = b \o c
  OBVIOUS
<1>4. rest \in Text /\ Len(rest) = l + m /\ \A j \in 1..(l + m) : rest[j] = IF j <= l THEN b[j] ELSE c[j - l]
  BY <1>1, <1>3, ConcatProperties DEF Text
<1>5. /\ whole \in Text /\ Len(whole) = k + (l + m)
      /\ \A j \in 1..(k + (l + m)) : whole[j] = IF j <= k THEN a[j] ELSE rest[j - k]
  BY <1>0, <1>1, <1>3, <1>4, ConcatProperties DEF Text
<1>6. ASSUME NEW j \in 1..l PROVE whole[k + j] = b[j]
  <2>1. k + j \in 1..(k + (l + m)) /\ ~(k + j <= k) /\ (k + j) - k = j /\ j \in 1..(l + m) /\ j <= l
    BY <1>2
  <2> QED
    BY <1>4, <1>5, <2>1
<1>7. k + (l + m) = k + l + m
  BY <1>2
<1>8. Sits(a, b, c, whole)
  BY <1>1, <1>2, <1>5, <1>6, <1>7 DEF Sits
<1> QED
  BY <1>0, <1>8

LEMMA Parts ==
    ASSUME NEW strings \in Seq(Clean), NEW n, n = Len(strings), NEW k \in 1..n
    PROVE  /\ SubSeq(strings, 1, k - 1) \in Seq(Clean) /\ SubSeq(strings, k + 1, n) \in Seq(Clean)
           /\ strings[k] \in Clean
           /\ Z!Flat(SubSeq(strings, 1, k))
                 = Z!Flat(SubSeq(strings, 1, k - 1)) \o Z!Bytes(strings[k])
           /\ Z!Flat(strings) = Z!Flat(SubSeq(strings, 1, k - 1))
                                   \o (Z!Bytes(strings[k]) \o Z!Flat(SubSeq(strings, k + 1, n)))
<1>1. n \in Nat
  BY LenProperties
<1>2. PICK j : j = k - 1
  OBVIOUS
<1>3. j \in Nat /\ j < n /\ j + 1 = k /\ k \in 0..n
  BY <1>1, <1>2
<1>4. PICK a, s, c : a = SubSeq(strings, 1, j) /\ s = strings[k] /\ c = SubSeq(strings, k + 1, n)
  OBVIOUS
<1>5. a \in Seq(Clean) /\ s \in Clean /\ SubSeq(strings, 1, k) = Append(a, s)
  BY <1>3, <1>4, OneMoreOf
<1>6. c \in Seq(Clean) /\ Z!Flat(strings) = Z!Flat(Append(a, s)) \o Z!Flat(c)
  <2>1. /\ SubSeq(strings, k + 1, n) \in Seq(Clean)
        /\ Z!Flat(strings) = Z!Flat(SubSeq(strings, 1, k)) \o Z!Flat(SubSeq(strings, k + 1, n))
    BY <1>3, Halves
  <2> QED
    BY <1>4, <1>5, <2>1
<1>7. Z!Flat(Append(a, s)) = Z!Flat(a) \o Z!Bytes(s)
  BY <1>5, FlatAppend
<1>8. (Z!Flat(a) \o Z!Bytes(s)) \o Z!Flat(c) = Z!Flat(a) \o (Z!Bytes(s) \o Z!Flat(c))
  <2>1. Z!Flat(a) \in Text /\ Z!Bytes(s) \in Text /\ Z!Flat(c) \in Text
    BY <1>5, <1>6, FlatIsText, BytesAre, CleanIsText
  <2> QED
    BY ONLY <2>1, ConcatAssociative DEF Text
<1> QED
  BY <1>2, <1>4, <1>5, <1>6, <1>7, <1>8

LEMMA PlacesBegin ==
    ASSUME NEW strings \in Seq(Clean), NEW n, n = Len(strings)
    PROVE  Place(strings, 1) = 1 /\ Place(strings, n + 1) = Len(Z!Flat(strings)) + 1
<1>1. n \in Nat
  BY LenProperties
<1>2. SubSeq(strings, 1, 1 - 1) = << >>
  BY SubSeqEmpty
<1>3. (n + 1) - 1 = n
  BY <1>1
<1>4. SubSeq(strings, 1, n) = strings
  BY SubSeqFull
<1>5. Place(strings, 1) = Len(<< >>) + 1
  BY <1>2, FlatEmpty DEF Place
<1>6. Place(strings, n + 1) = Len(Z!Flat(strings)) + 1
  BY <1>3, <1>4 DEF Place
<1> QED
  BY <1>5, <1>6

\* String k is at its place, with its NUL.
StringIsAt(bytes, p, string, next) ==
    /\ Len(string) \in Nat /\ p \in 1..Len(bytes) /\ Len(bytes) \in Nat
    /\ next = p + Len(string) + 1 /\ p + Len(string) <= Len(bytes)
    /\ SubSeq(bytes, p, p + Len(string) - 1) = string
    /\ bytes[p + Len(string)] = Z!NUL
    /\ \A r \in p..(p + Len(string) - 1) : bytes[r] # Z!NUL

LEMMA PlaceIs ==
    ASSUME NEW strings \in Seq(Clean), NEW n, n = Len(strings), NEW k \in 1..n
    PROVE  StringIsAt(Z!Flat(strings), Place(strings, k), strings[k], Place(strings, k + 1))
<1>1. PICK a, s, b, c : /\ a = Z!Flat(SubSeq(strings, 1, k - 1)) /\ s = strings[k] /\ b = Z!Bytes(s)
                        /\ c = Z!Flat(SubSeq(strings, k + 1, n))
  OBVIOUS
<1>2. PICK whole : whole = Z!Flat(strings)
  OBVIOUS
<1>3. /\ a \in Text /\ s \in Clean /\ s \in Text /\ b \in Text /\ c \in Text
      /\ Z!Flat(SubSeq(strings, 1, k)) = a \o b /\ whole = a \o (b \o c)
  <2>1. a \in Text /\ c \in Text
    BY <1>1, Parts, FlatIsText
  <2>2. s \in Clean /\ s \in Text /\ b \in Text
    BY <1>1, Parts, CleanIsText, BytesAre
  <2>3. Z!Flat(SubSeq(strings, 1, k)) = a \o b /\ whole = a \o (b \o c)
    BY <1>1, <1>2, Parts
  <2> QED
    BY <2>1, <2>2, <2>3
<1>4. PICK u, l, m, p : u = Len(a) /\ l = Len(s) /\ m = Len(c) /\ p = u + 1
  OBVIOUS
<1>5. /\ u \in Nat /\ l \in Nat /\ m \in Nat /\ Len(b) = l + 1 /\ DOMAIN s = 1..l
      /\ b[l + 1] = Z!NUL /\ \A j \in 1..l : b[j] = s[j]
  <2>1. u \in Nat /\ l \in Nat /\ m \in Nat /\ DOMAIN s = 1..l
    BY <1>3, <1>4, LenProperties DEF Text
  <2> QED
    BY <1>1, <1>3, <1>4, <2>1, BytesAre
<1>6. /\ whole \in Text /\ Len(whole) = u + (l + 1) + m
      /\ \A j \in 1..(l + 1) : whole[u + j] = b[j]
  <2>1. Sits(a, b, c, whole)
    <3>1. Sits(a, b, c, a \o (b \o c))
      BY <1>3, Between
    <3> QED
      BY <1>3, <3>1
  <2>2. Len(whole) = u + (l + 1) + m
    BY <1>4, <1>5, <2>1 DEF Sits
  <2>3. \A j \in 1..(l + 1) : whole[u + j] = b[j]
    BY <1>4, <1>5, <2>1, Zenon DEF Sits
  <2> QED
    BY <2>1, <2>2, <2>3 DEF Sits
<1>7. Place(strings, k) = p
  BY <1>1, <1>4 DEF Place
<1>8. Place(strings, k + 1) = p + l + 1
  <2>1. (k + 1) - 1 = k
    OBVIOUS
  <2>2. Place(strings, k + 1) = Len(a \o b) + 1
    BY <1>3, <2>1 DEF Place
  <2>3. Len(a \o b) = u + (l + 1)
    <3>1. Len(a \o b) = Len(a) + Len(b)
      BY <1>3, ConcatProperties DEF Text
    <3> QED
      BY <1>4, <1>5, <3>1
  <2> QED
    BY <1>4, <1>5, <2>2, <2>3
<1>9. p \in 1..Len(whole) /\ p + l <= Len(whole) /\ p + l = u + (l + 1) /\ Len(whole) \in Nat
  BY <1>4, <1>5, <1>6
<1>10. whole[p + l] = Z!NUL
  <2>1. l + 1 \in 1..(l + 1)
    BY <1>5
  <2> QED
    BY <1>5, <1>6, <1>9, <2>1
<1>11. ASSUME NEW j \in 1..l PROVE whole[p + j - 1] = s[j] /\ s[j] # Z!NUL
  <2>1. j \in 1..(l + 1) /\ p + j - 1 = u + j
    <3>1. u \in Nat /\ l \in Nat /\ p = u + 1 /\ j \in 1..l
      BY <1>4, <1>5
    <3> QED
      BY ONLY <3>1
  <2>2. s[j] # Z!NUL
    BY <1>3, <1>5 DEF Clean
  <2>3. whole[u + j] = b[j] /\ b[j] = s[j]
    BY <1>5, <1>6, <2>1
  <2> QED
    BY <2>1, <2>2, <2>3
<1>12. SubSeq(whole, p, p + l - 1) = s
  <2>1. PICK part : part = SubSeq(whole, p, p + l - 1)
    OBVIOUS
  <2>2. \A r \in p..(p + l - 1) : r \in 1..Len(whole)
    BY <1>9, <1>4, <1>5
  <2>3. p \in Int /\ p + l - 1 \in Int /\ \A r \in p..(p + l - 1) : whole[r] \in Characters
    BY <1>4, <1>5, <1>6, <2>2, ElementOfSeq DEF Text
  <2>4. /\ part \in Seq(Characters)
        /\ Len(part) = IF p <= p + l - 1 THEN (p + l - 1) - p + 1 ELSE 0
        /\ \A j \in 1..((p + l - 1) - p + 1) : part[j] = whole[p + j - 1]
    BY <2>1, <2>3, SubSeqProperties
  <2>5. Len(part) = l /\ (p + l - 1) - p + 1 = l
    BY <1>4, <1>5, <2>4
  <2>6. \A j \in 1..Len(part) : part[j] = s[j]
    BY <1>11, <2>4, <2>5
  <2>7. s \in Seq(Characters) /\ Len(s) = Len(part)
    BY <1>3, <1>4, <2>5 DEF Text
  <2> QED
    BY <2>1, <2>4, <2>6, <2>7, SeqEqual
<1>13. ASSUME NEW r \in p..(p + l - 1) PROVE whole[r] # Z!NUL
  <2>1. PICK j : j = r - p + 1
    OBVIOUS
  <2>2. j \in 1..l /\ p + j - 1 = r
    BY <1>4, <1>5, <2>1
  <2> QED
    BY <1>11, <2>2
<1>14. StringIsAt(whole, p, s, p + l + 1)
  BY <1>4, <1>5, <1>9, <1>10, <1>12, <1>13 DEF StringIsAt
<1> QED
  BY <1>1, <1>2, <1>7, <1>8, <1>14

\* A number before the others.
LEMMA NumberBefore ==
    ASSUME NEW m \in Nat, NEW h \in [1..(m + 1) -> Nat], NEW t \in [1..m -> Nat],
           \A j \in 1..m : t[j] = h[j + 1]
    PROVE  <<h[1]>> \o t = h
<1>1. PICK first : first = h[1]
  OBVIOUS
<1>2. first \in Nat
  BY <1>1
<1>3. <<first>> \in Seq(Nat) /\ Len(<<first>>) = 1 /\ <<first>>[1] = first
  BY <1>2
<1>4. t \in Seq(Nat) /\ Len(t) = m /\ h \in Seq(Nat) /\ Len(h) = m + 1
  <2>1. ASSUME NEW l \in Nat, NEW g \in [1..l -> Nat] PROVE g \in Seq(Nat) /\ Len(g) = l
    BY ONLY l \in Nat, g \in [1..l -> Nat]
  <2>2. m + 1 \in Nat
    OBVIOUS
  <2> QED
    BY <2>1, <2>2
<1>5. PICK c : c = <<first>> \o t
  OBVIOUS
<1>6. /\ c \in Seq(Nat) /\ Len(c) = 1 + m
      /\ \A j \in 1..(1 + m) : c[j] = IF j <= 1 THEN <<first>>[j] ELSE t[j - 1]
  BY <1>3, <1>4, <1>5, ConcatProperties
<1>7. ASSUME NEW j \in 1..(m + 1) PROVE c[j] = h[j]
  <2>1. CASE j = 1
    BY <1>1, <1>3, <1>6, <2>1
  <2>2. CASE j # 1
    <3>1. j \in 1..(1 + m) /\ ~(j <= 1) /\ j - 1 \in 1..m /\ (j - 1) + 1 = j
      BY <2>2
    <3>2. c[j] = t[j - 1]
      BY <1>6, <3>1
    <3> QED
      BY <3>1, <3>2
  <2> QED
    BY <2>1, <2>2
<1>8. c = h
  <2>1. Len(c) = Len(h) /\ \A j \in 1..Len(c) : c[j] = h[j]
    BY <1>4, <1>6, <1>7
  <2> QED
    BY <1>4, <1>6, <2>1, SeqEqual
<1> QED
  BY <1>1, <1>5, <1>8

\* Where the strings from k on begin.
EntryPlaces(strings, k, m) == [j \in 1..m |-> Place(strings, k - 1 + j)]

\* At the place of a string, strlen is its length.
LEMMA StrLenAtPlace ==
    ASSUME NEW bytes \in Text, NEW p, NEW string, NEW next, StringIsAt(bytes, p, string, next)
    PROVE  Z!StrLen(bytes, p) = Len(string) /\ p + Z!StrLen(bytes, p) + 1 = next
<1>1. PICK l : l = Len(string)
  OBVIOUS
<1>2. /\ l \in Nat /\ p \in 1..Len(bytes) /\ next = p + l + 1 /\ p + l <= Len(bytes)
      /\ bytes[p + l] = Z!NUL /\ \A r \in p..(p + l - 1) : bytes[r] # Z!NUL
  BY <1>1 DEF StringIsAt
<1>3. Z!StrLen(bytes, p) = l
  BY <1>2, StrLenIs
<1> QED
  BY <1>1, <1>2, <1>3

\* A block that is not empty ends with a NUL.
LEMMA BlockEnds ==
    ASSUME NEW strings \in Seq(Clean), NEW bytes, bytes = Z!Flat(strings), bytes # << >>
    PROVE  bytes \in Text /\ Len(bytes) \in Nat /\ Len(bytes) > 0 /\ bytes[Len(bytes)] = Z!NUL
<1>1. PICK n : n = Len(strings)
  OBVIOUS
<1>2. n \in Nat /\ bytes \in Text /\ Len(bytes) \in Nat
  BY <1>1, FlatIsText, LenProperties DEF Text
<1>3. n \in 1..n
  <2>1. CASE n = 0
    <3>1. strings = << >>
      BY <1>1, <2>1, EmptySeq
    <3> QED
      BY <3>1, FlatEmpty
  <2> QED
    BY <1>2, <2>1
<1>4. StringIsAt(bytes, Place(strings, n), strings[n], Place(strings, n + 1))
  BY <1>1, <1>3, PlaceIs
<1>5. Place(strings, n + 1) = Len(bytes) + 1
  BY <1>1, PlacesBegin
<1>6. PICK p, l : p = Place(strings, n) /\ l = Len(strings[n])
  OBVIOUS
<1>7. p \in 1..Len(bytes) /\ l \in Nat /\ p + l + 1 = Len(bytes) + 1 /\ bytes[p + l] = Z!NUL
  BY <1>4, <1>5, <1>6 DEF StringIsAt
<1>8. p + l = Len(bytes)
  BY <1>2, <1>7
<1> QED
  BY <1>2, <1>7, <1>8

\* The walk meets the strings, one by one.
LEMMA WalkMeets ==
    ASSUME NEW strings \in Seq(Clean), NEW n, n = Len(strings),
           NEW bytes, bytes = Z!Flat(strings)
    PROVE  Z!Walk(bytes, Len(bytes)) = EntryPlaces(strings, 1, n)
<1>1. n \in Nat /\ bytes \in Text /\ Len(bytes) \in Nat
  BY FlatIsText, LenProperties DEF Text
<1>2. PICK end : end = Len(bytes)
  OBVIOUS
<1>3. end > 0 => bytes[end] = Z!NUL
  <2>1. end > 0 => bytes # << >>
    BY <1>2, EmptySeq
  <2> QED
    BY <1>2, <2>1, BlockEnds
<1>4. PICK f : Walks(f, bytes, end) /\ Z!Walk(bytes, end) = f[1]
  BY <1>1, <1>2, <1>3, WalkIs
<1> DEFINE P == {m \in 0..n : f[Place(strings, n + 1 - m)] = EntryPlaces(strings, n + 1 - m, m)}
<1>5. 0 \in P
  <2>1. n + 1 - 0 = n + 1
    BY <1>1
  <2>2. f[Place(strings, n + 1)] = << >>
    BY <1>2, <1>4, PlacesBegin DEF Walks
  <2>3. EntryPlaces(strings, n + 1, 0) = << >>
    BY DEF EntryPlaces
  <2>4. f[Place(strings, n + 1 - 0)] = EntryPlaces(strings, n + 1 - 0, 0)
    BY <2>1, <2>2, <2>3
  <2> QED
    BY <1>1, <2>4
<1>6. \A k \in 1..n : StringIsAt(bytes, Place(strings, k), strings[k], Place(strings, k + 1))
  BY PlaceIs
<1>7. \A k \in 1..n : Place(strings, k) \in Nat
  BY <1>6 DEF StringIsAt
<1>8. ASSUME NEW m \in 0..n, m \in P, m < n PROVE m + 1 \in P
  <2>1. PICK k : k = n - m
    OBVIOUS
  <2>2. k \in 1..n /\ n + 1 - m = k + 1 /\ n + 1 - (m + 1) = k /\ m \in Nat /\ m + 1 \in 0..n /\ n = k + m
    BY <1>1, <1>8, <2>1
  <2>3. f[Place(strings, k + 1)] = EntryPlaces(strings, k + 1, m)
    BY <1>8, <2>2
  <2>4. PICK p : p = Place(strings, k)
    OBVIOUS
  <2>5. StringIsAt(bytes, p, strings[k], Place(strings, k + 1))
    BY <1>6, <2>2, <2>4
  <2>6. p + Z!StrLen(bytes, p) + 1 = Place(strings, k + 1)
    BY <1>1, <2>5, StrLenAtPlace
  <2>7. p \in 1..end
    BY <1>2, <2>5 DEF StringIsAt
  <2>8. f[p] = <<p>> \o EntryPlaces(strings, k + 1, m)
    BY <1>4, <2>3, <2>6, <2>7 DEF Walks
  <2>9. PICK h, t : h = EntryPlaces(strings, k, m + 1) /\ t = EntryPlaces(strings, k + 1, m)
    OBVIOUS
  <2>10. ASSUME NEW j \in 1..(m + 1) PROVE h[j] = Place(strings, k - 1 + j) /\ h[j] \in Nat
    <3>1. h[j] = Place(strings, k - 1 + j)
      BY <2>9 DEF EntryPlaces
    <3>2. k - 1 + j \in 1..n
      BY <1>1, <2>2
    <3> QED
      BY <1>7, <3>1, <3>2
  <2>11. h \in [1..(m + 1) -> Nat]
    BY <2>9, <2>10 DEF EntryPlaces
  <2>12. ASSUME NEW j \in 1..m PROVE t[j] = h[j + 1] /\ t[j] \in Nat
    <3>1. j + 1 \in 1..(m + 1) /\ (k + 1) - 1 + j = k - 1 + (j + 1)
      BY <2>2
    <3>2. t[j] = Place(strings, (k + 1) - 1 + j)
      BY <2>9 DEF EntryPlaces
    <3> QED
      BY <2>10, <3>1, <3>2
  <2>13. t \in [1..m -> Nat]
    BY <2>9, <2>12 DEF EntryPlaces
  <2>14. h[1] = p
    <3>1. 1 \in 1..(m + 1) /\ k - 1 + 1 = k
      BY <2>2
    <3> QED
      BY <2>4, <2>10, <3>1
  <2>15. <<h[1]>> \o t = h
    BY <2>2, <2>11, <2>12, <2>13, NumberBefore
  <2>16. f[p] = h
    BY <2>8, <2>9, <2>14, <2>15
  <2>17. f[Place(strings, n + 1 - (m + 1))] = EntryPlaces(strings, n + 1 - (m + 1), m + 1)
    BY <2>2, <2>4, <2>9, <2>16
  <2> QED
    BY <2>2, <2>17
<1>9. n \in P
  <2>1. 0..n \subseteq P
    <3>1. P \in SUBSET Nat
      OBVIOUS
    <3> HIDE DEF P
    <3> QED
      BY <1>1, <1>5, <1>8, <3>1, UpTo
  <2> HIDE DEF P
  <2> QED
    BY <1>1, <2>1
<1>10. n + 1 - n = 1
  BY <1>1
<1>11. f[1] = EntryPlaces(strings, 1, n)
  BY <1>9, <1>10, PlacesBegin
<1> QED
  BY <1>2, <1>4, <1>11

\* The block of the strings, the strings of the block.
LEMMA StringsAreThere ==
    ASSUME NEW strings \in Seq(Clean), NEW n, n = Len(strings),
           NEW bytes, bytes = Z!Flat(strings), NEW starts, starts = Z!Walk(bytes, Len(bytes))
    PROVE  /\ DOMAIN starts = 1..n /\ DOMAIN strings = 1..n /\ n \in Nat
           /\ \A k \in 1..n : /\ starts[k] = Place(strings, k)
                              /\ Z!StrLen(bytes, starts[k]) = Len(strings[k])
                              /\ SubSeq(bytes, starts[k], starts[k] + Z!StrLen(bytes, starts[k]) - 1) = strings[k]
<1>1. n \in Nat /\ DOMAIN strings = 1..n /\ bytes \in Text
  BY LenProperties, FlatIsText
<1>2. starts = EntryPlaces(strings, 1, n)
  BY WalkMeets
<1>3. DOMAIN starts = 1..n
  BY <1>2 DEF EntryPlaces
<1>4. ASSUME NEW k \in 1..n
      PROVE  /\ starts[k] = Place(strings, k)
             /\ Z!StrLen(bytes, starts[k]) = Len(strings[k])
             /\ SubSeq(bytes, starts[k], starts[k] + Z!StrLen(bytes, starts[k]) - 1) = strings[k]
  <2>1. 1 - 1 + k = k
    BY <1>1
  <2>2. starts[k] = Place(strings, k)
    BY <1>2, <2>1 DEF EntryPlaces
  <2>3. PICK p, next : p = starts[k] /\ next = Place(strings, k + 1)
    OBVIOUS
  <2>4. StringIsAt(bytes, p, strings[k], next)
    BY <2>2, <2>3, PlaceIs
  <2>5. Z!StrLen(bytes, p) = Len(strings[k])
    BY <1>1, <2>4, StrLenAtPlace
  <2>6. SubSeq(bytes, p, p + Len(strings[k]) - 1) = strings[k]
    BY <2>4 DEF StringIsAt
  <2> QED
    BY <2>2, <2>3, <2>5, <2>6
<1> QED
  BY <1>1, <1>3, <1>4

--------------------------------------------------------------------------------
(* Argz: strings cut at a delimiter.                                       *)

\* What Cut has written after each character.
Writing(f, bytes, string, n) ==
    /\ f \in [0..n -> Text] /\ f[0] = bytes
    /\ \A p \in 1..n :
          f[p] = IF string[p] # Delim THEN Append(f[p - 1], string[p])
                 ELSE IF f[p - 1] # << >> /\ Z!Last(f[p - 1]) # Z!NUL
                 THEN Append(f[p - 1], Z!NUL)
                 ELSE f[p - 1]

LEMMA DelimIs == Delim \in Characters /\ Delim # Z!NUL
<1>1. Delim \in STRING \ {"NUL"}
  BY ContainerAssumption DEF Z!StringAssumption
<1> QED
  BY <1>1 DEF Characters, Z!NUL

LEMMA StringsAreClean == Strings \subseteq Clean
<1>1. Strings \subseteq Seq(STRING) /\ \A string \in Strings : \A p \in DOMAIN string : string[p] # Z!NUL
  BY ContainerAssumption DEF Z!StringAssumption, Z!NUL
<1>2. STRING \subseteq Characters
  BY DEF Characters
<1>3. Strings \subseteq Text
  BY <1>1, <1>2, SeqMonotonic DEF Text
<1> QED
  BY <1>1, <1>3 DEF Clean

LEMMA CleanIs ==
    ASSUME NEW string \in Clean, NEW n, n = Len(string)
    PROVE  /\ string \in Seq(Characters) /\ n \in Nat /\ DOMAIN string = 1..n
           /\ \A p \in 1..n : string[p] \in Characters /\ string[p] # Z!NUL
<1>1. string \in Seq(Characters)
  BY CleanIsText DEF Text
<1>2. n \in Nat /\ DOMAIN string = 1..n
  BY <1>1, LenProperties
<1> QED
  BY <1>1, <1>2, ElementOfSeq DEF Clean

\* What Cut returns, of which the length is by how much the block has grown.
LEMMA CutIsWritten ==
    ASSUME NEW bytes \in Text, NEW string \in Clean, NEW n, n = Len(string)
    PROVE  \E f : /\ Writing(f, bytes, string, n) /\ Z!Cut(bytes, string).bytes = Z!Bytes(f[n])
                 /\ Z!Cut(bytes, string).nlen \in Int
                 /\ Len(bytes) + Z!Cut(bytes, string).nlen = Len(f[n]) + 1
<1>1. n \in Nat /\ \A p \in 1..n : string[p] \in Characters
  BY CleanIs
<1>2. Z!NUL \in Characters
  BY DEF Characters
<1> DEFINE T == [bytes : Text, nlen : Int]
           Then(p, before) ==
              IF string[p] # Delim
              THEN [bytes |-> Append(before.bytes, string[p]), nlen |-> before.nlen]
              ELSE IF before.bytes # << >> /\ Z!Last(before.bytes) # Z!NUL
              THEN [bytes |-> Append(before.bytes, Z!NUL), nlen |-> before.nlen]
              ELSE [bytes |-> before.bytes, nlen |-> before.nlen - 1]
           begin == [bytes |-> bytes, nlen |-> n + 1]
           Round == [p \in 1..n |-> [before \in T |-> Then(p, before)]]
\* In each round the bytes grow or the length shrinks by one.
<1>3. ASSUME NEW p \in 1..n, NEW before \in T
      PROVE  /\ Then(p, before) \in T
             /\ Len(before.bytes) \in Nat /\ Len(Then(p, before).bytes) \in Nat
             /\ Len(Then(p, before).bytes) - Then(p, before).nlen = Len(before.bytes) - before.nlen + 1
  <2>1. PICK done, m : done = before.bytes /\ m = before.nlen
    OBVIOUS
  <2>2. done \in Text /\ m \in Int /\ Len(done) \in Nat
    BY <2>1, LenProperties DEF Text
  <2>3. ASSUME NEW c \in Characters
        PROVE  Append(done, c) \in Text /\ Len(Append(done, c)) = Len(done) + 1
    BY <2>2, AppendProperties DEF Text
  <2>4. CASE string[p] # Delim
    <3>1. Then(p, before) = [bytes |-> Append(done, string[p]), nlen |-> m]
      BY <2>1, <2>4
    <3>2. Append(done, string[p]) \in Text /\ Len(Append(done, string[p])) = Len(done) + 1
      BY <1>1, <2>3
    <3> HIDE DEF Then
    <3> QED
      BY <2>1, <2>2, <3>1, <3>2
  <2>5. CASE ~(string[p] # Delim) /\ done # << >> /\ Z!Last(done) # Z!NUL
    <3>1. Then(p, before) = [bytes |-> Append(done, Z!NUL), nlen |-> m]
      BY <2>1, <2>5
    <3>2. Append(done, Z!NUL) \in Text /\ Len(Append(done, Z!NUL)) = Len(done) + 1
      BY <1>2, <2>3
    <3> HIDE DEF Then
    <3> QED
      BY <2>1, <2>2, <3>1, <3>2
  <2>6. CASE ~(string[p] # Delim) /\ ~(done # << >> /\ Z!Last(done) # Z!NUL)
    <3>1. Then(p, before) = [bytes |-> done, nlen |-> m - 1]
      BY <2>1, <2>6
    <3> HIDE DEF Then
    <3> QED
      BY <2>1, <2>2, <3>1
  <2> QED
    BY <2>4, <2>5, <2>6
<1>4. begin \in T
  BY <1>1
<1> HIDE DEF Then, T, begin
<1>5. Round \in [1..n -> [T -> T]]
  BY <1>3
<1>6. PICK f \in [0..n -> T] : Computes(f, n, begin, Round)
  <2> HIDE DEF Round
  <2> QED
    BY <1>1, <1>4, <1>5, Rounds
<1>7. f[0] = begin /\ \A p \in 1..n : f[p] = Round[p][f[p - 1]]
  BY <1>6 DEF Computes
<1>8. ASSUME NEW p \in 1..n PROVE f[p - 1] \in T /\ f[p] = Then(p, f[p - 1])
  <2>1. p - 1 \in 0..n /\ f[p - 1] \in T
    <3>1. p \in 1..n /\ n \in Nat /\ f \in [0..n -> T]
      BY <1>1, <1>6
    <3> QED
      BY ONLY <3>1
  <2>2. Round[p][f[p - 1]] = Then(p, f[p - 1])
    BY <2>1
  <2> HIDE DEF Round
  <2> QED
    BY <1>7, <2>1, <2>2
<1> HIDE DEF Round
<1> DEFINE w == [p \in 0..n |-> f[p].bytes]
<1>9. Writing(w, bytes, string, n)
  <2>1. w \in [0..n -> Text]
    BY <1>6 DEF T
  <2>2. 0 \in 0..n /\ w[0] = bytes
    BY <1>1, <1>7 DEF begin
  <2>3. ASSUME NEW p \in 1..n
        PROVE  w[p] = IF string[p] # Delim THEN Append(w[p - 1], string[p])
                      ELSE IF w[p - 1] # << >> /\ Z!Last(w[p - 1]) # Z!NUL
                      THEN Append(w[p - 1], Z!NUL)
                      ELSE w[p - 1]
    <3>1. p \in 0..n /\ p - 1 \in 0..n
      BY <1>1
    <3>2. w[p] = f[p].bytes /\ w[p - 1] = f[p - 1].bytes
      BY <3>1
    <3>3. f[p].bytes = Then(p, f[p - 1]).bytes
      BY <1>8
    <3> HIDE DEF w
    <3> QED
      BY <3>2, <3>3 DEF Then
  <2> HIDE DEF w
  <2> QED
    BY <2>1, <2>2, <2>3 DEF Writing
<1> DEFINE Step(g, p) == IF p = 0 THEN begin ELSE Then(p, g[p - 1])
           written == CHOOSE g : g = [p \in 0..n |-> Step(g, p)]
<1>10. Z!Cut(bytes, string) = [bytes |-> Z!Bytes(written[n].bytes), nlen |-> written[n].nlen]
  BY DEF Z!Cut, Then, begin
<1>11. f = [p \in 0..n |-> Step(f, p)]
  <2>1. f = [p \in 0..n |-> f[p]]
    BY <1>6
  <2>2. ASSUME NEW p \in 0..n PROVE f[p] = Step(f, p)
    <3>1. CASE p = 0
      BY <1>7, <3>1
    <3>2. CASE p # 0
      <4>1. p \in 1..n
        BY <1>1, <3>2
      <4> QED
        BY <1>8, <3>2, <4>1
    <3> QED
      BY <3>1, <3>2
  <2> HIDE DEF Step
  <2> QED
    BY <2>1, <2>2
<1>12. written = [p \in 0..n |-> Step(written, p)]
  <2> HIDE DEF Step
  <2> QED
    BY <1>11
<1>13. PICK g : g = written
  OBVIOUS
<1>14. \A p \in 0..n : g[p] = Step(g, p)
  <2> HIDE DEF Step, written
  <2> QED
    BY <1>12, <1>13
<1> HIDE DEF written
<1> DEFINE Grown(p) == Len(f[p].bytes) - f[p].nlen = (Len(bytes) + p) - (n + 1)
           P == {p \in 0..n : g[p] = f[p] /\ Grown(p)}
<1>15. 0 \in P
  <2>1. 0 \in 0..n /\ g[0] = Step(g, 0)
    <3> HIDE DEF Step
    <3> QED
      BY <1>1, <1>14
  <2>2. g[0] = f[0]
    BY <1>7, <2>1
  <2>3. f[0].bytes = bytes /\ f[0].nlen = n + 1 /\ Len(bytes) \in Nat
    BY <1>7, LenProperties DEF begin, Text
  <2>4. Grown(0)
    BY <1>1, <2>3
  <2> QED
    BY <2>1, <2>2, <2>4
<1>16. ASSUME NEW p \in 0..n, p \in P, p < n PROVE p + 1 \in P
  <2>1. p + 1 \in 1..n /\ p + 1 \in 0..n /\ p + 1 # 0 /\ (p + 1) - 1 = p
    BY <1>1, <1>16
  <2>2. g[p + 1] = Step(g, p + 1)
    <3> HIDE DEF Step
    <3> QED
      BY <1>14, <2>1
  <2>3. f[p] \in T /\ f[p + 1] = Then(p + 1, f[p])
    BY <1>8, <2>1
  <2>4. g[p + 1] = Then(p + 1, g[p])
    BY <2>1, <2>2
  <2>5. g[p] = f[p] /\ Grown(p)
    BY <1>16
  <2>6. g[p + 1] = f[p + 1]
    BY <2>3, <2>4, <2>5
  <2>7. PICK u, v, x, y, l : /\ u = Len(f[p].bytes) /\ v = f[p].nlen /\ l = Len(bytes)
                            /\ x = Len(f[p + 1].bytes) /\ y = f[p + 1].nlen
    OBVIOUS
  <2>8. u \in Nat /\ x \in Nat /\ x - y = u - v + 1
    BY <1>3, <2>1, <2>3, <2>7
  <2>9. v \in Int /\ y \in Int /\ l \in Nat
    <3>1. f[p] \in T /\ f[p + 1] \in T
      BY <1>3, <2>1, <2>3
    <3> QED
      BY <2>7, <3>1, LenProperties DEF T, Text
  <2>10. x - y = (l + (p + 1)) - (n + 1)
    <3>1. u - v = (l + p) - (n + 1)
      BY <2>5, <2>7
    <3> QED
      BY <1>1, <2>8, <2>9, <3>1
  <2>11. Grown(p + 1)
    BY <2>7, <2>10
  <2> QED
    BY <2>1, <2>6, <2>11
<1>17. n \in P
  <2>1. P \in SUBSET Nat
    OBVIOUS
  <2>2. 0..n \subseteq P
    <3> HIDE DEF P
    <3> QED
      BY <1>1, <1>15, <1>16, <2>1, UpTo
  <2>3. n \in 0..n
    BY <1>1
  <2> HIDE DEF P
  <2> QED
    BY <2>2, <2>3
<1>18. g[n] = f[n] /\ Grown(n) /\ n \in 0..n
  BY <1>1, <1>17
<1>19. /\ Z!Cut(bytes, string).bytes = Z!Bytes(w[n]) /\ Z!Cut(bytes, string).nlen = f[n].nlen
       /\ w[n] = f[n].bytes
  <2>1. w[n] = f[n].bytes
    BY <1>18
  <2> HIDE DEF w
  <2> QED
    BY <1>10, <1>13, <1>18, <2>1
<1>20. f[n].nlen \in Int /\ Len(f[n].bytes) \in Nat /\ Len(bytes) \in Nat
  <2>1. f[n] \in T
    BY <1>6, <1>18
  <2> QED
    BY <2>1, LenProperties DEF T, Text
<1>21. Len(bytes) + f[n].nlen = Len(f[n].bytes) + 1
  <2>1. Len(f[n].bytes) - f[n].nlen = (Len(bytes) + n) - (n + 1)
    BY <1>18
  <2> QED
    BY <1>1, <1>20, <2>1
<1> HIDE DEF w
<1> QED
  BY <1>9, <1>19, <1>20, <1>21

\* A part of a string is a string.
LEMMA PieceIsClean ==
    ASSUME NEW string \in Clean, NEW n, n = Len(string),
           NEW p \in 1..(n + 1), NEW q \in 0..n, p <= q + 1
    PROVE  /\ SubSeq(string, p, q) \in Clean
           /\ Len(SubSeq(string, p, q)) = q - p + 1
           /\ \A j \in 1..(q - p + 1) : SubSeq(string, p, q)[j] = string[p + j - 1]
<1>1. n \in Nat /\ \A r \in 1..n : string[r] \in Characters /\ string[r] # Z!NUL
  BY CleanIs
<1>2. p \in Int /\ q \in Int /\ (\A r \in p..q : r \in 1..n) /\ q - p + 1 \in Nat
  BY <1>1
<1>3. PICK part : part = SubSeq(string, p, q)
  OBVIOUS
<1>4. \A r \in p..q : string[r] \in Characters
  BY <1>1, <1>2
<1>5. /\ part \in Text /\ Len(part) = IF p <= q THEN q - p + 1 ELSE 0
      /\ \A j \in 1..(q - p + 1) : part[j] = string[p + j - 1]
  BY <1>2, <1>3, <1>4, SubSeqProperties DEF Text
<1>6. Len(part) = q - p + 1
  BY <1>2, <1>5
<1>7. ASSUME NEW j \in DOMAIN part PROVE part[j] # Z!NUL
  <2>1. DOMAIN part = 1..Len(part)
    BY <1>5, LenProperties DEF Text
  <2>2. j \in 1..(q - p + 1)
    BY <1>6, <2>1
  <2>3. p + j - 1 \in 1..n
    BY <1>1, <1>2, <2>2
  <2> QED
    BY <1>1, <1>5, <2>2, <2>3
<1> QED
  BY <1>3, <1>5, <1>6, <1>7 DEF Clean

CutsFrom(string, p) == {q \in p..Len(string) : string[q] = Delim}

LEMMA CutsAre ==
    ASSUME NEW string \in Clean, NEW n, n = Len(string), NEW p \in 1..(n + 1),
           CutsFrom(string, p) # {}
    PROVE  /\ Z!Min(CutsFrom(string, p)) \in p..n /\ string[Z!Min(CutsFrom(string, p))] = Delim
           /\ \A q \in p..(Z!Min(CutsFrom(string, p)) - 1) : string[q] # Delim
<1>1. n \in Nat
  BY CleanIs
<1>2. PICK cuts : cuts = CutsFrom(string, p)
  OBVIOUS
<1>3. cuts \in SUBSET Nat /\ cuts # {} /\ \A q : q \in cuts <=> q \in p..n /\ string[q] = Delim
  BY <1>1, <1>2 DEF CutsFrom
<1>4. PICK least : least = Z!Min(cuts)
  OBVIOUS
<1>5. least \in cuts /\ \A q \in cuts : least <= q
  BY <1>3, <1>4, LeastExists
<1>6. ASSUME NEW q \in p..(least - 1) PROVE string[q] # Delim
  <2>1. least \in p..n
    BY <1>3, <1>5
  <2>2. q \in p..n /\ ~(least <= q)
    BY <1>1, <2>1
  <2> QED
    BY <1>3, <1>5, <2>2
<1> QED
  BY <1>2, <1>3, <1>4, <1>5, <1>6

\* The strings from each character on.
FieldsFrom(f, string, n, p) ==
    /\ f[p] \in Seq(Clean)
    /\ f[p] = IF CutsFrom(string, p) = {} THEN <<SubSeq(string, p, n)>>
              ELSE IF Z!Min(CutsFrom(string, p)) = p THEN f[p + 1]
              ELSE <<SubSeq(string, p, Z!Min(CutsFrom(string, p)) - 1)>>
                      \o f[Z!Min(CutsFrom(string, p)) + 1]

LEMMA FieldsAre ==
    ASSUME NEW string \in Clean, NEW n, n = Len(string)
    PROVE  \E f : /\ \A p \in 1..(n + 1) : FieldsFrom(f, string, n, p)
                  /\ Z!Fields(string) = f[1]
<1>1. n \in Nat
  BY CleanIs
<1> DEFINE C(p) == CutsFrom(string, p)
           T == Seq(Clean)
           Jump(p) == IF C(p) = {} THEN n + 2 ELSE Z!Min(C(p)) + 1
           Then(p, after) == IF C(p) = {} THEN <<SubSeq(string, p, n)>>
                             ELSE IF Z!Min(C(p)) = p THEN after
                             ELSE <<SubSeq(string, p, Z!Min(C(p)) - 1)>> \o after
           Round == [p \in 1..(n + 1) |-> [after \in T |-> Then(p, after)]]
<1>2. PICK jump : jump = [p \in 1..(n + 1) |-> Jump(p)]
  OBVIOUS
<1>3. \A p \in 1..(n + 1) : C(p) # {} => Z!Min(C(p)) \in p..n
  BY CutsAre
<1>4. ASSUME NEW p \in 1..(n + 1) PROVE Jump(p) \in 1..(n + 1 + 1) /\ Jump(p) > p
  <2>1. CASE C(p) = {}
    BY <1>1, <2>1
  <2>2. CASE C(p) # {}
    <3>1. PICK q : q = Z!Min(C(p))
      OBVIOUS
    <3>2. q \in p..n /\ Jump(p) = q + 1
      BY <1>3, <2>2, <3>1
    <3> HIDE DEF Jump
    <3> QED
      BY <1>1, <3>2
  <2> QED
    BY <2>1, <2>2
<1>5. ASSUME NEW p \in 1..(n + 1), NEW after \in T PROVE Then(p, after) \in T
  <2>1. CASE C(p) = {}
    <3>0. n \in 0..n /\ p <= n + 1
      BY <1>1
    <3>1. SubSeq(string, p, n) \in Clean
      BY <3>0, PieceIsClean
    <3>2. <<SubSeq(string, p, n)>> \in Seq(Clean)
      BY <3>1
    <3> QED
      BY <2>1, <3>2
  <2>2. CASE C(p) # {}
    <3>1. PICK q : q = Z!Min(C(p)) - 1
      OBVIOUS
    <3>2. q \in 0..n /\ p <= q + 1
      BY <1>1, <1>3, <2>2, <3>1
    <3>3. SubSeq(string, p, q) \in Clean
      BY <3>2, PieceIsClean
    <3>4. <<SubSeq(string, p, q)>> \in Seq(Clean)
      BY <3>3
    <3>5. <<SubSeq(string, p, q)>> \o after \in Seq(Clean)
      BY <3>4, ConcatProperties
    <3> QED
      BY <2>2, <3>1, <3>5
  <2> QED
    BY <2>1, <2>2
<1> HIDE DEF Jump, Then, C
<1>6. Round \in [1..(n + 1) -> [T -> T]]
  <2> HIDE DEF T
  <2> QED
    BY <1>5
<1>7. << >> \in T
  BY EmptySeq
<1>8. jump \in [1..(n + 1) -> 1..(n + 1 + 1)] /\ \A p \in 1..(n + 1) : jump[p] > p /\ jump[p] = Jump(p)
  BY <1>2, <1>4
<1> HIDE DEF T
<1>9. PICK f : Follows(f, 1, n + 1, T, << >>, jump, Round)
  <2>1. n + 1 \in Nat
    BY <1>1
  <2> HIDE DEF Round
  <2> QED
    BY <1>6, <1>7, <1>8, <2>1, Jumps
<1>10. f \in [1..(n + 1 + 1) -> T] /\ \A p \in 1..(n + 1) : f[p] = Round[p][f[jump[p]]]
  BY <1>9 DEF Follows
<1>11. ASSUME NEW p \in 1..(n + 1) PROVE f[p] \in T /\ f[p] = Then(p, f[Jump(p)])
  <2>1. p \in 1..(n + 1 + 1)
    BY <1>1
  <2>2. f[jump[p]] \in T
    BY <1>8, <1>10
  <2>3. Round[p][f[jump[p]]] = Then(p, f[jump[p]])
    BY <2>2
  <2> HIDE DEF Round
  <2> QED
    BY <1>8, <1>10, <2>1, <2>3
<1> HIDE DEF Round
<1> DEFINE Step(g, p) == IF C(p) = {} THEN <<SubSeq(string, p, n)>>
                         ELSE IF Z!Min(C(p)) = p THEN g[p + 1]
                         ELSE <<SubSeq(string, p, Z!Min(C(p)) - 1)>> \o g[Z!Min(C(p)) + 1]
           rest == CHOOSE g : g = [p \in 1..(n + 1) |-> Step(g, p)]
           h == [p \in 1..(n + 1) |-> f[p]]
<1>12. Z!Fields(string) = rest[1]
  BY DEF Z!Fields, C, CutsFrom
<1>13. ASSUME NEW p \in 1..(n + 1) PROVE h[p] = Step(h, p)
  <2>1. h[p] = f[p]
    OBVIOUS
  <2>2. f[p] = Then(p, f[Jump(p)])
    BY <1>11
  <2>3. CASE C(p) = {}
    BY <2>1, <2>2, <2>3 DEF Then
  <2>4. CASE C(p) # {}
    <3>1. PICK q : q = Z!Min(C(p))
      OBVIOUS
    <3>2. q \in p..n /\ Jump(p) = q + 1
      BY <1>3, <2>4, <3>1 DEF Jump
    <3>3. q + 1 \in 1..(n + 1)
      BY <1>1, <3>2
    <3>4. h[q + 1] = f[q + 1]
      BY <3>3
    <3> HIDE DEF h
    <3>5. h[p] = IF q = p THEN h[q + 1] ELSE <<SubSeq(string, p, q - 1)>> \o h[q + 1]
      BY <2>1, <2>2, <2>4, <3>1, <3>2, <3>4 DEF Then
    <3> QED
      BY <2>4, <3>1, <3>5
  <2> QED
    BY <2>3, <2>4
<1>14. h = [p \in 1..(n + 1) |-> h[p]]
  OBVIOUS
<1> HIDE DEF h
<1>15. h = [p \in 1..(n + 1) |-> Step(h, p)]
  <2> HIDE DEF Step
  <2> QED
    BY <1>13, <1>14
<1>16. rest = [p \in 1..(n + 1) |-> Step(rest, p)]
  <2> HIDE DEF Step
  <2> QED
    BY <1>15
<1>17. PICK g : g = rest
  OBVIOUS
<1>18. \A p \in 1..(n + 1) : g[p] = Step(g, p)
  <2> HIDE DEF Step, rest
  <2> QED
    BY <1>16, <1>17
<1> HIDE DEF rest
\* All of them are strings, from the end on.
<1> DEFINE P == {m \in 0..n : \A p \in 1..(n + 1) : p >= n + 1 - m => g[p] \in Seq(Clean)}
<1>19. ASSUME NEW p \in 1..(n + 1), \A q \in (p + 1)..(n + 1) : g[q] \in Seq(Clean)
       PROVE  g[p] \in Seq(Clean)
  <2>1. g[p] = Step(g, p)
    <3> HIDE DEF Step
    <3> QED
      BY <1>18
  <2>2. CASE C(p) = {}
    <3>0. n \in 0..n /\ p <= n + 1
      BY <1>1
    <3>1. SubSeq(string, p, n) \in Clean
      BY <3>0, PieceIsClean
    <3>2. <<SubSeq(string, p, n)>> \in Seq(Clean)
      BY <3>1
    <3> QED
      BY <2>1, <2>2, <3>2
  <2>3. CASE C(p) # {}
    <3>1. PICK q : q = Z!Min(C(p))
      OBVIOUS
    <3>2. q \in p..n /\ q + 1 \in (p + 1)..(n + 1) /\ q - 1 \in 0..n /\ p <= (q - 1) + 1
      BY <1>1, <1>3, <2>3, <3>1
    <3>3. g[q + 1] \in Seq(Clean) /\ SubSeq(string, p, q - 1) \in Clean
      BY <1>19, <3>2, PieceIsClean
    <3>4. <<SubSeq(string, p, q - 1)>> \in Seq(Clean)
      BY <3>3
    <3>5. <<SubSeq(string, p, q - 1)>> \o g[q + 1] \in Seq(Clean)
      BY <3>3, <3>4, ConcatProperties
    <3>6. g[p] = IF q = p THEN g[q + 1] ELSE <<SubSeq(string, p, q - 1)>> \o g[q + 1]
      BY <2>1, <2>3, <3>1
    <3> QED
      BY <3>3, <3>5, <3>6
  <2> QED
    BY <2>2, <2>3
<1>20. 0 \in P
  <2>1. ASSUME NEW p \in 1..(n + 1), p >= n + 1 - 0 PROVE g[p] \in Seq(Clean)
    <3>1. p = n + 1
      BY <1>1, <2>1
    <3>2. \A q \in (p + 1)..(n + 1) : FALSE
      BY <1>1, <3>1
    <3>3. \A q \in (p + 1)..(n + 1) : g[q] \in Seq(Clean)
      BY <3>2
    <3> QED
      BY <1>19, <3>3
  <2> QED
    BY <1>1, <2>1
<1>21. ASSUME NEW m \in 0..n, m \in P, m < n PROVE m + 1 \in P
  <2>1. ASSUME NEW p \in 1..(n + 1), p >= n + 1 - (m + 1) PROVE g[p] \in Seq(Clean)
    <3>1. ASSUME NEW q \in (p + 1)..(n + 1) PROVE g[q] \in Seq(Clean)
      <4>1. q \in 1..(n + 1) /\ q >= n + 1 - m
        BY <1>1, <1>21, <2>1
      <4> QED
        BY <1>21, <4>1
    <3> QED
      BY <1>19, <3>1
  <2>2. m + 1 \in 0..n
    BY <1>1, <1>21
  <2> QED
    BY <2>1, <2>2
<1>22. 0..n \subseteq P
  <2>1. P \in SUBSET Nat
    OBVIOUS
  <2> HIDE DEF P
  <2> QED
    BY <1>1, <1>20, <1>21, <2>1, UpTo
<1>23. ASSUME NEW p \in 1..(n + 1) PROVE g[p] \in Seq(Clean)
  <2>1. n \in P
    <3> HIDE DEF P
    <3> QED
      BY <1>1, <1>22
  <2>2. p >= n + 1 - n
    BY <1>1
  <2> QED
    BY <2>1, <2>2
<1>24. ASSUME NEW p \in 1..(n + 1) PROVE FieldsFrom(g, string, n, p)
  <2>1. g[p] = Step(g, p)
    <3> HIDE DEF Step
    <3> QED
      BY <1>18
  <2> QED
    BY <1>23, <2>1 DEF FieldsFrom, C
<1> QED
  BY <1>12, <1>17, <1>24

\* Bytes behind others.
LEMMA BytesBehind ==
    ASSUME NEW before \in Text, NEW string \in Text
    PROVE  Z!Bytes(before \o string) = before \o Z!Bytes(string)
<1>1. Z!NUL \in Characters
  BY DEF Characters
<1>2. PICK nul : nul = <<Z!NUL>>
  OBVIOUS
<1>3. nul \in Text
  BY <1>1, <1>2 DEF Text
<1>4. before \o string \in Text
  BY ConcatProperties DEF Text
<1>5. Append(before \o string, Z!NUL) = (before \o string) \o nul /\ Append(string, Z!NUL) = string \o nul
  BY <1>1, <1>2, <1>4, AppendIsConcat DEF Text
<1>6. (before \o string) \o nul = before \o (string \o nul)
  BY <1>3, ConcatAssociative DEF Text
<1> QED
  BY <1>5, <1>6 DEF Z!Bytes

\* Where a string may be passed over: nothing is written, or a string has just ended.
ReadyToCut(bytes) == bytes = << >> \/ Z!Last(bytes) = Z!NUL

NoDelim(string, p, q) == \A r \in p..q : string[r] # Delim

\* Up to a delimiter, characters are copied.
CopyBegins(f, bytes, string, n, p, q) ==
    /\ bytes \in Text /\ string \in Clean /\ n = Len(string) /\ Writing(f, bytes, string, n)
    /\ p \in 1..(n + 1) /\ q \in 0..n /\ p <= q + 1 /\ NoDelim(string, p, q)

CopyEnds(f, string, p, q) == f[q] = f[p - 1] \o SubSeq(string, p, q)

LEMMA Copies ==
    ASSUME NEW f, NEW bytes, NEW string, NEW n, NEW p, NEW q, CopyBegins(f, bytes, string, n, p, q)
    PROVE  CopyEnds(f, string, p, q)
<1>0. /\ bytes \in Text /\ string \in Clean /\ n = Len(string) /\ Writing(f, bytes, string, n)
      /\ p \in 1..(n + 1) /\ q \in 0..n /\ p <= q + 1 /\ NoDelim(string, p, q)
  BY DEF CopyBegins
<1>1. n \in Nat /\ \A r \in 1..n : string[r] \in Characters
  BY <1>0, CleanIs
<1>2. PICK l : l = q - p + 1
  OBVIOUS
<1>3. PICK u : u = p - 1
  OBVIOUS
<1>4. l \in Nat /\ u \in 0..n /\ q = u + l /\ p = u + 1
  BY <1>0, <1>1, <1>2, <1>3
<1>5. f[u] \in Text
  BY <1>0, <1>4 DEF Writing
<1> DEFINE P == {m \in 0..l : f[u + m] = f[u] \o SubSeq(string, p, u + m)}
<1>6. 0 \in P
  <2>1. u + 0 = u /\ u < p
    BY <1>1, <1>4
  <2>2. SubSeq(string, p, u) = << >>
    BY <1>4, <2>1, SubSeqEmpty
  <2>3. f[u] \o << >> = f[u]
    BY <1>5, ConcatEmptySeq DEF Text
  <2>4. f[u + 0] = f[u] \o SubSeq(string, p, u + 0)
    BY <2>1, <2>2, <2>3
  <2>5. 0 \in 0..l
    BY <1>4
  <2> QED
    BY <2>4, <2>5
<1>7. ASSUME NEW m \in 0..l, m \in P, m < l PROVE m + 1 \in P
  <2>1. PICK r : r = u + m
    OBVIOUS
  <2>2. /\ r \in 0..n /\ r + 1 \in 1..n /\ r + 1 \in p..q /\ u + (m + 1) = r + 1 /\ (r + 1) - 1 = r
        /\ p <= r + 1 /\ m + 1 \in 0..l
    BY <1>0, <1>1, <1>4, <1>7, <2>1
  <2>3. f[r] = f[u] \o SubSeq(string, p, r)
    BY <1>7, <2>1
  <2>4. f[r + 1] = Append(f[r], string[r + 1])
    BY <1>0, <2>2 DEF Writing, NoDelim
  <2>5. PICK a, b, c : a = f[u] /\ b = SubSeq(string, p, r) /\ c = string[r + 1]
    OBVIOUS
  <2>6. c \in Characters
    BY <1>1, <2>2, <2>5
  <2>7. b \in Text
    BY <1>0, <2>2, <2>5, PieceIsClean, CleanIsText
  <2>8. SubSeq(string, p, r + 1) = b \o <<c>>
    <3>1. string \in Seq(Characters) /\ p \in 1..Len(string) /\ r + 1 \in p..Len(string)
      BY <1>0, <1>1, <1>4, <2>2, CleanIs
    <3>2. SubSeq(string, p, r + 1) = SubSeq(string, p, (r + 1) - 1) \o <<string[r + 1]>>
      BY ONLY <3>1, SubSeqRecursiveSecond
    <3> QED
      BY <2>2, <2>5, <3>2
  <2>9. Append(a \o b, c) = a \o (b \o <<c>>)
    <3>1. a \in Text /\ a \o b \in Text /\ <<c>> \in Text
      BY <1>5, <2>5, <2>6, <2>7, ConcatProperties DEF Text
    <3>2. Append(a \o b, c) = (a \o b) \o <<c>>
      BY <2>6, <3>1, AppendIsConcat DEF Text
    <3>3. (a \o b) \o <<c>> = a \o (b \o <<c>>)
      BY <2>7, <3>1, ConcatAssociative DEF Text
    <3> QED
      BY <3>2, <3>3
  <2>10. f[r + 1] = f[u] \o SubSeq(string, p, r + 1)
    BY <2>3, <2>4, <2>5, <2>8, <2>9
  <2>11. f[u + (m + 1)] = f[u] \o SubSeq(string, p, u + (m + 1))
    BY <2>2, <2>10
  <2> QED
    BY <2>2, <2>11
<1>8. 0..l \subseteq P
  <2>1. P \in SUBSET Nat
    OBVIOUS
  <2> HIDE DEF P
  <2> QED
    BY <1>4, <1>6, <1>7, <2>1, UpTo
<1>9. f[u + l] = f[u] \o SubSeq(string, p, u + l)
  <2>1. l \in P
    <3> HIDE DEF P
    <3> QED
      BY <1>4, <1>8
  <2> QED
    BY <2>1
<1>10. f[q] = f[u] \o SubSeq(string, p, q)
  <2>1. q = u + l
    BY <1>4
  <2> QED
    BY <1>9, <2>1, Zenon
<1> QED
  BY <1>3, <1>10, Zenon DEF CopyEnds

\* The last byte of what is written.
LEMMA LastIs ==
    ASSUME NEW bytes \in Text, NEW c \in Characters
    PROVE  Z!Last(Append(bytes, c)) = c
<1>1. Append(bytes, c) \in Text /\ Len(Append(bytes, c)) = Len(bytes) + 1 /\ Append(bytes, c)[Len(bytes) + 1] = c
  BY AppendProperties DEF Text
<1> QED
  BY <1>1 DEF Z!Last

LEMMA LastBehind ==
    ASSUME NEW before \in Text, NEW string \in Clean, Len(string) > 0
    PROVE  before \o string # << >> /\ Z!Last(before \o string) # Z!NUL
<1>1. PICK k, l : k = Len(before) /\ l = Len(string)
  OBVIOUS
<1>2. k \in Nat /\ l \in Nat /\ l > 0 /\ string[l] # Z!NUL /\ string \in Text
  <2>1. k \in Nat /\ l \in Nat /\ l > 0 /\ string \in Text
    BY <1>1, CleanIs, CleanIsText, LenProperties DEF Text
  <2>2. l \in 1..l
    BY <2>1
  <2> QED
    BY <1>1, <2>1, <2>2, CleanIs
<1>3. PICK whole : whole = before \o string
  OBVIOUS
<1>4. /\ Len(whole) = k + l /\ whole \in Text
      /\ \A j \in 1..(k + l) : whole[j] = IF j <= k THEN before[j] ELSE string[j - k]
  BY <1>1, <1>2, <1>3, ConcatProperties DEF Text
<1>5. k + l \in 1..(k + l) /\ ~(k + l <= k) /\ (k + l) - k = l /\ k + l # 0
  BY <1>2
<1>6. whole[k + l] # Z!NUL
  BY <1>2, <1>4, <1>5
<1>7. whole # << >>
  BY <1>4, <1>5, EmptySeq
<1> QED
  BY <1>3, <1>4, <1>6, <1>7 DEF Z!Last

\* Cutting from a character on gives the strings from it on.
CutFrom(w, f, string, n, p) ==
    ReadyToCut(w[p - 1]) => Z!Bytes(w[n]) = w[p - 1] \o Z!Flat(f[p])

LEMMA CutFromStays ==
    ASSUME NEW bytes \in Text, NEW string \in Clean, NEW n, n = Len(string),
           NEW w, Writing(w, bytes, string, n),
           NEW f, \A q \in 1..(n + 1) : FieldsFrom(f, string, n, q),
           NEW p \in 1..(n + 1), \A q \in (p + 1)..(n + 1) : CutFrom(w, f, string, n, q)
    PROVE  CutFrom(w, f, string, n, p)
<1>1. n \in Nat /\ \A r \in 1..n : string[r] \in Characters /\ string[r] # Z!NUL
  BY CleanIs
<1>2. SUFFICES ASSUME ReadyToCut(w[p - 1]) PROVE Z!Bytes(w[n]) = w[p - 1] \o Z!Flat(f[p])
  BY DEF CutFrom
<1>3. PICK u : u = p - 1
  OBVIOUS
<1>4. u \in 0..n /\ p = u + 1 /\ p \in Int
  BY <1>1, <1>3
<1>5. \A r \in 0..n : w[r] \in Text
  BY DEF Writing
<1>6. PICK a : a = w[u]
  OBVIOUS
<1>7. a \in Text /\ ReadyToCut(a)
  BY <1>2, <1>3, <1>4, <1>5, <1>6
<1>8. FieldsFrom(f, string, n, p)
  OBVIOUS
<1>9. CASE CutsFrom(string, p) = {}
  <2>1. \A r \in p..n : string[r] # Delim
    <3>1. ASSUME NEW r \in p..n, string[r] = Delim PROVE FALSE
      <4>1. r \in CutsFrom(string, p)
        BY <3>1 DEF CutsFrom
      <4> QED
        BY <1>9, <4>1
    <3> QED
      BY <3>1
  <2>2. PICK s : s = SubSeq(string, p, n)
    OBVIOUS
  <2>3. n \in 0..n /\ p <= n + 1
    BY <1>1
  <2>4. w[n] = w[p - 1] \o SubSeq(string, p, n)
    <3>1. NoDelim(string, p, n)
      BY <2>1 DEF NoDelim
    <3>2. CopyBegins(w, bytes, string, n, p, n)
      BY <2>3, <3>1 DEF CopyBegins
    <3>3. CopyEnds(w, string, p, n)
      BY ONLY <3>2, Copies
    <3> QED
      BY <3>3 DEF CopyEnds
  <2>5. w[n] = a \o s
    BY <1>3, <1>6, <2>2, <2>4, Zenon
  <2>6. s \in Clean /\ s \in Text
    BY <2>2, <2>3, PieceIsClean, CleanIsText
  <2>7. Z!Bytes(w[n]) = a \o Z!Bytes(s)
    BY <1>7, <2>5, <2>6, BytesBehind
  <2>8. f[p] = <<s>>
    BY <1>8, <1>9, <2>2 DEF FieldsFrom
  <2>9. Z!Flat(f[p]) = Z!Bytes(s)
    BY <2>6, <2>8, FlatOne
  <2> QED
    BY <1>3, <1>6, <2>7, <2>9, Zenon
<1>10. CASE CutsFrom(string, p) # {}
  <2>1. PICK q : q = Z!Min(CutsFrom(string, p))
    OBVIOUS
  <2>2. q \in p..n /\ string[q] = Delim /\ \A r \in p..(q - 1) : string[r] # Delim
    BY <1>10, <2>1, CutsAre
  <2>3. /\ q \in 1..n /\ q \in 0..n /\ q + 1 \in (p + 1)..(n + 1) /\ (q + 1) - 1 = q
        /\ q + 1 \in 1..(n + 1)
    BY <1>1, <2>2
  <2>4. PICK c, v : c = w[q] /\ v = w[q - 1]
    OBVIOUS
  <2>5. c = IF v # << >> /\ Z!Last(v) # Z!NUL THEN Append(v, Z!NUL) ELSE v
    BY <2>2, <2>3, <2>4 DEF Writing
  <2>6. CutFrom(w, f, string, n, q + 1)
    BY <2>3
  <2>7. ReadyToCut(c) => Z!Bytes(w[n]) = c \o Z!Flat(f[q + 1])
    BY <2>3, <2>4, <2>6 DEF CutFrom
  <2>8. CASE q = p
    <3>1. v = a
      BY <1>3, <1>6, <2>4, <2>8
    <3>2. c = a
      BY <1>7, <2>5, <3>1 DEF ReadyToCut
    <3>3. f[p] = f[q + 1]
      BY <1>8, <1>10, <2>1, <2>8 DEF FieldsFrom
    <3>4. Z!Bytes(w[n]) = a \o Z!Flat(f[p])
      BY <1>7, <2>7, <3>2, <3>3
    <3> QED
      BY <1>3, <1>6, <3>4, Zenon
  <2>9. CASE q # p
    <3>1. PICK l : l = q - 1
      OBVIOUS
    <3>2. l \in 0..n /\ p <= l + 1 /\ l - p + 1 > 0 /\ \A r \in p..l : string[r] # Delim
      <4>1. n \in Nat /\ p \in 1..(n + 1) /\ q \in p..n /\ q # p /\ l = q - 1
        BY <1>1, <2>2, <2>9, <3>1
      <4>2. l \in 0..n /\ p <= l + 1 /\ l - p + 1 > 0
        BY ONLY <4>1
      <4> QED
        BY <2>2, <3>1, <4>2
    <3>3. PICK s : s = SubSeq(string, p, l)
      OBVIOUS
    <3>4. w[l] = w[p - 1] \o SubSeq(string, p, l)
      <4>1. NoDelim(string, p, l)
        BY <3>2 DEF NoDelim
      <4>2. CopyBegins(w, bytes, string, n, p, l)
        BY <3>2, <4>1 DEF CopyBegins
      <4>3. CopyEnds(w, string, p, l)
        BY ONLY <4>2, Copies
      <4> QED
        BY <4>3 DEF CopyEnds
    <3>5. v = a \o s
      BY <1>3, <1>6, <2>4, <3>1, <3>3, <3>4, Zenon
    <3>6. s \in Clean /\ s \in Text /\ Len(s) > 0
      BY <3>2, <3>3, PieceIsClean, CleanIsText
    <3>7. v # << >> /\ Z!Last(v) # Z!NUL
      BY <1>7, <3>5, <3>6, LastBehind
    <3>8. c = Append(v, Z!NUL)
      BY <2>5, <3>7
    <3>9. c = a \o Z!Bytes(s)
      <4>1. c = Z!Bytes(a \o s)
        BY <3>5, <3>8 DEF Z!Bytes
      <4> QED
        BY <1>7, <3>6, <4>1, BytesBehind
    <3>10. ReadyToCut(c)
      <4>1. Z!NUL \in Characters
        BY DEF Characters
      <4>2. v \in Text
        BY <1>7, <3>5, <3>6, ConcatProperties DEF Text
      <4> QED
        BY <3>8, <4>1, <4>2, LastIs DEF ReadyToCut
    <3>11. PICK more : more = f[q + 1]
      OBVIOUS
    <3>12. more \in Seq(Clean)
      BY <2>3, <3>11 DEF FieldsFrom
    <3>13. f[p] = <<s>> \o more
      BY <1>8, <1>10, <2>1, <2>9, <3>1, <3>3, <3>11 DEF FieldsFrom
    <3>14. Z!Flat(f[p]) = Z!Bytes(s) \o Z!Flat(more)
      <4>1. <<s>> \in Seq(Clean)
        BY <3>6
      <4>2. Z!Flat(<<s>> \o more) = Z!Flat(<<s>>) \o Z!Flat(more)
        BY <3>12, <4>1, FlatJoins
      <4> QED
        BY <3>6, <3>13, <4>2, FlatOne
    <3>15. (a \o Z!Bytes(s)) \o Z!Flat(more) = a \o (Z!Bytes(s) \o Z!Flat(more))
      <4>1. a \in Text /\ Z!Bytes(s) \in Text /\ Z!Flat(more) \in Text
        BY <1>7, <3>6, <3>12, BytesAre, FlatIsText
      <4> QED
        BY ONLY <4>1, ConcatAssociative DEF Text
    <3>16. Z!Bytes(w[n]) = a \o Z!Flat(f[p])
      BY <2>7, <3>9, <3>10, <3>11, <3>14, <3>15, Zenon
    <3> QED
      BY <1>3, <1>6, <3>16, Zenon
  <2> QED
    BY <2>8, <2>9
<1> QED
  BY <1>9, <1>10

\* Cut writes the strings between the delimiters.
LEMMA CutIs ==
    ASSUME NEW bytes \in Text, ReadyToCut(bytes), NEW string \in Clean
    PROVE  /\ Z!Cut(bytes, string).bytes = bytes \o Z!Flat(Z!Fields(string))
           /\ Z!Fields(string) \in Seq(Clean)
           /\ Z!Cut(bytes, string).nlen \in Int
           /\ Len(bytes) + Z!Cut(bytes, string).nlen = Len(Z!Cut(bytes, string).bytes)
<1>1. PICK n : n = Len(string)
  OBVIOUS
<1>2. n \in Nat
  BY <1>1, CleanIs
<1>3. PICK w : /\ Writing(w, bytes, string, n) /\ Z!Cut(bytes, string).bytes = Z!Bytes(w[n])
               /\ Z!Cut(bytes, string).nlen \in Int
               /\ Len(bytes) + Z!Cut(bytes, string).nlen = Len(w[n]) + 1
  BY <1>1, CutIsWritten
<1>4. PICK f : (\A p \in 1..(n + 1) : FieldsFrom(f, string, n, p)) /\ Z!Fields(string) = f[1]
  BY <1>1, FieldsAre
<1>5. ASSUME NEW p \in 1..(n + 1), \A q \in (p + 1)..(n + 1) : CutFrom(w, f, string, n, q)
      PROVE  CutFrom(w, f, string, n, p)
  BY <1>1, <1>3, <1>4, <1>5, CutFromStays
<1> DEFINE P == {m \in 0..n : \A p \in 1..(n + 1) : p >= n + 1 - m => CutFrom(w, f, string, n, p)}
<1>6. 0 \in P
  <2>1. ASSUME NEW p \in 1..(n + 1), p >= n + 1 - 0 PROVE CutFrom(w, f, string, n, p)
    <3>1. p = n + 1
      BY <1>2, <2>1
    <3>2. \A q \in (p + 1)..(n + 1) : FALSE
      BY <1>2, <3>1
    <3>3. \A q \in (p + 1)..(n + 1) : CutFrom(w, f, string, n, q)
      BY <3>2
    <3> QED
      BY <1>5, <3>3
  <2> QED
    BY <1>2, <2>1
<1>7. ASSUME NEW m \in 0..n, m \in P, m < n PROVE m + 1 \in P
  <2>1. ASSUME NEW p \in 1..(n + 1), p >= n + 1 - (m + 1) PROVE CutFrom(w, f, string, n, p)
    <3>1. ASSUME NEW q \in (p + 1)..(n + 1) PROVE CutFrom(w, f, string, n, q)
      <4>1. q \in 1..(n + 1) /\ q >= n + 1 - m
        BY <1>2, <1>7, <2>1
      <4> QED
        BY <1>7, <4>1
    <3> QED
      BY <1>5, <3>1
  <2>2. m + 1 \in 0..n
    BY <1>2, <1>7
  <2> QED
    BY <2>1, <2>2
<1>8. 0..n \subseteq P
  <2>1. P \in SUBSET Nat
    OBVIOUS
  <2> HIDE DEF P
  <2> QED
    BY <1>2, <1>6, <1>7, <2>1, UpTo
<1>9. CutFrom(w, f, string, n, 1)
  <2>1. n \in P
    <3> HIDE DEF P
    <3> QED
      BY <1>2, <1>8
  <2>2. 1 >= n + 1 - n /\ 1 \in 1..(n + 1)
    BY <1>2
  <2> QED
    BY <2>1, <2>2
<1>10. w[1 - 1] = bytes
  BY <1>3 DEF Writing
<1>11. Z!Bytes(w[n]) = bytes \o Z!Flat(f[1])
  BY <1>9, <1>10 DEF CutFrom
<1>12. f[1] \in Seq(Clean)
  <2>1. 1 \in 1..(n + 1)
    BY <1>2
  <2> QED
    BY <1>4, <2>1 DEF FieldsFrom
<1>13. Len(Z!Bytes(w[n])) = Len(w[n]) + 1
  <2>1. w[n] \in Text
    <3>1. n \in 0..n
      BY <1>2
    <3> QED
      BY <1>3, <3>1 DEF Writing
  <2> QED
    BY <2>1, BytesAre
<1> QED
  BY <1>3, <1>4, <1>11, <1>12, <1>13

--------------------------------------------------------------------------------
(* Argz: strings of which parts are replaced.                              *)

\* str begins at p.
Occurs(string, str, p) ==
    p + Len(str) <= Len(string) + 1 /\ SubSeq(string, p, p + Len(str) - 1) = str

LEMMA MatchesAre ==
    ASSUME NEW from \in Clean, NEW n, n = Len(from), NEW str \in Clean, NEW l, l = Len(str), l > 0,
           NEW p \in 1..(n + 1)
    PROVE  /\ Z!Matches(from, str, p) = {} => \A q \in p..n : ~Occurs(from, str, q)
           /\ Z!Matches(from, str, p) # {} =>
                 LET least == Z!Min(Z!Matches(from, str, p))
                 IN  /\ least \in p..n /\ least + l \in (p + 1)..(n + 1) /\ Occurs(from, str, least)
                     /\ \A q \in p..(least - 1) : ~Occurs(from, str, q)
<1>1. n \in Nat /\ l \in Nat /\ l > 0
  BY CleanIs
<1>2. PICK matches : matches = Z!Matches(from, str, p)
  OBVIOUS
<1>3. \A q : q \in matches <=> q \in p..(n - l + 1) /\ SubSeq(from, q, q + l - 1) = str
  BY <1>2 DEF Z!Matches
<1>4. \A q \in p..n : q \in matches <=> Occurs(from, str, q)
  <2>1. \A q \in p..n : q \in p..(n - l + 1) <=> q + l <= n + 1
    BY <1>1
  <2> QED
    BY <1>3, <2>1 DEF Occurs
<1>5. ASSUME NEW least, least = Z!Min(matches), matches # {}
      PROVE  /\ least \in p..n /\ least + l \in (p + 1)..(n + 1) /\ Occurs(from, str, least)
             /\ \A q \in p..(least - 1) : ~Occurs(from, str, q)
  <2>1. matches \in SUBSET Nat
    BY <1>1, <1>3
  <2>2. least \in matches /\ \A q \in matches : least <= q
    BY <1>5, <2>1, LeastExists
  <2>3. least \in p..(n - l + 1)
    BY <1>3, <2>2
  <2>4. least \in p..n /\ least + l \in (p + 1)..(n + 1)
    BY <1>1, <2>3
  <2>5. ASSUME NEW q \in p..(least - 1) PROVE ~Occurs(from, str, q)
    <3>1. q \in p..n /\ ~(least <= q)
      BY <1>1, <2>4
    <3> QED
      BY <1>4, <2>2, <3>1
  <2> QED
    BY <1>4, <2>2, <2>4, <2>5
<1>6. matches = {} => \A q \in p..n : ~Occurs(from, str, q)
  BY <1>4
<1> QED
  BY <1>2, <1>5, <1>6

\* Two strings together are one.
LEMMA CleanJoins ==
    ASSUME NEW before \in Clean, NEW string \in Clean
    PROVE  before \o string \in Clean
<1>1. PICK k, l, whole : k = Len(before) /\ l = Len(string) /\ whole = before \o string
  OBVIOUS
<1>2. /\ k \in Nat /\ l \in Nat
      /\ (\A j \in 1..k : before[j] # Z!NUL) /\ \A j \in 1..l : string[j] # Z!NUL
  BY <1>1, CleanIs
<1>3. before \in Text /\ string \in Text
  BY CleanIsText
<1>4. /\ Len(whole) = k + l /\ whole \in Text
      /\ \A j \in 1..(k + l) : whole[j] = IF j <= k THEN before[j] ELSE string[j - k]
  BY <1>1, <1>3, ConcatProperties DEF Text
<1>5. ASSUME NEW j \in DOMAIN whole PROVE whole[j] # Z!NUL
  <2>1. j \in 1..(k + l)
    BY <1>4, LenProperties DEF Text
  <2>2. CASE j <= k
    <3>1. j \in 1..k
      BY <1>2, <2>1, <2>2
    <3> QED
      BY <1>2, <1>4, <2>1, <2>2, <3>1
  <2>3. CASE ~(j <= k)
    <3>1. j - k \in 1..l
      BY <1>2, <2>1, <2>3
    <3> QED
      BY <1>2, <1>4, <2>1, <2>3, <3>1
  <2> QED
    BY <2>2, <2>3
<1> QED
  BY <1>1, <1>4, <1>5 DEF Clean

\* A set with each number that all the later ones bring into it.
LEMMA DownFrom ==
    ASSUME NEW n \in Nat, NEW P \in SUBSET Nat,
           \A p \in 1..n : (\A q \in (p + 1)..n : q \in P) => p \in P
    PROVE  1..n \subseteq P
<1> DEFINE M == {m \in 0..n : \A q \in (n + 1 - m)..n : q \in P}
<1>1. 0 \in M
  <2>1. \A q \in (n + 1 - 0)..n : FALSE
    OBVIOUS
  <2> QED
    BY <2>1
<1>2. ASSUME NEW m \in 0..n, m \in M, m < n PROVE m + 1 \in M
  <2>1. PICK p : p = n - m
    OBVIOUS
  <2>2. p \in 1..n /\ n + 1 - m = p + 1 /\ n + 1 - (m + 1) = p /\ m + 1 \in 0..n
    BY <1>2, <2>1
  <2>3. \A q \in (p + 1)..n : q \in P
    BY <1>2, <2>2
  <2>4. p \in P
    BY <2>2, <2>3
  <2>5. \A q \in p..n : q = p \/ q \in (p + 1)..n
    BY <2>2
  <2>6. \A q \in p..n : q \in P
    BY <2>3, <2>4, <2>5
  <2> QED
    BY <2>2, <2>6
<1>3. n \in M
  <2>1. M \in SUBSET Nat
    OBVIOUS
  <2>2. 0..n \subseteq M
    <3> HIDE DEF M
    <3> QED
      BY <1>1, <1>2, <2>1, UpTo
  <2> HIDE DEF M
  <2> QED
    BY <2>2
<1>4. n + 1 - n = 1
  OBVIOUS
<1> QED
  BY <1>3, <1>4

\* The scan of a string, from each character on.
Scan(r, string, str, with) ==
    \A p \in 1..(Len(string) + 1) :
       /\ r[p] \in Clean
       /\ r[p] = IF p > Len(string) THEN << >>
                 ELSE IF Occurs(string, str, p) THEN with \o r[p + Len(str)]
                 ELSE <<string[p]>> \o r[p + 1]

LEMMA ReplacedIsScan ==
    ASSUME NEW string \in Clean, NEW str \in Clean, Len(str) > 0, NEW with \in Clean
    PROVE  \E r : Scan(r, string, str, with) /\ Z!Replaced(string, str, with) = r[1]
<1>1. PICK n, l : n = Len(string) /\ l = Len(str)
  OBVIOUS
<1>2. n \in Nat /\ l \in Nat /\ l > 0 /\ \A p \in 1..n : string[p] \in Characters /\ string[p] # Z!NUL
  BY <1>1, CleanIs
<1> DEFINE At(p) == p + l <= n + 1 /\ SubSeq(string, p, p + l - 1) = str
           Jump(p) == IF p > n THEN n + 2 ELSE IF At(p) THEN p + l ELSE p + 1
           Then(p, after) == IF p > n THEN << >> ELSE IF At(p) THEN with \o after
                             ELSE <<string[p]>> \o after
           Round == [p \in 1..(n + 1) |-> [after \in Clean |-> Then(p, after)]]
           jump == [p \in 1..(n + 1) |-> Jump(p)]
<1>3. ASSUME NEW p \in 1..(n + 1)
      PROVE  /\ Jump(p) \in 1..(n + 1 + 1) /\ Jump(p) > p
             /\ p <= n => Jump(p) \in (p + 1)..(n + 1)
  <2>1. CASE p > n
    BY <1>2, <2>1
  <2>2. CASE ~(p > n) /\ At(p)
    <3>1. Jump(p) = p + l /\ p + l <= n + 1
      BY <2>2
    <3> HIDE DEF Jump
    <3> QED
      BY <1>2, <3>1
  <2>3. CASE ~(p > n) /\ ~At(p)
    <3>1. Jump(p) = p + 1
      BY <2>3
    <3> HIDE DEF Jump
    <3> QED
      BY <1>2, <2>3, <3>1
  <2> QED
    BY <2>1, <2>2, <2>3
<1>4. ASSUME NEW p \in 1..(n + 1), NEW after \in Clean PROVE Then(p, after) \in Clean
  <2>1. CASE p > n
    <3>1. << >> \in Clean
      BY DEF Clean, Text
    <3> QED
      BY <2>1, <3>1
  <2>2. CASE ~(p > n) /\ At(p)
    BY <2>2, CleanJoins
  <2>3. CASE ~(p > n) /\ ~At(p)
    <3>1. p \in 1..n
      BY <1>2, <2>3
    <3>2. <<string[p]>> \in Clean
      <4>1. string[p] \in Characters /\ string[p] # Z!NUL
        BY <1>2, <3>1
      <4>2. PICK c : c = string[p]
        OBVIOUS
      <4>3. <<c>> \in Seq(Characters) /\ DOMAIN <<c>> = 1..1 /\ <<c>>[1] = c
        BY <4>1, <4>2
      <4>4. \A j \in DOMAIN <<c>> : <<c>>[j] # Z!NUL
        BY <4>1, <4>2, <4>3
      <4> QED
        BY <4>2, <4>3, <4>4 DEF Clean, Text
    <3> QED
      BY <2>3, <3>2, CleanJoins
  <2> QED
    BY <2>1, <2>2, <2>3
<1> HIDE DEF Jump, Then, At
<1>5. Round \in [1..(n + 1) -> [Clean -> Clean]]
  BY <1>4
<1>6. /\ jump \in [1..(n + 1) -> 1..(n + 1 + 1)] /\ \A p \in 1..(n + 1) : jump[p] > p
      /\ \A p \in 1..(n + 1) : jump[p] = Jump(p)
  BY <1>3
<1>7. PICK f : Follows(f, 1, n + 1, Clean, with, jump, Round)
  <2>1. n + 1 \in Nat
    BY <1>2
  <2> HIDE DEF Round, jump
  <2> QED
    BY <1>5, <1>6, <2>1, Jumps
<1>8. f \in [1..(n + 1 + 1) -> Clean] /\ \A p \in 1..(n + 1) : f[p] = Round[p][f[jump[p]]]
  BY <1>7 DEF Follows
<1> HIDE DEF jump
<1>9. ASSUME NEW p \in 1..(n + 1) PROVE f[p] \in Clean /\ f[p] = Then(p, f[Jump(p)])
  <2>1. p \in 1..(n + 1 + 1)
    BY <1>2
  <2>2. f[jump[p]] \in Clean
    BY <1>6, <1>8
  <2>3. Round[p][f[jump[p]]] = Then(p, f[jump[p]])
    BY <2>2
  <2> HIDE DEF Round
  <2> QED
    BY <1>6, <1>8, <2>1, <2>3
<1> HIDE DEF Round
<1> DEFINE Step(g, p) == IF p > n THEN << >> ELSE IF At(p) THEN with \o g[p + l]
                         ELSE <<string[p]>> \o g[p + 1]
           rest == CHOOSE g : g = [p \in 1..(n + 1) |-> Step(g, p)]
           h == [p \in 1..(n + 1) |-> f[p]]
<1>10. Z!Replaced(string, str, with) = rest[1]
  BY <1>1 DEF Z!Replaced, At
\* A step depends on the later characters only.
<1>11. ASSUME NEW p \in 1..(n + 1), NEW g, NEW e, \A q \in (p + 1)..(n + 1) : g[q] = e[q]
       PROVE  Step(g, p) = Step(e, p)
  <2>1. CASE p > n
    BY <2>1
  <2>2. CASE ~(p > n)
    <3>1. p + 1 \in (p + 1)..(n + 1)
      BY <1>2, <2>2
    <3>2. At(p) => p + l \in (p + 1)..(n + 1)
      BY <1>2, <2>2 DEF At
    <3> QED
      BY <1>11, <2>2, <3>1, <3>2
  <2> QED
    BY <2>1, <2>2
<1>12. ASSUME NEW p \in 1..(n + 1) PROVE h[p] \in Clean /\ h[p] = Step(h, p)
  <2>1. h[p] = Then(p, f[Jump(p)]) /\ h[p] \in Clean
    BY <1>9
  <2>2. CASE p > n
    BY <2>1, <2>2 DEF Then
  <2>3. CASE ~(p > n)
    <3>1. Jump(p) \in 1..(n + 1)
      BY <1>2, <1>3, <2>3
    <3>2. h[Jump(p)] = f[Jump(p)]
      BY <3>1
    <3> HIDE DEF h
    <3> QED
      BY <2>1, <2>3, <3>2 DEF Then, Jump
  <2> QED
    BY <2>1, <2>2, <2>3
<1>13. h = [p \in 1..(n + 1) |-> h[p]]
  OBVIOUS
<1> HIDE DEF h
<1>14. rest = [p \in 1..(n + 1) |-> Step(rest, p)]
  <2>1. h = [p \in 1..(n + 1) |-> Step(h, p)]
    <3> HIDE DEF Step
    <3> QED
      BY <1>12, <1>13
  <2> HIDE DEF Step
  <2> QED
    BY <2>1
<1>15. PICK g : g = rest
  OBVIOUS
<1>16. \A p \in 1..(n + 1) : g[p] = Step(g, p)
  <2> HIDE DEF Step, rest
  <2> QED
    BY <1>14, <1>15
<1> HIDE DEF rest
<1> DEFINE P == {p \in 1..(n + 1) : g[p] = h[p]}
<1>17. ASSUME NEW p \in 1..(n + 1), \A q \in (p + 1)..(n + 1) : q \in P PROVE p \in P
  <2>1. \A q \in (p + 1)..(n + 1) : g[q] = h[q]
    BY <1>17
  <2>2. Step(g, p) = Step(h, p)
    <3> HIDE DEF Step
    <3> QED
      BY <1>11, <2>1
  <2> HIDE DEF Step
  <2> QED
    BY <1>12, <1>16, <2>2
<1>18. 1..(n + 1) \subseteq P
  <2>1. P \in SUBSET Nat /\ n + 1 \in Nat
    BY <1>2
  <2> HIDE DEF P
  <2> QED
    BY <1>17, <2>1, DownFrom
<1>19. \A p \in 1..(n + 1) : g[p] \in Clean /\ g[p] = Step(g, p)
  <2>1. \A p \in 1..(n + 1) : g[p] = h[p]
    BY <1>18
  <2> HIDE DEF Step
  <2> QED
    BY <1>12, <1>16, <2>1
<1> HIDE DEF P
<1>20. Scan(g, string, str, with)
  BY <1>1, <1>19 DEF Scan, Occurs, At
<1> QED
  BY <1>10, <1>15, <1>20

\* str does not begin from p on, up to q.
NoneIn(string, str, p, q) == \A j \in p..(q - 1) : ~Occurs(string, str, j)

\* Where str does not begin, the scan takes the characters as they are.
StretchFits(r, string, n, str, with, p, q) ==
    /\ string \in Clean /\ n = Len(string) /\ Scan(r, string, str, with)
    /\ q \in 1..(n + 1) /\ p \in 1..q /\ NoneIn(string, str, p, q)
StretchIs(r, string, p, q) == r[p] = SubSeq(string, p, q - 1) \o r[q]
LEMMA Stretch ==
    ASSUME NEW string, NEW n, NEW str, NEW with, NEW r, NEW q, NEW p,
           StretchFits(r, string, n, str, with, p, q)
    PROVE  StretchIs(r, string, p, q)
<1>0. /\ string \in Clean /\ n = Len(string) /\ Scan(r, string, str, with)
      /\ q \in 1..(n + 1) /\ p \in 1..q /\ NoneIn(string, str, p, q)
  BY DEF StretchFits
<1>1. n \in Nat /\ string \in Text
  BY <1>0, CleanIs, CleanIsText
<1>2. \A j \in 1..(n + 1) : r[j] \in Text
  BY <1>0, CleanIsText DEF Scan
<1> DEFINE P == {d \in 0..(q - p) : r[q - d] = SubSeq(string, q - d, q - 1) \o r[q]}
<1>3. 0 \in P
  <2>1. q - 0 = q /\ q - 1 < q /\ q \in Int /\ q - 1 \in Int /\ 0 \in 0..(q - p)
    BY <1>0, <1>1
  <2>2. SubSeq(string, q, q - 1) = << >>
    BY <2>1, SubSeqEmpty
  <2>3. << >> \o r[q] = r[q]
    BY <1>2, ConcatEmptySeq DEF Text
  <2> QED
    BY <2>1, <2>2, <2>3
<1>4. ASSUME NEW d \in 0..(q - p), d \in P, d < q - p PROVE d + 1 \in P
  <2>1. PICK j : j = q - (d + 1)
    OBVIOUS
  <2>2. /\ j \in p..(q - 1) /\ j + 1 = q - d /\ j \in 1..n /\ j \in 1..(n + 1) /\ q - 1 \in j..n
        /\ d + 1 \in 0..(q - p) /\ ~(j > n)
    BY <1>0, <1>1, <1>4, <2>1
  <2>3. r[j] = <<string[j]>> \o r[j + 1]
    <3>1. ~Occurs(string, str, j)
      BY <1>0, <2>2 DEF NoneIn
    <3> QED
      BY <1>0, <2>2, <3>1 DEF Scan
  <2>4. r[j + 1] = SubSeq(string, j + 1, q - 1) \o r[q]
    BY <1>4, <2>2
  <2>5. SubSeq(string, j, q - 1) = <<string[j]>> \o SubSeq(string, j + 1, q - 1)
    BY <1>0, <1>1, <2>2, SubSeqRecursiveFirst DEF Text
  <2>6. PICK a, b : a = <<string[j]>> /\ b = SubSeq(string, j + 1, q - 1)
    OBVIOUS
  <2>7. a \in Seq(Characters) /\ b \in Seq(Characters) /\ r[q] \in Seq(Characters)
    <3>1. string[j] \in Characters
      BY <1>0, <2>2, CleanIs
    <3>2. q - 1 \in 0..n /\ j + 1 \in 1..(n + 1) /\ j + 1 <= (q - 1) + 1
      BY <1>0, <1>1, <2>2
    <3>3. b \in Clean
      BY <1>0, <2>6, <3>2, PieceIsClean
    <3>4. r[q] \in Text
      BY <1>0, <1>2
    <3>5. a \in Seq(Characters)
      BY <2>6, <3>1
    <3>6. b \in Text
      BY <3>3, CleanIsText
    <3> QED
      BY <3>4, <3>5, <3>6 DEF Text
  <2>8. a \o (b \o r[q]) = (a \o b) \o r[q]
    <3>1. PICK c : c = r[q]
      OBVIOUS
    <3>2. c \in Seq(Characters)
      BY <2>7, <3>1
    <3>3. (a \o b) \o c = a \o (b \o c)
      BY ONLY <2>7, <3>2, ConcatAssociative
    <3> QED
      BY <3>1, <3>3
  <2>9. r[j] = SubSeq(string, j, q - 1) \o r[q]
    BY <2>3, <2>4, <2>5, <2>6, <2>8
  <2> QED
    BY <2>1, <2>2, <2>9
<1>5. q - p \in P
  <2>1. P \in SUBSET Nat /\ q - p \in Nat
    BY <1>0, <1>1
  <2>2. 0..(q - p) \subseteq P
    <3> HIDE DEF P
    <3> QED
      BY <1>3, <1>4, <2>1, UpTo
  <2> HIDE DEF P
  <2> QED
    BY <2>1, <2>2
<1>6. q - (q - p) = p
  BY <1>0, <1>1
<1> QED
  BY <1>5, <1>6 DEF StretchIs

\* From one match to the next: what the scan gives there.
ToMatch(r, string, str, with, p) ==
    IF Z!Matches(string, str, p) = {} THEN r[p] = SubSeq(string, p, Len(string))
    ELSE LET match == Z!Min(Z!Matches(string, str, p))
         IN  r[p] = SubSeq(string, p, match - 1) \o with \o r[match + Len(str)]

LEMMA ScanGoesToMatch ==
    ASSUME NEW string \in Clean, NEW n, n = Len(string), NEW str \in Clean, Len(str) > 0,
           NEW with \in Clean, NEW r, Scan(r, string, str, with), NEW p \in 1..(n + 1)
    PROVE  ToMatch(r, string, str, with, p)
<1>1. PICK l : l = Len(str)
  OBVIOUS
<1>2. n \in Nat /\ l \in Nat /\ l > 0 /\ string \in Text
  BY <1>1, CleanIs, CleanIsText
<1>3. CASE Z!Matches(string, str, p) = {}
  <2>1. \A q \in p..n : ~Occurs(string, str, q)
    BY <1>1, <1>2, <1>3, MatchesAre
  <2>2. n + 1 \in 1..(n + 1) /\ p \in 1..(n + 1) /\ (n + 1) - 1 = n /\ n + 1 > n
    BY <1>2
  <2>3. r[p] = SubSeq(string, p, n) \o r[n + 1]
    <3>1. NoneIn(string, str, p, n + 1)
      BY <2>1, <2>2 DEF NoneIn
    <3>2. PICK q : q = n + 1
      OBVIOUS
    <3>3. StretchFits(r, string, n, str, with, p, q)
      BY <2>2, <3>1, <3>2 DEF StretchFits
    <3>4. StretchIs(r, string, p, q)
      BY ONLY <3>3, Stretch
    <3>5. q - 1 = n
      BY <2>2, <3>2
    <3> QED
      BY <3>2, <3>4, <3>5 DEF StretchIs
  <2>4. r[n + 1] = << >>
    BY <2>2 DEF Scan
  <2>5. SubSeq(string, p, n) \in Text
    <3>1. n \in 0..n /\ p <= n + 1
      BY <1>2
    <3> QED
      BY <3>1, PieceIsClean, CleanIsText
  <2>6. SubSeq(string, p, n) \o << >> = SubSeq(string, p, n)
    BY <2>5, ConcatEmptySeq DEF Text
  <2> QED
    BY <1>3, <2>3, <2>4, <2>6 DEF ToMatch
<1>4. CASE Z!Matches(string, str, p) # {}
  <2>1. PICK q : q = Z!Min(Z!Matches(string, str, p))
    OBVIOUS
  <2>2. /\ q \in p..n /\ q + l \in (p + 1)..(n + 1) /\ Occurs(string, str, q)
        /\ NoneIn(string, str, p, q)
    BY <1>1, <1>2, <1>4, <2>1, MatchesAre DEF NoneIn
  <2>3. q \in 1..(n + 1) /\ p \in 1..q /\ ~(q > n) /\ q + l \in 1..(n + 1)
    BY <1>2, <2>2
  <2>4. r[p] = SubSeq(string, p, q - 1) \o r[q]
    <3>1. StretchFits(r, string, n, str, with, p, q)
      BY <2>2, <2>3 DEF StretchFits
    <3>2. StretchIs(r, string, p, q)
      BY ONLY <3>1, Stretch
    <3> QED
      BY <3>2 DEF StretchIs
  <2>5. r[q] = with \o r[q + l]
    BY <1>1, <2>2, <2>3 DEF Scan
  <2>6. PICK a, b : a = SubSeq(string, p, q - 1) /\ b = r[q + l]
    OBVIOUS
  <2>7. a \in Seq(Characters) /\ with \in Seq(Characters) /\ b \in Seq(Characters)
    <3>1. q - 1 \in 0..n /\ p <= (q - 1) + 1
      BY <1>2, <2>2
    <3>2. a \in Clean
      BY <2>6, <3>1, PieceIsClean
    <3>3. b \in Clean
      BY <2>3, <2>6 DEF Scan
    <3> QED
      BY <3>2, <3>3, CleanIsText DEF Text
  <2>8. a \o (with \o b) = (a \o with) \o b
    BY ONLY <2>7, ConcatAssociative
  <2>9. r[p] = a \o with \o b
    BY <2>4, <2>5, <2>6, <2>8
  <2> QED
    BY <1>1, <1>4, <2>1, <2>6, <2>9 DEF ToMatch
<1> QED
  BY <1>3, <1>4

Regrouped(w, a, b) == w \o ((a \o w) \o b) = (w \o a) \o (w \o b)
LEMMA Regroup ==
    ASSUME NEW T, NEW a \in Seq(T), NEW b \in Seq(T), NEW w \in Seq(T)
    PROVE  Regrouped(w, a, b)
<1>1. PICK aw, wb, wa : aw = a \o w /\ wb = w \o b /\ wa = w \o a
  OBVIOUS
<1>2. aw \in Seq(T) /\ wb \in Seq(T) /\ wa \in Seq(T)
  BY <1>1, ConcatProperties
<1>3. aw \o b = a \o wb
  <2>1. (a \o w) \o b = a \o (w \o b)
    BY ConcatAssociative
  <2> QED
    BY <1>1, <2>1
<1>4. wa \o wb = w \o (a \o wb)
  <2>1. (w \o a) \o wb = w \o (a \o wb)
    BY <1>2, ConcatAssociative
  <2> QED
    BY <1>1, <2>1
<1> QED
  BY <1>1, <1>3, <1>4 DEF Regrouped

\* str_append builds what the scan gives, and without a match nothing changes.
LEMMA SubstitutedIs ==
    ASSUME NEW arg \in Clean, NEW str \in Clean, Len(str) > 0, NEW with \in Clean
    PROVE  /\ Z!Replaced(arg, str, with) \in Clean
           /\ IF Z!Matches(arg, str, 1) = {} THEN Z!Replaced(arg, str, with) = arg
              ELSE Z!Substituted(arg, str, with) = Z!Replaced(arg, str, with)
<1>1. PICK n, l : n = Len(arg) /\ l = Len(str)
  OBVIOUS
<1>2. n \in Nat /\ l \in Nat /\ l > 0 /\ 1 \in 1..(n + 1)
  BY <1>1, CleanIs
<1>3. PICK r : Scan(r, arg, str, with) /\ Z!Replaced(arg, str, with) = r[1]
  BY ReplacedIsScan
<1>4. \A p \in 1..(n + 1) : ToMatch(r, arg, str, with, p) /\ r[p] \in Clean
  <2>1. \A p \in 1..(n + 1) : ToMatch(r, arg, str, with, p)
    BY <1>1, <1>3, ScanGoesToMatch
  <2> QED
    BY <1>1, <1>3, <2>1 DEF Scan
<1>5. CASE Z!Matches(arg, str, 1) = {}
  <2>1. r[1] = SubSeq(arg, 1, n)
    BY <1>1, <1>2, <1>4, <1>5 DEF ToMatch
  <2>2. arg \in Seq(Characters)
    BY CleanIs
  <2>3. r[1] = arg
    BY <1>1, <2>1, <2>2, SubSeqFull
  <2> QED
    BY <1>2, <1>3, <1>4, <1>5, <2>3
<1>6. CASE Z!Matches(arg, str, 1) # {}
  <2> DEFINE M(p) == Z!Matches(arg, str, p)
             Step(g, p) == IF M(p) = {} THEN with \o SubSeq(arg, p, n)
                           ELSE with \o SubSeq(arg, p, Z!Min(M(p)) - 1) \o g[Z!Min(M(p)) + l]
             appended == CHOOSE g : g = [p \in 1..(n + 1) |-> Step(g, p)]
             h == [p \in 1..(n + 1) |-> with \o r[p]]
  <2>1. Z!Substituted(arg, str, with)
           = SubSeq(arg, 1, Z!Min(M(1)) - 1) \o appended[Z!Min(M(1)) + l]
    BY <1>1 DEF Z!Substituted
  <2>2. \A p \in 1..(n + 1) : M(p) # {} =>
           Z!Min(M(p)) \in p..n /\ Z!Min(M(p)) + l \in (p + 1)..(n + 1)
    BY <1>1, <1>2, MatchesAre
  <2> HIDE DEF M
  <2>3. ASSUME NEW p \in 1..(n + 1), NEW g, NEW e, \A q \in (p + 1)..(n + 1) : g[q] = e[q]
        PROVE  Step(g, p) = Step(e, p)
    BY <2>2, <2>3
  <2>4. ASSUME NEW p \in 1..(n + 1) PROVE h[p] = Step(h, p)
    <3>1. h[p] = with \o r[p]
      OBVIOUS
    <3>2. CASE M(p) = {}
      <4>1. r[p] = SubSeq(arg, p, n)
        BY <1>1, <1>4, <3>2 DEF ToMatch, M
      <4> QED
        BY <3>1, <3>2, <4>1
    <3>3. CASE M(p) # {}
      <4>1. PICK q, m : q = Z!Min(M(p)) - 1 /\ m = Z!Min(M(p)) + l
        OBVIOUS
      <4>2. m \in 1..(n + 1) /\ q \in 0..n /\ p <= q + 1
        <5>1. Z!Min(M(p)) \in p..n /\ m \in (p + 1)..(n + 1)
          BY <2>2, <3>3, <4>1
        <5> QED
          BY <1>2, <4>1, <5>1
      <4>3. h[m] = with \o r[m]
        BY <4>2
      <4>4. r[p] = SubSeq(arg, p, q) \o with \o r[m]
        BY <1>1, <1>4, <3>3, <4>1 DEF ToMatch, M
      <4>5. PICK a, b : a = SubSeq(arg, p, q) /\ b = r[m]
        OBVIOUS
      <4>6. a \in Seq(Characters) /\ with \in Seq(Characters) /\ b \in Seq(Characters)
        <5>1. a \in Clean
          BY <1>1, <4>2, <4>5, PieceIsClean
        <5>2. b \in Clean
          BY <1>4, <4>2, <4>5
        <5> QED
          BY <5>1, <5>2, CleanIsText DEF Text
      <4>7. PICK w : w = with
        OBVIOUS
      <4>8. w \o ((a \o w) \o b) = (w \o a) \o (w \o b)
        <5>1. w \in Seq(Characters)
          BY <4>6, <4>7
        <5>2. Regrouped(w, a, b)
          BY ONLY <4>6, <5>1, Regroup
        <5> QED
          BY <5>2 DEF Regrouped
      <4>9. h[p] = with \o a \o h[m]
        <5> HIDE DEF h
        <5> QED
          BY <3>1, <4>3, <4>4, <4>5, <4>7, <4>8
      <4> HIDE DEF h
      <4> QED
        BY <3>3, <4>1, <4>5, <4>9
    <3> QED
      BY <3>2, <3>3
  <2>5. h = [p \in 1..(n + 1) |-> h[p]]
    OBVIOUS
  <2>6. \A p \in 1..(n + 1) : h[p] = with \o r[p]
    OBVIOUS
  <2> HIDE DEF h, Step
  <2>7. appended = [p \in 1..(n + 1) |-> Step(appended, p)]
    <3>1. h = [p \in 1..(n + 1) |-> Step(h, p)]
      BY <2>4, <2>5
    <3> QED
      BY <3>1
  <2>8. PICK g : g = appended
    OBVIOUS
  <2>9. \A p \in 1..(n + 1) : g[p] = Step(g, p)
    <3> HIDE DEF appended
    <3> QED
      BY <2>7, <2>8
  <2> HIDE DEF appended
  <2> DEFINE P == {p \in 1..(n + 1) : g[p] = h[p]}
  <2>10. ASSUME NEW p \in 1..(n + 1), \A q \in (p + 1)..(n + 1) : q \in P PROVE p \in P
    <3>1. \A q \in (p + 1)..(n + 1) : g[q] = h[q]
      BY <2>10
    <3>2. Step(g, p) = Step(h, p)
      BY <2>3, <3>1
    <3> QED
      BY <2>4, <2>9, <3>2
  <2>11. 1..(n + 1) \subseteq P
    <3>1. P \in SUBSET Nat /\ n + 1 \in Nat
      BY <1>2
    <3> HIDE DEF P
    <3> QED
      BY <2>10, <3>1, DownFrom
  <2>12. PICK q, m : q = Z!Min(M(1)) - 1 /\ m = Z!Min(M(1)) + l
    OBVIOUS
  <2>13. m \in 1..(n + 1) /\ q \in 0..n /\ 1 <= q + 1
    <3>1. Z!Min(M(1)) \in 1..n /\ m \in (1 + 1)..(n + 1)
      BY <1>2, <1>6, <2>2, <2>12 DEF M
    <3> QED
      BY <1>2, <2>12, <3>1
  <2>14. g[m] = with \o r[m]
    BY <2>6, <2>11, <2>13
  <2>15. r[1] = SubSeq(arg, 1, q) \o with \o r[m]
    BY <1>1, <1>2, <1>4, <1>6, <2>12 DEF ToMatch, M
  <2>16. PICK a, b : a = SubSeq(arg, 1, q) /\ b = r[m]
    OBVIOUS
  <2>17. a \in Seq(Characters) /\ with \in Seq(Characters) /\ b \in Seq(Characters)
    <3>1. a \in Clean
      BY <1>1, <1>2, <2>13, <2>16, PieceIsClean
    <3>2. b \in Clean
      BY <1>4, <2>13, <2>16
    <3> QED
      BY <3>1, <3>2, CleanIsText DEF Text
  <2>18. (a \o with) \o b = a \o (with \o b)
    BY ONLY <2>17, ConcatAssociative
  <2>19. Z!Substituted(arg, str, with) = r[1]
    BY <2>1, <2>8, <2>12, <2>14, <2>15, <2>16, <2>18
  <2> QED
    BY <1>2, <1>3, <1>4, <1>6, <2>19
<1> QED
  BY <1>5, <1>6

--------------------------------------------------------------------------------
(* Argz: every call keeps the block that of the strings.                   *)

\* The block is that of the strings, unless it is lost.
VectorInv ==
    /\ entries \in Seq(Clean)
    /\ ~astray => argz = Z!Flat(entries) /\ argz_len = Len(argz)

LEMMA BecomesKeeps ==
    ASSUME NEW strings \in Seq(Clean), NEW bytes, bytes = Z!Flat(strings),
           NEW block_len, block_len = Len(bytes), Z!Becomes(bytes, block_len, strings)
    PROVE  VectorInv'
BY DEF Z!Becomes, VectorInv

LEMMA LongerBy ==
    ASSUME NEW bytes \in Text, NEW string \in Clean
    PROVE  /\ Len(bytes) \in Nat /\ Len(string) \in Nat
           /\ Len(bytes \o Z!Bytes(string)) = Len(bytes) + Len(string) + 1
<1>1. PICK more : more = Z!Bytes(string)
  OBVIOUS
<1>2. more \in Text /\ Len(more) = Len(string) + 1 /\ string \in Text
  BY <1>1, BytesAre, CleanIsText
<1>3. /\ Len(bytes) \in Nat /\ Len(string) \in Nat
      /\ Len(bytes \o more) = Len(bytes) + Len(more)
  BY <1>2, LenProperties, ConcatProperties DEF Text
<1> QED
  BY <1>1, <1>2, <1>3

\* What argz_create counts is the length of what it copies.
LEMMA TotalIs ==
    ASSUME NEW strings \in Seq(Clean)
    PROVE  Z!Total(strings) = Len(Z!Flat(strings))
<1>1. PICK n : n = Len(strings)
  OBVIOUS
<1>2. n \in Nat /\ \A k \in 1..n : strings[k] \in Clean
  BY <1>1, LenProperties, ElementOfSeq
<1>3. PICK f : Piled(f, strings, n) /\ Z!Flat(strings) = f[n]
  BY <1>1, FlatIs
<1> DEFINE Step(g, k) == IF k = 0 THEN 0 ELSE g[k - 1] + Len(strings[k]) + 1
           tlen == CHOOSE g : g = [k \in 0..n |-> Step(g, k)]
           h == [k \in 0..n |-> Len(f[k])]
<1>4. Z!Total(strings) = tlen[n]
  BY <1>1 DEF Z!Total
<1>5. ASSUME NEW k \in 0..n PROVE h[k] = Step(h, k)
  <2>1. CASE k = 0
    BY <1>2, <1>3, <2>1 DEF Piled
  <2>2. CASE k # 0
    <3>1. k \in 1..n /\ k - 1 \in 0..n
      BY <1>2, <2>2
    <3>2. f[k] = f[k - 1] \o Z!Bytes(strings[k]) /\ f[k - 1] \in Text /\ strings[k] \in Clean
      BY <1>2, <1>3, <3>1 DEF Piled
    <3>3. Len(f[k]) = Len(f[k - 1]) + Len(strings[k]) + 1
      BY <3>2, LongerBy
    <3>4. h[k] = Len(f[k]) /\ h[k - 1] = Len(f[k - 1])
      BY <3>1
    <3> HIDE DEF h
    <3> QED
      BY <2>2, <3>3, <3>4
  <2> QED
    BY <2>1, <2>2
<1>6. h = [k \in 0..n |-> h[k]] /\ \A k \in 0..n : h[k] = Len(f[k])
  OBVIOUS
<1> HIDE DEF h
<1>7. h = [k \in 0..n |-> Step(h, k)]
  <2> HIDE DEF Step
  <2> QED
    BY <1>5, <1>6
<1>8. tlen = [k \in 0..n |-> Step(tlen, k)]
  <2> HIDE DEF Step
  <2> QED
    BY <1>7
<1>9. PICK g : g = tlen
  OBVIOUS
<1>10. \A k \in 0..n : g[k] = Step(g, k)
  <2> HIDE DEF Step, tlen
  <2> QED
    BY <1>8, <1>9
<1> HIDE DEF tlen
<1> DEFINE P == {k \in 0..n : g[k] = h[k]}
<1>11. 0 \in P
  <2>1. 0 \in 0..n
    BY <1>2
  <2> QED
    BY <1>5, <1>10, <2>1
<1>12. ASSUME NEW k \in 0..n, k \in P, k < n PROVE k + 1 \in P
  <2>1. k + 1 \in 0..n /\ k + 1 # 0 /\ (k + 1) - 1 = k
    BY <1>2, <1>12
  <2>2. g[k + 1] = Step(g, k + 1) /\ h[k + 1] = Step(h, k + 1)
    <3> HIDE DEF Step
    <3> QED
      BY <1>5, <1>10, <2>1
  <2>3. Step(g, k + 1) = Step(h, k + 1)
    BY <1>12, <2>1
  <2> HIDE DEF Step
  <2> QED
    BY <2>1, <2>2, <2>3
<1>13. n \in P
  <2>1. P \in SUBSET Nat
    OBVIOUS
  <2>2. 0..n \subseteq P
    <3> HIDE DEF P
    <3> QED
      BY <1>2, <1>11, <1>12, <2>1, UpTo
  <2>3. n \in 0..n
    BY <1>2
  <2> HIDE DEF P
  <2> QED
    BY <2>2, <2>3
<1> QED
  BY <1>3, <1>4, <1>6, <1>9, <1>13

LEMMA FailsKeeps == VectorInv /\ Z!Fails => VectorInv'
BY DEF Z!Fails, Z!argzvars, VectorInv

\* The two parts of a block.
LEMMA TwoParts ==
    ASSUME NEW T, NEW a \in Seq(T), NEW b \in Seq(T), NEW whole, whole = a \o b
    PROVE  /\ SubSeq(whole, 1, Len(a)) = a
           /\ SubSeq(whole, Len(a) + 1, Len(whole)) = b
<1>1. PICK k, m : k = Len(a) /\ m = Len(b)
  OBVIOUS
<1>2. k \in Nat /\ m \in Nat
  BY <1>1, LenProperties
<1>3. Len(whole) = k + m
  BY <1>1, ConcatProperties
<1>4. SubSeq(whole, 1, k) = a
  <2>1. CASE k = 0
    <3>1. a = << >>
      BY <1>1, <2>1, EmptySeq
    <3>2. SubSeq(whole, 1, 0) = << >>
      BY SubSeqEmpty
    <3> QED
      BY <2>1, <3>1, <3>2
  <2>2. CASE k # 0
    <3>1. 1 \in 1..Len(a) /\ k \in 1..Len(a)
      BY <1>1, <1>2, <2>2
    <3>2. SubSeq(a \o b, 1, k) = SubSeq(a, 1, k)
      BY <3>1, SubSeqOfConcat1
    <3> QED
      BY <1>1, <3>2, SubSeqFull
  <2> QED
    BY <2>1, <2>2
<1>5. SubSeq(whole, k + 1, k + m) = b
  <2>1. CASE m = 0
    <3>1. b = << >>
      BY <1>1, <2>1, EmptySeq
    <3>2. k + 1 \in Int /\ k + m \in Int /\ k + m < k + 1
      BY <1>2, <2>1
    <3>3. SubSeq(whole, k + 1, k + m) = << >>
      BY <3>2, SubSeqEmpty
    <3> QED
      BY <3>1, <3>3
  <2>2. CASE m # 0
    <3>1. k + 1 \in (Len(a) + 1)..(Len(a) + Len(b)) /\ k + m \in (Len(a) + 1)..(Len(a) + Len(b))
      BY <1>1, <1>2, <2>2
    <3>2. SubSeq(a \o b, k + 1, k + m) = SubSeq(b, (k + 1) - Len(a), (k + m) - Len(a))
      BY <3>1, SubSeqOfConcat2
    <3>3. (k + 1) - Len(a) = 1 /\ (k + m) - Len(a) = Len(b)
      BY <1>1, <1>2
    <3> QED
      BY <3>2, <3>3, SubSeqFull
  <2> QED
    BY <2>1, <2>2
<1> QED
  BY <1>1, <1>3, <1>4, <1>5

LEMMA VectorBegins == Z!ArgzInit => VectorInv
<1>1. << >> \in Seq(Clean) /\ Len(<< >>) = 0
  BY EmptySeq
<1> QED
  BY <1>1, FlatEmpty DEF Z!ArgzInit, VectorInv

LEMMA ArgzCreateKeeps == VectorInv /\ Z!ArgzCreate => VectorInv'
<1> SUFFICES ASSUME VectorInv, Z!ArgzCreate PROVE VectorInv'
  OBVIOUS
<1>0. PICK n \in 0..MaxArgc : \E strings \in [1..n -> Strings] :
         Z!Becomes(Z!Flat(strings), Z!Total(strings), strings) \/ Z!Fails
  BY DEF Z!ArgzCreate
<1>1. PICK strings \in [1..n -> Strings] :
         Z!Becomes(Z!Flat(strings), Z!Total(strings), strings) \/ Z!Fails
  BY <1>0
<1>2. strings \in Seq(Clean)
  <2>1. \A k \in 1..n : strings[k] \in Clean
    BY StringsAreClean
  <2>2. MaxArgc \in Nat
    BY ContainerAssumption DEF Z!StringAssumption
  <2>3. n \in Nat /\ strings \in [1..n -> Clean]
    BY <2>1, <2>2
  <2> QED
    BY <2>3
<1>3. Z!Total(strings) = Len(Z!Flat(strings))
  BY <1>2, TotalIs
<1> QED
  BY <1>1, <1>2, <1>3, BecomesKeeps, FailsKeeps

LEMMA ArgzCreateSepKeeps == VectorInv /\ Z!ArgzCreateSep => VectorInv'
<1> SUFFICES ASSUME VectorInv, Z!ArgzCreateSep PROVE VectorInv'
  OBVIOUS
<1>1. PICK string \in Strings :
         \/ Z!Becomes(<< >>, 0, << >>)
         \/ Z!Becomes(Z!Cut(<< >>, string).bytes, Z!Cut(<< >>, string).nlen, Z!Fields(string))
         \/ Z!Fails
  BY DEF Z!ArgzCreateSep
<1>2. CASE Z!Becomes(<< >>, 0, << >>)
  <2>1. << >> \in Seq(Clean) /\ Len(<< >>) = 0
    BY EmptySeq
  <2> QED
    BY <1>2, <2>1, FlatEmpty, BecomesKeeps
<1>3. CASE Z!Becomes(Z!Cut(<< >>, string).bytes, Z!Cut(<< >>, string).nlen, Z!Fields(string))
  <2>1. << >> \in Text /\ ReadyToCut(<< >>) /\ string \in Clean
    BY EmptySeq, StringsAreClean DEF Text, ReadyToCut
  <2>2. PICK cut, nlen : cut = Z!Cut(<< >>, string).bytes /\ nlen = Z!Cut(<< >>, string).nlen
    OBVIOUS
  <2>3. /\ cut = << >> \o Z!Flat(Z!Fields(string)) /\ Z!Fields(string) \in Seq(Clean)
        /\ nlen \in Int /\ Len(<< >>) + nlen = Len(cut)
    BY <2>1, <2>2, CutIs
  <2>4. cut = Z!Flat(Z!Fields(string))
    BY <2>3, FlatIsText, ConcatEmptySeq DEF Text
  <2>5. nlen = Len(cut)
    <3>1. Len(<< >>) = 0
      OBVIOUS
    <3> QED
      BY <2>3, <3>1
  <2> QED
    BY <1>3, <2>2, <2>3, <2>4, <2>5, BecomesKeeps
<1> QED
  BY <1>1, <1>2, <1>3, FailsKeeps

LEMMA ArgzAppendKeeps == VectorInv /\ Z!ArgzAppend => VectorInv'
<1> SUFFICES ASSUME VectorInv, Z!ArgzAppend PROVE VectorInv'
  OBVIOUS
<1>1. PICK string \in Strings :
         \/ Z!Becomes(argz \o Z!Bytes(string), argz_len + Len(string) + 1, Append(entries, string))
         \/ Z!Fails
  BY DEF Z!ArgzAppend
<1>2. /\ entries \in Seq(Clean) /\ string \in Clean /\ argz = Z!Flat(entries)
      /\ argz_len = Len(argz)
  BY StringsAreClean DEF VectorInv, Z!ArgzAppend
<1>3. Append(entries, string) \in Seq(Clean)
  BY <1>2, AppendProperties
<1>4. Z!Flat(Append(entries, string)) = argz \o Z!Bytes(string)
  BY <1>2, FlatAppend
<1>5. Len(argz \o Z!Bytes(string)) = argz_len + Len(string) + 1
  <2>1. argz \in Text
    BY <1>2, FlatIsText
  <2> QED
    BY <1>2, <2>1, LongerBy
<1> QED
  BY <1>1, <1>3, <1>4, <1>5, BecomesKeeps, FailsKeeps

LEMMA ArgzAddSepKeeps == VectorInv /\ Z!ArgzAddSep => VectorInv'
<1> SUFFICES ASSUME VectorInv, Z!ArgzAddSep PROVE VectorInv'
  OBVIOUS
<1>1. entries \in Seq(Clean) /\ argz = Z!Flat(entries) /\ argz_len = Len(argz) /\ ~astray
  BY DEF VectorInv, Z!ArgzAddSep
<1>2. argz \in Text
  BY <1>1, FlatIsText
<1>3. ReadyToCut(argz)
  BY <1>1, BlockEnds DEF ReadyToCut, Z!Last
<1>4. PICK string \in Strings :
         \/ Z!Becomes(Z!Cut(argz, string).bytes, argz_len + Z!Cut(argz, string).nlen,
                      entries \o Z!Fields(string))
         \/ argz' = << >> /\ astray' = (argz_len > 0) /\ UNCHANGED <<argz_len, entries>>
  BY DEF Z!ArgzAddSep
<1>5. CASE Z!Becomes(Z!Cut(argz, string).bytes, argz_len + Z!Cut(argz, string).nlen,
                     entries \o Z!Fields(string))
  <2>1. string \in Clean
    BY StringsAreClean
  <2>2. PICK cut, nlen : cut = Z!Cut(argz, string).bytes /\ nlen = Z!Cut(argz, string).nlen
    OBVIOUS
  <2>3. /\ cut = argz \o Z!Flat(Z!Fields(string)) /\ Z!Fields(string) \in Seq(Clean)
        /\ Len(argz) + nlen = Len(cut)
    BY <1>2, <1>3, <2>1, <2>2, CutIs
  <2>4. /\ entries \o Z!Fields(string) \in Seq(Clean)
        /\ Z!Flat(entries \o Z!Fields(string)) = Z!Flat(entries) \o Z!Flat(Z!Fields(string))
    BY <1>1, <2>3, FlatJoins, ConcatProperties
  <2>5. cut = Z!Flat(entries \o Z!Fields(string)) /\ argz_len + nlen = Len(cut)
    BY <1>1, <2>3, <2>4
  <2>6. Z!Becomes(cut, argz_len + nlen, entries \o Z!Fields(string))
    BY <1>5, <2>2
  <2> QED
    BY <2>4, <2>5, <2>6, BecomesKeeps
<1>6. CASE argz' = << >> /\ astray' = (argz_len > 0) /\ UNCHANGED <<argz_len, entries>>
  <2>1. ASSUME ~astray' PROVE argz = << >>
    <3>1. Len(argz) \in Nat /\ ~(argz_len > 0)
      BY <1>2, <1>6, <2>1, LenProperties DEF Text
    <3>2. Len(argz) = 0
      BY <1>1, <3>1
    <3> QED
      BY <1>2, <3>2, EmptySeq DEF Text
  <2>2. ~astray' => argz' = Z!Flat(entries') /\ argz_len' = Len(argz')
    BY <1>1, <1>6, <2>1
  <2> QED
    BY <1>1, <1>6, <2>2 DEF VectorInv
<1> QED
  BY <1>4, <1>5, <1>6

\* What the block of a vector looks like in a state.
LEMMA VectorLooks ==
    ASSUME VectorInv, ~astray, NEW n, n = Len(entries)
    PROVE  /\ entries \in Seq(Clean) /\ argz = Z!Flat(entries) /\ argz_len = Len(argz)
           /\ argz \in Text /\ argz_len \in Nat
           /\ n \in Nat /\ DOMAIN Z!Starts = 1..n /\ DOMAIN entries = 1..n
           /\ \A k \in 1..n : /\ Z!Starts[k] = Place(entries, k)
                              /\ Z!StrLen(argz, Z!Starts[k]) = Len(entries[k])
                              /\ Z!StringAt(Z!Starts[k]) = entries[k]
<1>1. entries \in Seq(Clean) /\ argz = Z!Flat(entries) /\ argz_len = Len(argz)
  BY DEF VectorInv
<1>2. argz \in Text /\ argz_len \in Nat
  BY <1>1, FlatIsText, LenProperties DEF Text
<1>3. PICK strings, bytes, starts : strings = entries /\ bytes = argz /\ starts = Z!Starts
  OBVIOUS
<1>4. starts = Z!Walk(bytes, Len(bytes))
  BY <1>1, <1>3 DEF Z!Starts
<1>5. /\ DOMAIN starts = 1..n /\ DOMAIN strings = 1..n /\ n \in Nat
      /\ \A k \in 1..n :
            /\ starts[k] = Place(strings, k)
            /\ Z!StrLen(bytes, starts[k]) = Len(strings[k])
            /\ SubSeq(bytes, starts[k], starts[k] + Z!StrLen(bytes, starts[k]) - 1) = strings[k]
  <2>1. strings \in Seq(Clean) /\ n = Len(strings) /\ bytes = Z!Flat(strings)
    BY <1>1, <1>3
  <2> QED
    BY ONLY <1>4, <2>1, StringsAreThere
<1>6. ASSUME NEW k \in 1..n
      PROVE  /\ Z!Starts[k] = Place(entries, k)
             /\ Z!StrLen(argz, Z!Starts[k]) = Len(entries[k])
             /\ Z!StringAt(Z!Starts[k]) = entries[k]
  BY <1>3, <1>5, Zenon DEF Z!StringAt
<1>7. DOMAIN Z!Starts = 1..n /\ DOMAIN entries = 1..n /\ n \in Nat
  BY <1>3, <1>5
<1> QED
  BY <1>1, <1>2, <1>6, <1>7

LEMMA ArgzDeleteKeeps == VectorInv /\ Z!ArgzDelete => VectorInv'
<1> SUFFICES ASSUME VectorInv, Z!ArgzDelete PROVE VectorInv'
  OBVIOUS
<1>1. ~astray
  BY DEF Z!ArgzDelete
<1>2. PICK n : n = Len(entries)
  OBVIOUS
<1>3. PICK k \in DOMAIN Z!Starts :
         Z!Becomes(SubSeq(argz, 1, Z!Starts[k] - 1)
                      \o SubSeq(argz, Z!Starts[k] + (Z!StrLen(argz, Z!Starts[k]) + 1), argz_len),
                   argz_len - (Z!StrLen(argz, Z!Starts[k]) + 1), Z!RemoveAt(entries, k))
  BY DEF Z!ArgzDelete
<1>4. k \in 1..n /\ n \in Nat
  BY <1>1, <1>2, VectorLooks
<1>5. PICK strings, bytes, start, l : /\ strings = entries /\ bytes = argz /\ start = Z!Starts[k]
                                      /\ l = Len(entries[k])
  OBVIOUS
<1>6. /\ strings \in Seq(Clean) /\ n = Len(strings) /\ bytes = Z!Flat(strings) /\ bytes \in Text
      /\ argz_len = Len(bytes) /\ start = Place(strings, k) /\ l = Len(strings[k])
      /\ Z!StrLen(argz, Z!Starts[k]) = l
  BY <1>1, <1>2, <1>4, <1>5, VectorLooks
<1>7. PICK first, string, others : /\ first = SubSeq(strings, 1, k - 1) /\ string = strings[k]
                                   /\ others = SubSeq(strings, k + 1, n)
  OBVIOUS
<1>8. PICK a, b, c : a = Z!Flat(first) /\ b = Z!Bytes(string) /\ c = Z!Flat(others)
  OBVIOUS
<1>9. /\ first \in Seq(Clean) /\ others \in Seq(Clean) /\ string \in Clean
      /\ bytes = a \o (b \o c) /\ start = Len(a) + 1
  BY <1>4, <1>6, <1>7, <1>8, Parts DEF Place
<1>10. a \in Text /\ b \in Text /\ c \in Text /\ Len(b) = l + 1 /\ Len(a) \in Nat /\ l \in Nat
  <2>1. a \in Text /\ b \in Text /\ c \in Text /\ string \in Text
    BY <1>8, <1>9, FlatIsText, BytesAre, CleanIsText
  <2>2. Len(b) = l + 1
    BY <1>6, <1>7, <1>8, <2>1, BytesAre
  <2>3. Len(a) \in Nat /\ l \in Nat
    BY <1>6, <1>7, <2>1, LenProperties DEF Text
  <2> QED
    BY <2>1, <2>2, <2>3
<1>11. SubSeq(bytes, 1, start - 1) = a
  <2>1. b \o c \in Text /\ start - 1 = Len(a)
    BY <1>9, <1>10, ConcatProperties DEF Text
  <2>2. SubSeq(bytes, 1, Len(a)) = a
    BY <1>9, <1>10, <2>1, TwoParts DEF Text
  <2> QED
    BY <2>1, <2>2
<1>12. SubSeq(bytes, start + (l + 1), Len(bytes)) = c
  <2>1. PICK ab : ab = a \o b
    OBVIOUS
  <2>2. ab \in Text /\ Len(ab) = Len(a) + (l + 1) /\ bytes = ab \o c
    <3>1. (a \o b) \o c = a \o (b \o c)
      BY <1>10, ConcatAssociative DEF Text
    <3>2. ab \in Text /\ Len(ab) = Len(a) + Len(b)
      BY <1>10, <2>1, ConcatProperties DEF Text
    <3> QED
      BY <1>9, <1>10, <2>1, <3>1, <3>2
  <2>3. SubSeq(bytes, Len(ab) + 1, Len(bytes)) = c
    BY <1>10, <2>2, TwoParts DEF Text
  <2>4. start + (l + 1) = Len(ab) + 1
    BY <1>9, <1>10, <2>2
  <2> QED
    BY <2>3, <2>4
<1>13. Z!RemoveAt(strings, k) = first \o others
  BY <1>6, <1>7 DEF Z!RemoveAt
<1>14. Z!Becomes(a \o c, argz_len - (l + 1), first \o others)
  BY <1>3, <1>5, <1>6, <1>11, <1>12, <1>13
<1>15. first \o others \in Seq(Clean) /\ Z!Flat(first \o others) = a \o c
  BY <1>8, <1>9, FlatJoins, ConcatProperties
<1>16. argz_len - (l + 1) = Len(a \o c)
  <2>1. /\ Len(a \o c) = Len(a) + Len(c) /\ Len(b \o c) = Len(b) + Len(c) /\ b \o c \in Text
        /\ Len(c) \in Nat
    BY <1>10, ConcatProperties, LenProperties DEF Text
  <2>2. Len(a \o (b \o c)) = Len(a) + Len(b \o c)
    BY <1>10, <2>1, ConcatProperties DEF Text
  <2>3. argz_len = Len(a) + ((l + 1) + Len(c))
    BY <1>6, <1>9, <1>10, <2>1, <2>2
  <2> QED
    BY <1>10, <2>1, <2>3
<1> QED
  BY <1>14, <1>15, <1>16, BecomesKeeps

\* In an entry, or at its NUL: between its place and the next.
LEMMA InWhichEntry ==
    ASSUME NEW strings \in Seq(Clean), NEW n, n = Len(strings), NEW bytes, bytes = Z!Flat(strings),
           NEW p \in 1..Len(bytes)
    PROVE  \E k \in 1..n : /\ Place(strings, k) <= p /\ p < Place(strings, k + 1)
                           /\ \A j \in 1..n : Place(strings, j) <= p <=> j <= k
<1>1. n \in Nat /\ Len(bytes) \in Nat
  BY FlatIsText, LenProperties DEF Text
<1>2. PICK places : places = [k \in 1..(n + 1) |-> Place(strings, k)]
  OBVIOUS
<1>3. ASSUME NEW k \in 1..n
      PROVE  places[k] \in Nat /\ places[k + 1] \in Nat /\ places[k] < places[k + 1]
  <2>1. k \in 1..(n + 1) /\ k + 1 \in 1..(n + 1)
    BY <1>1
  <2>2. PICK l, u, v : l = Len(strings[k]) /\ u = places[k] /\ v = places[k + 1]
    OBVIOUS
  <2>3. u = Place(strings, k) /\ v = Place(strings, k + 1)
    BY <1>2, <2>1, <2>2
  <2>4. StringIsAt(bytes, u, strings[k], v)
    BY <2>3, PlaceIs
  <2>5. l \in Nat /\ u \in 1..Len(bytes) /\ v = u + l + 1
    BY <2>2, <2>4 DEF StringIsAt
  <2>6. u \in Nat /\ v \in Nat /\ u < v
    BY <1>1, <2>5
  <2> QED
    BY <2>2, <2>6
<1>4. places[1] = 1 /\ places[n + 1] = Len(bytes) + 1
  BY <1>1, <1>2, PlacesBegin
\* Later entries have later places.
<1>5. ASSUME NEW j \in 1..n, NEW m \in j..n PROVE places[j] <= places[m] /\ places[j] < places[m + 1]
  <2>1. PICK d : d = m - j
    OBVIOUS
  <2>2. d \in Nat /\ m = j + d
    BY <1>1, <2>1
  <2> DEFINE P == {e \in 0..d : places[j] <= places[j + e]}
  <2>3. 0 \in P
    <3>1. j + 0 = j /\ places[j] \in Nat
      BY <1>1, <1>3
    <3> QED
      BY <2>2, <3>1
  <2>4. ASSUME NEW e \in 0..d, e \in P, e < d PROVE e + 1 \in P
    <3>1. j + e \in 1..n /\ j + (e + 1) = (j + e) + 1 /\ e + 1 \in 0..d
      BY <1>1, <2>2, <2>4
    <3>2. places[j + e] \in Nat /\ places[(j + e) + 1] \in Nat /\ places[j + e] < places[(j + e) + 1]
      BY <1>3, <3>1
    <3>3. places[j] <= places[j + e] /\ places[j] \in Nat
      BY <1>3, <2>4
    <3>4. places[j] <= places[(j + e) + 1]
      BY <3>2, <3>3
    <3>5. places[j] <= places[j + (e + 1)]
      BY <3>1, <3>4
    <3> QED
      BY <3>1, <3>5
  <2>5. d \in P
    <3>1. P \in SUBSET Nat
      OBVIOUS
    <3>2. 0..d \subseteq P
      <4> HIDE DEF P
      <4> QED
        BY <2>2, <2>3, <2>4, <3>1, UpTo
    <3> HIDE DEF P
    <3> QED
      BY <2>2, <3>2
  <2>6. places[j] <= places[m]
    BY <2>2, <2>5
  <2>7. m \in 1..n
    BY <1>1
  <2>8. places[m] \in Nat /\ places[m + 1] \in Nat /\ places[m] < places[m + 1] /\ places[j] \in Nat
    BY <1>3, <2>7
  <2> QED
    BY <2>6, <2>8
<1> DEFINE After == {m \in 1..n : p < places[m + 1]}
<1>6. n \in After
  <2>1. n # 0
    BY <1>4, <1>1
  <2> QED
    BY <1>1, <1>4, <2>1
<1>7. PICK k \in After : \A m \in After : k <= m
  <2>1. After \in SUBSET Nat
    OBVIOUS
  <2> HIDE DEF After
  <2> QED
    BY <1>6, <2>1, LeastOf
<1>8. k \in 1..n /\ p < places[k + 1]
  OBVIOUS
<1>9. places[k] <= p
  <2>1. CASE k = 1
    BY <1>4, <2>1
  <2>2. CASE k # 1
    <3>1. k - 1 \in 1..n /\ (k - 1) + 1 = k /\ ~(k <= k - 1)
      BY <1>1, <1>8, <2>2
    <3>2. k - 1 \notin After
      <4> HIDE DEF After
      <4> QED
        BY <1>7, <3>1
    <3>3. ~(p < places[k])
      BY <3>1, <3>2
    <3>4. places[k] \in Nat
      BY <1>3, <1>8
    <3> QED
      BY <3>3, <3>4
  <2> QED
    BY <2>1, <2>2
<1>10. ASSUME NEW j \in 1..n PROVE places[j] <= p <=> j <= k
  <2>1. places[j] \in Nat /\ places[k] \in Nat /\ places[k + 1] \in Nat
    BY <1>3, <1>8
  <2>2. CASE j <= k
    <3>1. k \in j..n
      BY <1>1, <1>8, <2>2
    <3>2. places[j] <= places[k]
      BY <1>5, <3>1
    <3> QED
      BY <1>9, <2>1, <2>2, <3>2
  <2>3. CASE ~(j <= k)
    <3>2. k + 1 \in 1..n /\ j \in (k + 1)..n
      BY <1>1, <1>8, <2>3
    <3>3. places[k + 1] <= places[j]
      BY <1>5, <3>2
    <3> QED
      BY <1>8, <2>1, <2>3, <3>3
  <2> QED
    BY <2>2, <2>3
<1>11. \A j \in 1..n : places[j] = Place(strings, j) /\ places[j + 1] = Place(strings, j + 1)
  <2>1. \A j \in 1..n : j \in 1..(n + 1) /\ j + 1 \in 1..(n + 1)
    BY <1>1
  <2> QED
    BY <1>2, <2>1
<1> QED
  BY <1>8, <1>9, <1>10, <1>11

\* Before goes back to the place of the entry.
LEMMA BeforeIs ==
    ASSUME VectorInv, ~astray, NEW n, n = Len(entries), NEW p \in 1..argz_len,
           NEW k \in 1..n, Place(entries, k) <= p, p < Place(entries, k + 1)
    PROVE  Z!Before(p) = Place(entries, k)
<1>1. /\ entries \in Seq(Clean) /\ argz = Z!Flat(entries) /\ argz_len = Len(argz)
      /\ n \in Nat /\ argz_len \in Nat
  BY VectorLooks
<1>2. PICK bytes, strings : bytes = argz /\ strings = entries
  OBVIOUS
<1>3. PICK l, u, v : l = Len(strings[k]) /\ u = Place(strings, k) /\ v = Place(strings, k + 1)
  OBVIOUS
<1>4. /\ l \in Nat /\ u \in 1..Len(bytes) /\ Len(bytes) \in Nat /\ v = u + l + 1
      /\ \A r \in u..(u + l - 1) : bytes[r] # Z!NUL
  <2>1. StringIsAt(bytes, u, strings[k], v)
    BY <1>1, <1>2, <1>3, PlaceIs
  <2> QED
    BY <1>3, <2>1 DEF StringIsAt
<1>5. p \in 1..Len(bytes) /\ u <= p /\ p < v
  BY <1>1, <1>2, <1>3
<1>6. u \in 1..p
  BY <1>4, <1>5
<1>7. u = 1 \/ bytes[u - 1] = Z!NUL
  <2>1. CASE k = 1
    BY <1>1, <1>2, <1>3, <2>1, PlacesBegin
  <2>2. CASE k # 1
    <3>1. PICK j : j = k - 1
      OBVIOUS
    <3>2. j \in 1..n /\ j + 1 = k
      BY <1>1, <2>2, <3>1
    <3>3. PICK s, t : s = Place(strings, j) /\ t = Len(strings[j])
      OBVIOUS
    <3>4. StringIsAt(bytes, s, strings[j], u)
      BY <1>1, <1>2, <1>3, <3>2, <3>3, PlaceIs
    <3>5. t \in Nat /\ s \in 1..Len(bytes) /\ u = s + t + 1 /\ bytes[s + t] = Z!NUL
      BY <3>3, <3>4 DEF StringIsAt
    <3>6. u - 1 = s + t
      BY <1>4, <3>5
    <3> QED
      BY <3>5, <3>6
  <2> QED
    BY <2>1, <2>2
<1>8. \A r \in u..(p - 1) : bytes[r] # Z!NUL
  <2>1. \A r \in u..(p - 1) : r \in u..(u + l - 1)
    BY <1>4, <1>5
  <2> QED
    BY <1>4, <2>1
<1> DEFINE Is(q) == /\ q = 1 \/ bytes[q - 1] = Z!NUL
                    /\ \A r \in q..(p - 1) : bytes[r] # Z!NUL
<1>9. Is(u)
  BY <1>7, <1>8
<1>10. ASSUME NEW q \in 1..p, Is(q) PROVE q = u
  <2>1. CASE q < u
    <3>1. u - 1 \in q..(p - 1) /\ u # 1
      BY <1>4, <1>5, <2>1
    <3> QED
      BY <1>7, <1>10, <3>1
  <2>2. CASE q > u
    <3>1. q - 1 \in u..(p - 1) /\ q # 1
      BY <1>4, <1>5, <2>2
    <3> QED
      BY <1>8, <1>10, <3>1
  <2> QED
    BY <1>4, <2>1, <2>2
<1>11. Z!Before(p) = CHOOSE q \in 1..p : Is(q)
  BY <1>2 DEF Z!Before
<1> HIDE DEF Is
<1>12. Z!Before(p) = u
  BY <1>6, <1>9, <1>10, <1>11
<1> QED
  BY <1>2, <1>3, <1>12

LEMMA InsertBeforeKeeps ==
    ASSUME VectorInv, ~astray, NEW p \in 1..argz_len, NEW string \in Strings,
           Z!InsertBefore(p, string)
    PROVE  VectorInv'
<1>1. ~astray
  OBVIOUS
<1>2. PICK n : n = Len(entries)
  OBVIOUS
<1>3. Z!Becomes(SubSeq(argz, 1, Z!Before(p) - 1) \o Z!Bytes(string)
                   \o SubSeq(argz, Z!Before(p), argz_len),
                argz_len + Len(string) + 1,
                Z!InsertAt(entries,
                           Z!Cardinality({k \in DOMAIN Z!Starts : Z!Starts[k] <= p}), string))
  BY DEF Z!InsertBefore
<1>4. PICK strings, bytes : strings = entries /\ bytes = argz
  OBVIOUS
<1>5. /\ strings \in Seq(Clean) /\ n = Len(strings) /\ bytes = Z!Flat(strings) /\ bytes \in Text
      /\ argz_len = Len(bytes) /\ n \in Nat
  BY <1>1, <1>2, <1>4, VectorLooks
<1>6. PICK k \in 1..n : /\ Place(strings, k) <= p /\ p < Place(strings, k + 1)
                        /\ \A j \in 1..n : Place(strings, j) <= p <=> j <= k
  <2>1. p \in 1..Len(bytes)
    BY <1>5
  <2> QED
    BY <1>5, <2>1, InWhichEntry
<1>7. Z!Before(p) = Place(strings, k)
  BY <1>1, <1>2, <1>4, <1>6, BeforeIs
<1>8. Z!Cardinality({j \in DOMAIN Z!Starts : Z!Starts[j] <= p}) = k
  <2>1. PICK starts : starts = Z!Starts
    OBVIOUS
  <2>2. DOMAIN starts = 1..n /\ \A j \in 1..n : starts[j] = Place(strings, j)
    BY <1>1, <1>2, <1>4, <2>1, VectorLooks
  <2>3. {j \in DOMAIN starts : starts[j] <= p} = 1..k
    <3>1. \A j \in 1..n : starts[j] <= p <=> j <= k
      BY <1>6, <2>2
    <3>2. \A j : j \in 1..k <=> j \in 1..n /\ j <= k
      BY <1>5
    <3> QED
      BY <2>2, <3>1, <3>2
  <2>4. Cardinality(1..k) = k
    <3>1. 1 \in Int /\ k \in Int
      OBVIOUS
    <3>2. Cardinality(1..k) = IF 1 > k THEN 0 ELSE k - 1 + 1
      BY <3>1, FS_Interval
    <3> QED
      BY <3>2
  <2>5. \A T : Z!Cardinality(T) = Cardinality(T)
    BY DEF Cardinality, Z!Cardinality
  <2> QED
    BY <2>1, <2>3, <2>4, <2>5
<1>9. PICK first, others : first = SubSeq(strings, 1, k - 1) /\ others = SubSeq(strings, k, n)
  OBVIOUS
<1>10. PICK a, c, s : a = Z!Flat(first) /\ c = Z!Flat(others) /\ s = Z!Bytes(string)
  OBVIOUS
<1>11. /\ first \in Seq(Clean) /\ others \in Seq(Clean) /\ bytes = a \o c
       /\ Place(strings, k) = Len(a) + 1
  <2>1. PICK j : j = k - 1
    OBVIOUS
  <2>2. j \in 0..n /\ j + 1 = k
    BY <1>5, <2>1
  <2>3. /\ SubSeq(strings, 1, j) \in Seq(Clean) /\ SubSeq(strings, j + 1, n) \in Seq(Clean)
        /\ Z!Flat(strings) = Z!Flat(SubSeq(strings, 1, j)) \o Z!Flat(SubSeq(strings, j + 1, n))
    BY <1>5, <2>2, Halves
  <2> QED
    BY <1>5, <1>9, <1>10, <2>1, <2>2, <2>3 DEF Place
<1>12. a \in Text /\ c \in Text /\ Len(a) \in Nat /\ string \in Clean /\ s \in Text
  BY <1>10, <1>11, FlatIsText, LenProperties, StringsAreClean, BytesAre, CleanIsText DEF Text
<1>13. SubSeq(bytes, 1, Z!Before(p) - 1) = a /\ SubSeq(bytes, Z!Before(p), Len(bytes)) = c
  <2>1. SubSeq(bytes, 1, Len(a)) = a /\ SubSeq(bytes, Len(a) + 1, Len(bytes)) = c
    BY <1>11, <1>12, TwoParts DEF Text
  <2>2. Z!Before(p) = Len(a) + 1 /\ Z!Before(p) - 1 = Len(a)
    BY <1>7, <1>11, <1>12
  <2> QED
    BY <2>1, <2>2
<1>14. Z!InsertAt(strings, k, string) = first \o <<string>> \o others
  BY <1>5, <1>9 DEF Z!InsertAt
<1>15. Z!Becomes(a \o s \o c, argz_len + Len(string) + 1, first \o <<string>> \o others)
  BY <1>3, <1>4, <1>5, <1>8, <1>10, <1>13, <1>14
<1>16. /\ first \o <<string>> \o others \in Seq(Clean)
       /\ Z!Flat(first \o <<string>> \o others) = a \o s \o c
  <2>1. <<string>> \in Seq(Clean) /\ Z!Flat(<<string>>) = s
    BY <1>10, <1>12, FlatOne
  <2>2. PICK more : more = first \o <<string>>
    OBVIOUS
  <2>3. more \in Seq(Clean) /\ Z!Flat(more) = a \o s
    BY <1>10, <1>11, <2>1, <2>2, FlatJoins, ConcatProperties
  <2>4. more \o others \in Seq(Clean) /\ Z!Flat(more \o others) = (a \o s) \o c
    BY <1>10, <1>11, <2>3, FlatJoins, ConcatProperties
  <2> QED
    BY <2>2, <2>4
<1>17. argz_len + Len(string) + 1 = Len(a \o s \o c)
  <2>1. Len(a \o c) = Len(a) + Len(c) /\ Len(c) \in Nat
    BY <1>12, ConcatProperties, LenProperties DEF Text
  <2>2. Len(a \o s) = Len(a) + Len(string) + 1 /\ Len(string) \in Nat
    BY <1>10, <1>12, LongerBy
  <2>3. a \o s \in Text
    BY <1>12, ConcatProperties DEF Text
  <2>4. Len((a \o s) \o c) = Len(a \o s) + Len(c)
    BY <1>12, <2>3, ConcatProperties DEF Text
  <2>5. argz_len = Len(a \o c)
    BY <1>5, <1>11
  <2> QED
    BY <1>12, <2>1, <2>2, <2>4, <2>5
<1> QED
  BY <1>15, <1>16, <1>17, BecomesKeeps

\* The vector is whole only when nothing was taken along from ahead of the block.
LEMMA InsertAheadKeeps ==
    ASSUME VectorInv, ~astray, NEW p \in 1..argz_len, NEW string \in Strings,
           Z!InsertAhead(p, string)
    PROVE  VectorInv'
<1> DEFINE Shifted(ahead) == Z!Bytes(string) \o ahead \o argz
<1>0. PICK ahead \in Ahead :
         /\ Z!Becomes(SubSeq(Shifted(ahead), Len(ahead) + 1, Len(Shifted(ahead))),
                      argz_len + Len(string) + 1, <<string>> \o entries)
         /\ astray' = (ahead # << >>)
  BY DEF Z!InsertAhead
<1>1. PICK moved :
         /\ moved = Z!Bytes(string) \o ahead \o argz
         /\ Z!Becomes(SubSeq(moved, Len(ahead) + 1, Len(moved)), argz_len + Len(string) + 1,
                      <<string>> \o entries)
         /\ astray' = (ahead # << >>)
  BY <1>0
<1>2. /\ entries \in Seq(Clean) /\ argz = Z!Flat(entries) /\ argz_len = Len(argz)
      /\ string \in Clean /\ argz \in Text
  BY StringsAreClean, FlatIsText DEF VectorInv
<1>3. <<string>> \in Seq(Clean) /\ Z!Flat(<<string>>) = Z!Bytes(string)
  BY <1>2, FlatOne
<1>4. /\ <<string>> \o entries \in Seq(Clean)
      /\ Z!Flat(<<string>> \o entries) = Z!Bytes(string) \o argz
  BY <1>2, <1>3, FlatJoins, ConcatProperties
<1>5. CASE ahead # << >>
  BY <1>1, <1>4, <1>5 DEF VectorInv, Z!Becomes
<1>6. CASE ahead = << >>
  <2>1. PICK s : s = Z!Bytes(string)
    OBVIOUS
  <2>2. s \in Text /\ Len(s) = Len(string) + 1 /\ Len(string) \in Nat
    BY <1>2, <2>1, BytesAre, CleanIsText, LenProperties DEF Text
  <2>3. s \o << >> = s
    BY <2>2, ConcatEmptySeq DEF Text
  <2>4. moved = s \o argz
    BY <1>1, <1>6, <2>1, <2>3
  <2>5. moved \in Text /\ Len(moved) = Len(s) + Len(argz) /\ Len(argz) \in Nat
    BY <1>2, <2>2, <2>4, ConcatProperties, LenProperties DEF Text
  <2>6. SubSeq(moved, 1, Len(moved)) = moved
    BY <2>5, SubSeqFull DEF Text
  <2>7. Len(ahead) + 1 = 1
    BY <1>6
  <2>8. Z!Becomes(moved, argz_len + Len(string) + 1, <<string>> \o entries)
    BY <1>1, <2>6, <2>7
  <2>9. argz_len + Len(string) + 1 = Len(moved)
    BY <1>2, <2>2, <2>5
  <2> QED
    BY <1>4, <2>1, <2>4, <2>8, <2>9, BecomesKeeps
<1> QED
  BY <1>5, <1>6

LEMMA ArgzInsertKeeps == VectorInv /\ Z!ArgzInsert => VectorInv'
BY InsertBeforeKeeps, InsertAheadKeeps, FailsKeeps DEF Z!ArgzInsert

\* A new block of some strings.
BlockOf(strings) ==
    [dst |-> Z!Flat(strings), dst_len |-> Len(Z!Flat(strings)), delayed_copy |-> FALSE]

LEMMA AddToBlock ==
    ASSUME NEW strings \in Seq(Clean), NEW n, n = Len(strings), NEW k \in 1..n
    PROVE  Z!AddTo(BlockOf(SubSeq(strings, 1, k - 1)), strings[k]) = BlockOf(SubSeq(strings, 1, k))
<1>1. PICK first, more, string : /\ first = SubSeq(strings, 1, k - 1) /\ more = SubSeq(strings, 1, k)
                                 /\ string = strings[k]
  OBVIOUS
<1>2. first \in Seq(Clean) /\ string \in Clean /\ Z!Flat(more) = Z!Flat(first) \o Z!Bytes(string)
  BY <1>1, Parts
<1>3. PICK a, b : a = Z!Flat(first) /\ b = Z!Flat(more)
  OBVIOUS
<1>4. Len(b) = Len(a) + Len(string) + 1
  <2>1. a \in Text /\ b = a \o Z!Bytes(string)
    BY <1>2, <1>3, FlatIsText
  <2>2. Len(a \o Z!Bytes(string)) = Len(a) + Len(string) + 1
    BY <1>2, <2>1, LongerBy
  <2> QED
    BY <2>1, <2>2
<1>5. Z!AddTo([dst |-> a, dst_len |-> Len(a), delayed_copy |-> FALSE], string)
         = [dst |-> a \o Z!Bytes(string), dst_len |-> Len(a) + Len(string) + 1, delayed_copy |-> FALSE]
  BY DEF Z!AddTo
<1> QED
  BY <1>1, <1>2, <1>3, <1>4, <1>5 DEF BlockOf

\* What argz_replace has copied after each entry.
CopyOf(strings, str, new, k) ==
    IF \A j \in 1..k : Z!Matches(strings[j], str, 1) = {} THEN Z!NothingCopied
    ELSE BlockOf(SubSeq(new, 1, k))

\* Each string, replaced.
ReplacedIn(strings, str, with, new) ==
    /\ new \in Seq(Clean) /\ Len(new) = Len(strings)
    /\ \A k \in 1..Len(strings) :
          IF Z!Matches(strings[k], str, 1) = {} THEN new[k] = strings[k]
          ELSE Z!Substituted(strings[k], str, with) = new[k]

LEMMA CopyEntryIs ==
    ASSUME VectorInv, ~astray, NEW str, NEW with, NEW new, ReplacedIn(entries, str, with, new),
           NEW n, n = Len(entries), NEW k \in 1..n
    PROVE  Z!CopyEntry(CopyOf(entries, str, new, k - 1), Z!Starts[k], str, with)
              = CopyOf(entries, str, new, k)
<1>1. PICK strings, bytes, start : strings = entries /\ bytes = argz /\ start = Z!Starts[k]
  OBVIOUS
<1>2. /\ strings \in Seq(Clean) /\ n = Len(strings) /\ bytes = Z!Flat(strings) /\ bytes \in Text
      /\ n \in Nat /\ start = Place(strings, k) /\ Z!StringAt(start) = strings[k]
  BY <1>1, VectorLooks
<1>3. /\ new \in Seq(Clean) /\ Len(new) = n
      /\ \A j \in 1..n : IF Z!Matches(strings[j], str, 1) = {} THEN new[j] = strings[j]
                         ELSE Z!Substituted(strings[j], str, with) = new[j]
  BY <1>1 DEF ReplacedIn
<1>4. PICK copy, none : /\ copy = CopyOf(strings, str, new, k - 1)
                        /\ none = (\A j \in 1..(k - 1) : Z!Matches(strings[j], str, 1) = {})
  OBVIOUS
<1>5. copy = IF none THEN Z!NothingCopied ELSE BlockOf(SubSeq(new, 1, k - 1))
  BY <1>4 DEF CopyOf
<1>6. Z!NothingCopied.delayed_copy = TRUE /\ \A more : BlockOf(more).delayed_copy = FALSE
  BY DEF Z!NothingCopied, BlockOf
<1>7. Z!AddTo(BlockOf(SubSeq(new, 1, k - 1)), new[k]) = BlockOf(SubSeq(new, 1, k))
  BY <1>2, <1>3, AddToBlock
<1>8. \A j : j \in 1..k <=> j \in 1..(k - 1) \/ j = k
  BY <1>2
<1> DEFINE before == [dst |-> SubSeq(argz, 1, start - 1), dst_len |-> start - 1, delayed_copy |-> FALSE]
<1>9. Z!CopyEntry(copy, start, str, with)
         = IF Z!Matches(strings[k], str, 1) # {}
           THEN Z!AddTo(IF copy.delayed_copy THEN before ELSE copy,
                        Z!Substituted(strings[k], str, with))
           ELSE IF copy.delayed_copy THEN copy ELSE Z!AddTo(copy, strings[k])
  BY <1>2 DEF Z!CopyEntry
<1>10. CASE Z!Matches(strings[k], str, 1) = {}
  <2>1. new[k] = strings[k]
    BY <1>3, <1>10
  <2>2. CASE none
    <3>1. CopyOf(strings, str, new, k) = Z!NothingCopied
      BY <1>4, <1>8, <1>10, <2>2 DEF CopyOf
    <3> HIDE DEF before
    <3> QED
      BY <1>1, <1>4, <1>5, <1>6, <1>9, <1>10, <2>2, <3>1
  <2>3. CASE ~none
    <3>1. CopyOf(strings, str, new, k) = BlockOf(SubSeq(new, 1, k))
      BY <1>4, <1>8, <2>3 DEF CopyOf
    <3> HIDE DEF before
    <3> QED
      BY <1>1, <1>4, <1>5, <1>6, <1>7, <1>9, <1>10, <2>1, <2>3, <3>1
  <2> QED
    BY <2>2, <2>3
<1>11. CASE Z!Matches(strings[k], str, 1) # {}
  <2>1. new[k] = Z!Substituted(strings[k], str, with)
    BY <1>3, <1>11
  <2>2. CopyOf(strings, str, new, k) = BlockOf(SubSeq(new, 1, k))
    BY <1>8, <1>11 DEF CopyOf
  <2>3. CASE ~none
    <3> HIDE DEF before
    <3> QED
      BY <1>1, <1>4, <1>5, <1>6, <1>7, <1>9, <1>11, <2>1, <2>2, <2>3
\* All that lies before the entry is as it was.
  <2>4. CASE none
    <3>1. SubSeq(new, 1, k - 1) = SubSeq(strings, 1, k - 1)
      <4>1. ASSUME NEW j \in 1..(k - 1) PROVE j \in 1..n /\ new[j] = strings[j]
        <5>1. j \in 1..n
          BY <1>2
        <5>2. Z!Matches(strings[j], str, 1) = {}
          BY <1>4, <2>4
        <5> QED
          BY <1>3, <5>1, <5>2
      <4>2. PICK a, b, m : a = SubSeq(new, 1, k - 1) /\ b = SubSeq(strings, 1, k - 1) /\ m = k - 1
        OBVIOUS
      <4>3. m \in 0..n
        BY <1>2, <4>2
      <4>4. a \in Seq(Clean) /\ b \in Seq(Clean) /\ Len(a) = m /\ Len(b) = m
        BY <1>2, <1>3, <4>2, <4>3, Halves
      <4>5. ASSUME NEW j \in 1..m PROVE a[j] = b[j]
        <5>1. a[j] = new[j] /\ b[j] = strings[j]
          <6>1. \A i \in 1..m : new[i] \in Clean /\ strings[i] \in Clean
            <7>1. \A i \in 1..m : i \in 1..n
              BY <1>2, <4>3
            <7> QED
              BY <1>2, <1>3, <7>1, ElementOfSeq
          <6>2. m \in Int /\ 1 \in Int /\ m - 1 + 1 = m /\ 1 + j - 1 = j
            BY <4>3
          <6>3. SubSeq(new, 1, m)[j] = new[1 + j - 1] /\ SubSeq(strings, 1, m)[j] = strings[1 + j - 1]
            BY <6>1, <6>2, SubSeqProperties
          <6> QED
            BY <4>2, <6>2, <6>3
        <5> QED
          BY <4>1, <4>2, <5>1
      <4> QED
        BY <4>2, <4>4, <4>5, SeqEqual
    <3>2. PICK a : a = Z!Flat(SubSeq(strings, 1, k - 1))
      OBVIOUS
    <3>3. start = Len(a) + 1
      BY <1>2, <3>2 DEF Place
    <3>4. SubSeq(bytes, 1, Len(a)) = a /\ Len(a) \in Nat
      <4>1. PICK b, c : b = Z!Bytes(strings[k]) /\ c = Z!Flat(SubSeq(strings, k + 1, n))
        OBVIOUS
      <4>2. /\ SubSeq(strings, 1, k - 1) \in Seq(Clean) /\ SubSeq(strings, k + 1, n) \in Seq(Clean)
            /\ strings[k] \in Clean /\ bytes = a \o (b \o c)
        BY <1>2, <3>2, <4>1, Parts
      <4>3. a \in Text /\ b \in Text /\ c \in Text
        BY <3>2, <4>1, <4>2, FlatIsText, BytesAre, CleanIsText
      <4>4. b \o c \in Text /\ Len(a) \in Nat
        BY <4>3, ConcatProperties, LenProperties DEF Text
      <4> QED
        BY <4>2, <4>3, <4>4, TwoParts DEF Text
    <3>5. before = BlockOf(SubSeq(new, 1, k - 1))
      <4>1. start - 1 = Len(a)
        BY <3>3, <3>4
      <4> QED
        BY <1>1, <3>1, <3>2, <3>4, <4>1 DEF BlockOf
    <3> HIDE DEF before
    <3> QED
      BY <1>1, <1>4, <1>5, <1>6, <1>7, <1>9, <1>11, <2>1, <2>2, <2>4, <3>5
  <2> QED
    BY <2>3, <2>4
<1> QED
  BY <1>10, <1>11

LEMMA BlockCopied ==
    ASSUME VectorInv, ~astray, NEW str, NEW with, NEW new, ReplacedIn(entries, str, with, new),
           NEW n, n = Len(entries)
    PROVE  Z!Copied(str, with) = CopyOf(entries, str, new, n)
<1>1. PICK starts : starts = Z!Starts
  OBVIOUS
<1>2. n \in Nat /\ Len(starts) = n
  <2>1. PICK strings, bytes : strings = entries /\ bytes = argz
    OBVIOUS
  <2>2. strings \in Seq(Clean) /\ bytes = Z!Flat(strings) /\ argz_len = Len(bytes) /\ n \in Nat
    BY <2>1, VectorLooks
  <2>3. starts = EntryPlaces(strings, 1, n)
    <3>1. starts = Z!Walk(bytes, Len(bytes)) /\ n = Len(strings)
      BY <1>1, <2>1, <2>2 DEF Z!Starts
    <3> QED
      BY <2>2, <3>1, WalkMeets
  <2>4. starts \in Seq({starts[k] : k \in 1..n}) /\ Len(starts) = n
    <3>1. starts \in [1..n -> {starts[k] : k \in 1..n}]
      BY <2>3 DEF EntryPlaces
    <3> QED
      BY <2>2, <3>1
  <2> QED
    BY <2>2, <2>4
<1> DEFINE Step(g, k) == IF k = 0 THEN Z!NothingCopied ELSE Z!CopyEntry(g[k - 1], starts[k], str, with)
           copied == CHOOSE g : g = [k \in 0..n |-> Step(g, k)]
           h == [k \in 0..n |-> CopyOf(entries, str, new, k)]
<1>3. Z!Copied(str, with) = copied[n]
  BY <1>1, <1>2 DEF Z!Copied
<1>4. ASSUME NEW k \in 0..n PROVE h[k] = Step(h, k)
  <2>1. CASE k = 0
    <3>1. CopyOf(entries, str, new, 0) = Z!NothingCopied
      BY DEF CopyOf
    <3> QED
      BY <2>1, <3>1
  <2>2. CASE k # 0
    <3>1. k \in 1..n /\ k - 1 \in 0..n
      BY <1>2, <2>2
    <3>2. Z!CopyEntry(CopyOf(entries, str, new, k - 1), starts[k], str, with)
             = CopyOf(entries, str, new, k)
      BY <1>1, <3>1, CopyEntryIs
    <3>3. h[k] = CopyOf(entries, str, new, k) /\ h[k - 1] = CopyOf(entries, str, new, k - 1)
      BY <3>1
    <3> HIDE DEF h
    <3> QED
      BY <2>2, <3>2, <3>3
  <2> QED
    BY <2>1, <2>2
<1>5. h = [k \in 0..n |-> h[k]] /\ \A k \in 0..n : h[k] = CopyOf(entries, str, new, k)
  OBVIOUS
<1> HIDE DEF h
<1>6. h = [k \in 0..n |-> Step(h, k)]
  <2> HIDE DEF Step
  <2> QED
    BY <1>4, <1>5
<1>7. copied = [k \in 0..n |-> Step(copied, k)]
  <2> HIDE DEF Step
  <2> QED
    BY <1>6
<1>8. PICK g : g = copied
  OBVIOUS
<1>9. \A k \in 0..n : g[k] = Step(g, k)
  <2> HIDE DEF Step, copied
  <2> QED
    BY <1>7, <1>8
<1> HIDE DEF copied
<1> DEFINE P == {k \in 0..n : g[k] = h[k]}
<1>10. 0 \in P
  <2>1. 0 \in 0..n
    BY <1>2
  <2> QED
    BY <1>4, <1>9, <2>1
<1>11. ASSUME NEW k \in 0..n, k \in P, k < n PROVE k + 1 \in P
  <2>1. k + 1 \in 0..n /\ k + 1 # 0 /\ (k + 1) - 1 = k
    BY <1>2, <1>11
  <2>2. g[k + 1] = Step(g, k + 1) /\ h[k + 1] = Step(h, k + 1)
    <3> HIDE DEF Step
    <3> QED
      BY <1>4, <1>9, <2>1
  <2>3. Step(g, k + 1) = Step(h, k + 1)
    BY <1>11, <2>1
  <2> HIDE DEF Step
  <2> QED
    BY <2>1, <2>2, <2>3
<1>12. n \in P
  <2>1. P \in SUBSET Nat
    OBVIOUS
  <2>2. 0..n \subseteq P
    <3> HIDE DEF P
    <3> QED
      BY <1>2, <1>10, <1>11, <2>1, UpTo
  <2>3. n \in 0..n
    BY <1>2
  <2> HIDE DEF P
  <2> QED
    BY <2>2, <2>3
<1> QED
  BY <1>3, <1>5, <1>8, <1>12

LEMMA ArgzReplaceKeeps == VectorInv /\ Z!ArgzReplace => VectorInv'
<1> SUFFICES ASSUME VectorInv, Z!ArgzReplace PROVE VectorInv'
  OBVIOUS
<1>1. ~astray
  BY DEF Z!ArgzReplace
<1>2. PICK n, strings : n = Len(entries) /\ strings = entries
  OBVIOUS
<1> DEFINE New(str, with) == [k \in DOMAIN entries |-> Z!Replaced(entries[k], str, with)]
<1>3. PICK str \in Strings \ {<< >>}, with \in Strings :
         IF Z!Copied(str, with).delayed_copy THEN Z!Becomes(argz, argz_len, New(str, with))
         ELSE \/ Z!Becomes(Z!Copied(str, with).dst, Z!Copied(str, with).dst_len, New(str, with))
              \/ Z!Fails
  BY DEF Z!ArgzReplace
<1>4. /\ strings \in Seq(Clean) /\ n = Len(strings) /\ n \in Nat /\ DOMAIN strings = 1..n
      /\ argz = Z!Flat(strings) /\ argz_len = Len(argz)
      /\ \A k \in 1..n : strings[k] \in Clean
  BY <1>1, <1>2, VectorLooks, ElementOfSeq
<1>5. str \in Clean /\ with \in Clean /\ Len(str) > 0
  <2>1. str \in Clean /\ with \in Clean /\ str # << >>
    BY StringsAreClean
  <2>2. Len(str) \in Nat /\ str \in Seq(Characters)
    BY <2>1, CleanIs
  <2> QED
    BY <2>1, <2>2, EmptySeq
<1>6. PICK new : new = New(str, with)
  OBVIOUS
<1>7. new = [k \in 1..n |-> Z!Replaced(strings[k], str, with)]
  BY <1>2, <1>4, <1>6
<1>8. \A k \in 1..n : /\ Z!Replaced(strings[k], str, with) \in Clean
                      /\ IF Z!Matches(strings[k], str, 1) = {}
                         THEN Z!Replaced(strings[k], str, with) = strings[k]
                         ELSE Z!Substituted(strings[k], str, with)
                                 = Z!Replaced(strings[k], str, with)
  BY <1>4, <1>5, SubstitutedIs
<1>9. new \in Seq(Clean) /\ Len(new) = n
  <2>1. new \in [1..n -> Clean]
    BY <1>7, <1>8
  <2> QED
    BY <1>4, <2>1
<1>10. ReplacedIn(strings, str, with, new)
  BY <1>4, <1>7, <1>8, <1>9 DEF ReplacedIn
<1>11. Z!Copied(str, with) = CopyOf(strings, str, new, n)
  <2>1. VectorInv /\ ReplacedIn(entries, str, with, new) /\ n = Len(entries)
    BY <1>2, <1>10
  <2>2. Z!Copied(str, with) = CopyOf(entries, str, new, n)
    BY ONLY <1>1, <2>1, BlockCopied
  <2> QED
    BY <1>2, <2>2
<1> HIDE DEF New
\* Nothing was copied.
<1>12. CASE \A k \in 1..n : Z!Matches(strings[k], str, 1) = {}
  <2>1. Z!Copied(str, with).delayed_copy = TRUE
    BY <1>11, <1>12 DEF CopyOf, Z!NothingCopied
  <2>2. new = strings
    <3>1. \A k \in 1..n : new[k] = strings[k]
      BY <1>7, <1>8, <1>12
    <3> QED
      BY <1>4, <1>9, <3>1, SeqEqual
  <2>3. Z!Becomes(argz, argz_len, strings)
    BY <1>3, <1>6, <2>1, <2>2
  <2> QED
    BY <1>4, <2>3, BecomesKeeps
<1>13. CASE ~\A k \in 1..n : Z!Matches(strings[k], str, 1) = {}
  <2>1. Z!Copied(str, with) = BlockOf(SubSeq(new, 1, n))
    BY <1>11, <1>13 DEF CopyOf
  <2>2. SubSeq(new, 1, n) = new
    BY <1>9, SubSeqFull
  <2>3. /\ Z!Copied(str, with).dst = Z!Flat(new) /\ Z!Copied(str, with).dst_len = Len(Z!Flat(new))
        /\ Z!Copied(str, with).delayed_copy = FALSE
    <3>1. Z!Copied(str, with) = BlockOf(new)
      BY <2>1, <2>2
    <3> QED
      BY <3>1 DEF BlockOf
  <2>4. Z!Becomes(Z!Flat(new), Len(Z!Flat(new)), new) \/ Z!Fails
    BY <1>3, <1>6, <2>3
  <2> QED
    BY <1>9, <2>4, BecomesKeeps, FailsKeeps
<1> QED
  BY <1>12, <1>13

\* A block with the delimiter for every NUL but the last.
Strung(bytes) == [p \in 1..Len(bytes) |->
                     IF p < Len(bytes) /\ bytes[p] = Z!NUL THEN Delim ELSE bytes[p]]
OneString(bytes) == SubSeq(Strung(bytes), 1, Len(bytes) - 1)

\* A block that ends with a NUL.
Ends(bytes) == bytes \in Text /\ Len(bytes) > 0 /\ bytes[Len(bytes)] = Z!NUL

\* It is one string then.
LEMMA StrungIs ==
    ASSUME NEW bytes, Ends(bytes), NEW n, n = Len(bytes)
    PROVE  OneString(bytes) \in Clean /\ Strung(bytes) = Z!Bytes(OneString(bytes))
<1>1. PICK after : after = Strung(bytes)
  OBVIOUS
<1>2. after = [p \in 1..n |-> IF p < n /\ bytes[p] = Z!NUL THEN Delim ELSE bytes[p]]
  BY <1>1 DEF Strung
<1>3. bytes \in Seq(Characters) /\ n \in Nat /\ n \in 1..n /\ bytes[n] = Z!NUL
  <2>1. bytes \in Seq(Characters) /\ n \in Nat /\ n > 0
    BY LenProperties DEF Ends, Text
  <2> QED
    BY <2>1 DEF Ends
<1>4. \A p \in 1..n : bytes[p] \in Characters
  BY <1>2, <1>3, ElementOfSeq
<1>5. /\ after \in Seq(Characters) /\ Len(after) = n
      /\ after[n] = Z!NUL
      /\ \A p \in 1..(n - 1) : after[p] \in Characters /\ after[p] # Z!NUL
  <2>1. ASSUME NEW p \in 1..n PROVE after[p] \in Characters
    BY <1>2, <1>4, DelimIs
  <2>2. after \in [1..n -> Characters]
    BY <1>2, <2>1
  <2>3. after \in Seq(Characters) /\ Len(after) = n
    BY <1>3, <2>2
  <2>4. after[n] = Z!NUL
    BY <1>2, <1>3
  <2>5. ASSUME NEW p \in 1..(n - 1) PROVE after[p] \in Characters /\ after[p] # Z!NUL
    <3>1. p \in 1..n /\ p < n
      BY <1>3
    <3> QED
      BY <1>2, <2>1, <3>1, DelimIs
  <2> QED
    BY <2>3, <2>4, <2>5
<1>6. PICK m, string : m = n - 1 /\ string = SubSeq(after, 1, m)
  OBVIOUS
<1>7. /\ m \in Nat /\ n = m + 1 /\ string \in Seq(Characters) /\ Len(string) = m
      /\ \A p \in 1..m : string[p] = after[p]
  <2>1. m \in Nat /\ n = m + 1 /\ m \in 0..n
    BY <1>3, <1>6
  <2> QED
    BY <1>5, <1>6, <2>1
<1>8. string \in Clean
  <2>1. DOMAIN string = 1..m
    BY <1>7, LenProperties
  <2>2. \A p \in 1..m : string[p] # Z!NUL
    BY <1>5, <1>6, <1>7
  <2> QED
    BY <1>7, <2>1, <2>2 DEF Clean, Text
<1>9. after = Z!Bytes(string)
  <2>1. PICK whole : whole = Z!Bytes(string)
    OBVIOUS
  <2>2. /\ whole \in Seq(Characters) /\ Len(whole) = n /\ whole[n] = Z!NUL
        /\ \A p \in 1..m : whole[p] = string[p]
    BY <1>7, <1>8, <2>1, BytesAre, CleanIsText DEF Text
  <2>3. \A p \in 1..n : p \in 1..m \/ p = n
    BY <1>7
  <2>4. \A p \in 1..n : whole[p] = after[p]
    BY <1>5, <1>7, <2>2, <2>3
  <2>5. whole = after
    BY <1>5, <2>2, <2>4, SeqEqual
  <2> QED
    BY <2>1, <2>5
<1> QED
  BY <1>1, <1>6, <1>8, <1>9 DEF OneString

\* Strings with the same bytes are the same.
LEMMA BytesTell ==
    ASSUME NEW a \in Clean, NEW b \in Clean, Z!Bytes(a) = Z!Bytes(b)
    PROVE  a = b
<1>1. PICK x, y, k, m : x = Z!Bytes(a) /\ y = Z!Bytes(b) /\ k = Len(a) /\ m = Len(b)
  OBVIOUS
<1>2. a \in Seq(Characters) /\ b \in Seq(Characters) /\ k \in Nat /\ m \in Nat
  BY <1>1, CleanIs
<1>3. /\ Len(x) = k + 1 /\ Len(y) = m + 1 /\ x = y
      /\ (\A p \in 1..k : x[p] = a[p]) /\ \A p \in 1..m : y[p] = b[p]
  BY <1>1, BytesAre, CleanIsText
<1>4. k = m
  BY <1>2, <1>3
<1>5. \A p \in 1..k : a[p] = b[p]
  BY <1>3, <1>4
<1> QED
  BY <1>1, <1>2, <1>4, <1>5, SeqEqual

\* One more string: the NUL before it becomes the delimiter.
LEMMA StrungLonger ==
    ASSUME NEW bytes, Ends(bytes), NEW string \in Clean
    PROVE  /\ Ends(bytes \o Z!Bytes(string))
           /\ OneString(bytes \o Z!Bytes(string)) = Append(OneString(bytes), Delim) \o string
<1>1. PICK s, whole, k, m, joined : /\ s = Z!Bytes(string) /\ whole = bytes \o s /\ k = Len(bytes)
                                    /\ m = Len(string) /\ joined = OneString(bytes)
  OBVIOUS
<1>2. /\ bytes \in Seq(Characters) /\ k \in Nat /\ k > 0 /\ bytes[k] = Z!NUL
      /\ string \in Seq(Characters) /\ m \in Nat
      /\ \A p \in 1..m : string[p] \in Characters /\ string[p] # Z!NUL
  BY <1>1, CleanIs, LenProperties DEF Ends, Text
<1>3. /\ s \in Seq(Characters) /\ Len(s) = m + 1 /\ s[m + 1] = Z!NUL
      /\ \A p \in 1..m : s[p] = string[p]
  BY <1>1, BytesAre, CleanIsText DEF Text
<1>4. /\ whole \in Seq(Characters) /\ Len(whole) = k + (m + 1)
      /\ \A p \in 1..(k + (m + 1)) : whole[p] = IF p <= k THEN bytes[p] ELSE s[p - k]
  <2>1. /\ bytes \o s \in Seq(Characters) /\ Len(bytes \o s) = Len(bytes) + Len(s)
        /\ \A p \in 1..(Len(bytes) + Len(s)) :
              (bytes \o s)[p] = IF p <= Len(bytes) THEN bytes[p] ELSE s[p - Len(bytes)]
    BY <1>2, <1>3, ConcatProperties
  <2> QED
    BY ONLY <1>1, <1>3, <2>1
<1>5. Ends(whole)
  <2>1. Len(whole) \in 1..(k + (m + 1)) /\ ~(Len(whole) <= k) /\ Len(whole) - k = m + 1
    BY <1>2, <1>4
  <2>2. whole[Len(whole)] = Z!NUL
    BY <1>3, <1>4, <2>1
  <2> QED
    BY <1>2, <1>4, <2>1, <2>2 DEF Ends, Text
\* The string without the last NUL, and that of the shorter block.
<1>6. /\ joined \in Seq(Characters) /\ joined \in Clean /\ Len(joined) = k - 1
      /\ \A p \in 1..(k - 1) : joined[p] = IF bytes[p] = Z!NUL THEN Delim ELSE bytes[p]
  <2>1. joined \in Clean /\ Strung(bytes) = Z!Bytes(joined)
    BY <1>1, StrungIs
  <2>2. PICK after : after = Strung(bytes)
    OBVIOUS
  <2>3. after = [p \in 1..k |-> IF p < k /\ bytes[p] = Z!NUL THEN Delim ELSE bytes[p]]
    BY <1>1, <2>2 DEF Strung
  <2>4. after \in Seq(Characters) /\ Len(after) = k
    <3>1. \A p \in 1..k : after[p] \in Characters
      BY <1>1, <1>2, <2>3, DelimIs, ElementOfSeq
    <3>2. after \in [1..k -> Characters]
      BY <2>3, <3>1
    <3> QED
      BY <1>2, <3>2
  <2>5. /\ Len(joined) + 1 = k /\ joined \in Seq(Characters) /\ Len(joined) \in Nat
        /\ \A p \in 1..Len(joined) : after[p] = joined[p]
    <3>1. joined \in Text
      BY <2>1, CleanIsText
    <3>2. /\ Len(Z!Bytes(joined)) = Len(joined) + 1
          /\ \A p \in 1..Len(joined) : Z!Bytes(joined)[p] = joined[p]
      BY <3>1, BytesAre
    <3>3. after = Z!Bytes(joined)
      BY <2>1, <2>2
    <3>4. joined \in Seq(Characters) /\ Len(joined) \in Nat
      BY <3>1, LenProperties DEF Text
    <3>5. Len(after) = Len(joined) + 1 /\ \A p \in 1..Len(joined) : after[p] = joined[p]
      BY ONLY <3>2, <3>3
    <3> QED
      BY ONLY <2>4, <3>4, <3>5
  <2>6. Len(joined) = k - 1 /\ k \in Nat
    BY <1>2, <2>5
  <2>7. ASSUME NEW p \in 1..(k - 1)
        PROVE  joined[p] = IF bytes[p] = Z!NUL THEN Delim ELSE bytes[p]
    <3>1. p \in 1..Len(joined) /\ p \in 1..k /\ p < k
      BY ONLY p \in 1..(k - 1), <2>6
    <3>2. after[p] = joined[p]
      BY ONLY <2>5, <3>1
    <3>3. after[p] = IF bytes[p] = Z!NUL THEN Delim ELSE bytes[p]
      BY ONLY <2>3, <3>1
    <3> QED
      BY ONLY <3>2, <3>3
  <2> QED
    BY ONLY <2>1, <2>5, <2>6, <2>7
<1>7. PICK long, n : long = OneString(whole) /\ n = k + (m + 1)
  OBVIOUS
<1>8. /\ long \in Seq(Characters) /\ Len(long) = n - 1
      /\ \A p \in 1..(n - 1) : long[p] = IF whole[p] = Z!NUL THEN Delim ELSE whole[p]
  <2>1. long \in Clean /\ Strung(whole) = Z!Bytes(long)
    BY <1>5, <1>7, StrungIs
  <2>2. PICK after : after = Strung(whole)
    OBVIOUS
  <2>3. after = [p \in 1..n |-> IF p < n /\ whole[p] = Z!NUL THEN Delim ELSE whole[p]]
    BY <1>4, <1>7, <2>2 DEF Strung
  <2>4. after \in Seq(Characters) /\ Len(after) = n
    <3>1. \A p \in 1..n : after[p] \in Characters
      BY <1>4, <1>7, <2>3, DelimIs, ElementOfSeq
    <3>2. after \in [1..n -> Characters] /\ n \in Nat
      BY <1>2, <1>7, <2>3, <3>1
    <3> QED
      BY <3>2
  <2>5. /\ Len(long) + 1 = n /\ long \in Seq(Characters) /\ Len(long) \in Nat
        /\ \A p \in 1..Len(long) : after[p] = long[p]
    <3>1. long \in Text
      BY <2>1, CleanIsText
    <3>2. /\ Len(Z!Bytes(long)) = Len(long) + 1
          /\ \A p \in 1..Len(long) : Z!Bytes(long)[p] = long[p]
      BY <3>1, BytesAre
    <3>3. after = Z!Bytes(long)
      BY <2>1, <2>2
    <3>4. long \in Seq(Characters) /\ Len(long) \in Nat
      BY <3>1, LenProperties DEF Text
    <3>5. Len(after) = Len(long) + 1 /\ \A p \in 1..Len(long) : after[p] = long[p]
      BY ONLY <3>2, <3>3
    <3> QED
      BY ONLY <2>4, <3>4, <3>5
  <2>6. Len(long) = n - 1 /\ n \in Nat
    BY <1>2, <1>7, <2>5
  <2>7. ASSUME NEW p \in 1..(n - 1)
        PROVE  long[p] = IF whole[p] = Z!NUL THEN Delim ELSE whole[p]
    <3>1. p \in 1..Len(long) /\ p \in 1..n /\ p < n
      BY ONLY p \in 1..(n - 1), <2>6
    <3>2. after[p] = long[p]
      BY ONLY <2>5, <3>1
    <3>3. after[p] = IF whole[p] = Z!NUL THEN Delim ELSE whole[p]
      BY ONLY <2>3, <3>1
    <3> QED
      BY ONLY <3>2, <3>3
  <2> QED
    BY ONLY <2>1, <2>5, <2>6, <2>7
<1>9. PICK with, other : with = Append(joined, Delim) /\ other = with \o string
  OBVIOUS
<1>10. /\ with \in Seq(Characters) /\ Len(with) = k /\ with[k] = Delim
       /\ \A p \in 1..(k - 1) : with[p] = joined[p]
  <2>1. Delim \in Characters /\ (k - 1) + 1 = k
    BY <1>2, DelimIs
  <2> QED
    BY <1>6, <1>9, <2>1, AppendProperties
<1>11. /\ other \in Seq(Characters) /\ Len(other) = k + m
       /\ \A p \in 1..(k + m) : other[p] = IF p <= k THEN with[p] ELSE string[p - k]
  BY <1>1, <1>2, <1>9, <1>10, ConcatProperties
<1>12. n - 1 = k + m
  BY <1>2, <1>7
<1>13. ASSUME NEW p \in 1..(k + m) PROVE long[p] = other[p]
  <2>1. p \in 1..(n - 1) /\ p \in 1..(k + (m + 1)) /\ p \in Nat
    BY <1>2, <1>12
  <2>2. CASE p < k
    <3>1. p \in 1..(k - 1) /\ p <= k
      BY <1>2, <2>1, <2>2
    <3> QED
      BY <1>4, <1>6, <1>8, <1>10, <1>11, <2>1, <3>1
  <2>3. CASE p = k
    <3>1. p <= k
      BY <1>2, <2>3
    <3> QED
      BY <1>2, <1>4, <1>8, <1>10, <1>11, <2>1, <2>3, <3>1
  <2>4. CASE p > k
    <3>1. ~(p <= k) /\ p - k \in 1..m
      BY <1>2, <2>1, <2>4
    <3> QED
      BY <1>2, <1>3, <1>4, <1>8, <1>11, <2>1, <3>1
  <2> QED
    BY <1>2, <2>1, <2>2, <2>3, <2>4
<1>14. long = other
  BY <1>8, <1>11, <1>12, <1>13, SeqEqual
<1> QED
  BY <1>1, <1>5, <1>7, <1>9, <1>14

\* The strings with the delimiter between them are what argz_stringify leaves.
LEMMA JoinedIs ==
    ASSUME NEW strings \in Seq(Clean), NEW n, n = Len(strings), n > 0
    PROVE  Ends(Z!Flat(strings)) /\ Z!Joined(strings) = OneString(Z!Flat(strings))
<1>1. n \in Nat /\ n \in 1..n /\ 1 \in 1..n /\ \A k \in 1..n : strings[k] \in Clean
  <2>1. n \in Nat
    BY LenProperties
  <2>2. n \in 1..n /\ 1 \in 1..n
    BY <2>1
  <2> QED
    BY <2>1, <2>2, ElementOfSeq
<1>2. PICK f : Piled(f, strings, n) /\ Z!Flat(strings) = f[n]
  BY FlatIs
<1>3. Ends(f[1]) /\ OneString(f[1]) = strings[1]
  <2>1. f[1] = f[1 - 1] \o Z!Bytes(strings[1]) /\ f[1 - 1] = << >>
    <3>1. f[0] = << >> /\ \A k \in 1..n : f[k] = f[k - 1] \o Z!Bytes(strings[k])
      BY <1>2 DEF Piled
    <3>2. f[1] = f[1 - 1] \o Z!Bytes(strings[1])
      BY <1>1, <3>1
    <3>3. 1 - 1 = 0
      OBVIOUS
    <3> QED
      BY <3>1, <3>2, <3>3
  <2>2. PICK s, string, m : s = Z!Bytes(string) /\ string = strings[1] /\ m = Len(string)
    OBVIOUS
  <2>3. string \in Clean /\ string \in Seq(Characters) /\ m \in Nat
    BY <1>1, <2>2, CleanIs
  <2>4. /\ s \in Text /\ Len(s) = m + 1 /\ s[m + 1] = Z!NUL
        /\ \A p \in 1..m : s[p] = string[p] /\ s[p] # Z!NUL
    <3>1. \A p \in 1..m : string[p] # Z!NUL
      BY <2>2, <2>3, CleanIs
    <3> QED
      BY <2>2, <2>3, <3>1, BytesAre, CleanIsText
  <2>5. Ends(s)
    BY <2>3, <2>4 DEF Ends
  <2>6. f[1] = s
    BY <2>1, <2>2, <2>4, ConcatEmptySeq DEF Text
  <2>7. Strung(s) = s
    <3>1. s \in Seq(Characters) /\ \A p \in 1..(m + 1) : p < m + 1 => p \in 1..m
      BY <2>3, <2>4 DEF Text
    <3>2. s = [p \in 1..(m + 1) |-> s[p]]
      BY <2>4, <3>1, LenProperties
    <3>3. Strung(s) = [p \in 1..(m + 1) |-> IF p < m + 1 /\ s[p] = Z!NUL THEN Delim ELSE s[p]]
      BY <2>4 DEF Strung
    <3>4. \A p \in 1..(m + 1) : (IF p < m + 1 /\ s[p] = Z!NUL THEN Delim ELSE s[p]) = s[p]
      BY <2>4, <3>1
    <3> QED
      BY <3>2, <3>3, <3>4
  <2>8. OneString(s) \in Clean /\ Z!Bytes(OneString(s)) = Z!Bytes(string)
    BY <2>2, <2>5, <2>7, StrungIs
  <2>9. OneString(s) = string
    BY <2>3, <2>8, BytesTell
  <2> QED
    BY <2>2, <2>5, <2>6, <2>9
\* String by string.
<1> DEFINE P == {k \in 0..n : k > 0 => Ends(f[k])}
<1>4. ASSUME NEW k \in 0..n, k > 0, Ends(f[k]), k < n
      PROVE  /\ Ends(f[k + 1])
             /\ OneString(f[k + 1]) = Append(OneString(f[k]), Delim) \o strings[k + 1]
  <2>1. k + 1 \in 1..n /\ (k + 1) - 1 = k
    BY <1>1, <1>4
  <2>2. f[k + 1] = f[k] \o Z!Bytes(strings[k + 1]) /\ strings[k + 1] \in Clean
    BY <1>1, <1>2, <2>1 DEF Piled
  <2> QED
    BY <1>4, <2>2, StrungLonger
<1>5. 0..n \subseteq P
  <2>1. 0 \in P
    BY <1>1
  <2>2. ASSUME NEW k \in 0..n, k \in P, k < n PROVE k + 1 \in P
    <3>1. k + 1 \in 0..n
      BY <1>1, <2>2
    <3>2. CASE k = 0
      BY <1>3, <3>1, <3>2
    <3>3. CASE k # 0
      <4>1. k > 0
        BY <1>1, <3>3
      <4>2. Ends(f[k + 1])
        BY <1>4, <2>2, <4>1
      <4> QED
        BY <3>1, <4>2
    <3> QED
      BY <3>2, <3>3
  <2>3. P \in SUBSET Nat
    OBVIOUS
  <2> HIDE DEF P
  <2> QED
    BY <1>1, <2>1, <2>2, <2>3, UpTo
<1>6. \A k \in 1..n : k \in 0..n /\ k > 0 /\ Ends(f[k])
  BY <1>1, <1>5
<1> DEFINE Step(g, k) == IF k = 1 THEN strings[1] ELSE Append(g[k - 1], Delim) \o strings[k]
           joined == CHOOSE g : g = [k \in 1..n |-> Step(g, k)]
           h == [k \in 1..n |-> OneString(f[k])]
<1>7. Z!Joined(strings) = joined[n]
  BY DEF Z!Joined
<1>8. ASSUME NEW k \in 1..n PROVE h[k] = Step(h, k)
  <2>1. CASE k = 1
    BY <1>3, <2>1
  <2>2. CASE k # 1
    <3>1. PICK j : j = k - 1
      OBVIOUS
    <3>2. j \in 1..n /\ j \in 0..n /\ j > 0 /\ j < n /\ k = j + 1
      BY <1>1, <2>2, <3>1
    <3>3. OneString(f[k]) = Append(OneString(f[j]), Delim) \o strings[k]
      BY <1>4, <1>6, <3>2
    <3>4. h[k] = OneString(f[k]) /\ h[j] = OneString(f[j])
      BY <3>2
    <3> HIDE DEF h
    <3> QED
      BY <2>2, <3>1, <3>3, <3>4
  <2> QED
    BY <2>1, <2>2
<1>9. h = [k \in 1..n |-> h[k]] /\ \A k \in 1..n : h[k] = OneString(f[k])
  OBVIOUS
<1> HIDE DEF h, P
<1>10. h = [k \in 1..n |-> Step(h, k)]
  <2> HIDE DEF Step
  <2> QED
    BY <1>8, <1>9
<1>11. joined = [k \in 1..n |-> Step(joined, k)]
  <2> HIDE DEF Step
  <2> QED
    BY <1>10
<1>12. PICK g : g = joined
  OBVIOUS
<1>13. \A k \in 1..n : g[k] = Step(g, k)
  <2> HIDE DEF Step, joined
  <2> QED
    BY <1>11, <1>12
<1> HIDE DEF joined
<1> DEFINE Q == {k \in 0..n : k > 0 => g[k] = h[k]}
<1>14. 0 \in Q
  BY <1>1
<1>15. ASSUME NEW k \in 0..n, k \in Q, k < n PROVE k + 1 \in Q
  <2>1. k + 1 \in 0..n /\ k + 1 \in 1..n /\ (k + 1) - 1 = k
    BY <1>1, <1>15
  <2>2. g[k + 1] = Step(g, k + 1) /\ h[k + 1] = Step(h, k + 1)
    <3> HIDE DEF Step
    <3> QED
      BY <1>8, <1>13, <2>1
  <2>3. CASE k = 0
    BY <2>1, <2>2, <2>3
  <2>4. CASE k # 0
    <3>1. k > 0 /\ k + 1 # 1
      BY <1>1, <2>4
    <3>2. g[k] = h[k]
      BY <1>15, <3>1
    <3>3. Step(g, k + 1) = Step(h, k + 1)
      BY <2>1, <3>1, <3>2
    <3> HIDE DEF Step
    <3> QED
      BY <2>1, <2>2, <3>3
  <2> QED
    BY <2>3, <2>4
<1>16. g[n] = h[n]
  <2>1. Q \in SUBSET Nat
    OBVIOUS
  <2>2. 0..n \subseteq Q
    <3> HIDE DEF Q
    <3> QED
      BY <1>1, <1>14, <1>15, <2>1, UpTo
  <2>3. n \in 0..n /\ n > 0
    BY <1>1
  <2> QED
    BY <2>2, <2>3
<1> QED
  BY <1>1, <1>2, <1>6, <1>7, <1>9, <1>12, <1>16

LEMMA ArgzStringifyKeeps == VectorInv /\ Z!ArgzStringify => VectorInv'
<1> SUFFICES ASSUME VectorInv, Z!ArgzStringify PROVE VectorInv'
  OBVIOUS
<1>1. PICK bytes, n, after, strings : bytes = argz /\ n = argz_len /\ after = argz' /\ strings = entries
  OBVIOUS
<1>2. /\ ~astray /\ bytes = Z!Flat(strings) /\ strings \in Seq(Clean) /\ n = Len(bytes) /\ n > 0
      /\ after = [p \in 1..n |-> IF p < n /\ bytes[p] = Z!NUL THEN Delim ELSE bytes[p]]
      /\ entries' = <<Z!Joined(strings)>> /\ argz_len' = n
  BY <1>1 DEF VectorInv, Z!ArgzStringify
<1>3. Len(strings) \in Nat /\ Len(strings) > 0
  <2>1. Len(strings) \in Nat
    BY <1>2, LenProperties
  <2>2. CASE Len(strings) = 0
    <3>1. strings = << >>
      BY <1>2, <2>2, EmptySeq
    <3>2. bytes = << >>
      BY <1>2, <3>1, FlatEmpty
    <3>3. Len(bytes) = 0
      BY <3>2
    <3> QED
      BY <1>2, <3>3
  <2> QED
    BY <2>1, <2>2
<1>4. PICK string : string = Z!Joined(strings)
  OBVIOUS
<1>5. Ends(bytes) /\ string = OneString(bytes)
  BY <1>2, <1>3, <1>4, JoinedIs
<1>6. string \in Clean /\ Strung(bytes) = Z!Bytes(string)
  BY <1>2, <1>5, StrungIs
<1>7. after = Strung(bytes)
  BY <1>2 DEF Strung
<1>8. <<string>> \in Seq(Clean) /\ Z!Flat(<<string>>) = after
  BY <1>6, <1>7, FlatOne
<1>9. Len(after) = n
  <2>1. string \in Text /\ bytes \in Seq(Characters) /\ n \in Nat
    BY <1>2, <1>5, <1>6, CleanIsText, LenProperties DEF Ends, Text
  <2>2. after \in Seq(Characters)
    BY <1>6, <1>7, <2>1, BytesAre DEF Text
  <2>3. DOMAIN after = 1..n /\ DOMAIN after = 1..Len(after) /\ Len(after) \in Nat
    BY <1>2, <2>2, LenProperties
  <2> QED
    BY <2>1, <2>3
<1>10. entries' = <<string>> /\ argz' = after /\ argz_len' = Len(after)
  BY <1>1, <1>2, <1>4, <1>9
<1> QED
  BY <1>8, <1>10 DEF VectorInv

LEMMA VectorSteps == VectorInv /\ [Next]_<<storevars, vector>> => VectorInv'
<1> SUFFICES ASSUME VectorInv, [Next]_<<storevars, vector>> PROVE VectorInv'
  OBVIOUS
<1>1. Z!ArgzNext \/ UNCHANGED vector
  BY DEF Next, UseArgz
<1>2. CASE UNCHANGED vector
  BY <1>2 DEF vector, VectorInv
<1>3. CASE Z!ArgzNext
  BY <1>3, ArgzCreateKeeps, ArgzCreateSepKeeps, ArgzAppendKeeps, ArgzAddSepKeeps,
     ArgzDeleteKeeps, ArgzInsertKeeps, ArgzReplaceKeeps, ArgzStringifyKeeps DEF Z!ArgzNext
<1> QED
  BY <1>1, <1>2, <1>3

\* The walk meets the strings.
LEMMA VectorIsMeant == VectorInv => VectorIsItsStrings
<1> SUFFICES ASSUME VectorInv, ~astray
             PROVE  /\ argz = Z!Flat(entries) /\ argz_len = Len(argz)
                    /\ [k \in DOMAIN Z!Starts |-> Z!StringAt(Z!Starts[k])] = entries
  BY DEF VectorIsItsStrings, Z!VectorIsItsStrings
<1>1. PICK n : n = Len(entries)
  OBVIOUS
<1>2. /\ entries \in Seq(Clean) /\ argz = Z!Flat(entries) /\ argz_len = Len(argz)
      /\ DOMAIN Z!Starts = 1..n /\ DOMAIN entries = 1..n
      /\ \A k \in 1..n : Z!StringAt(Z!Starts[k]) = entries[k]
  BY <1>1, VectorLooks
<1>3. PICK strings, starts : strings = entries /\ starts = Z!Starts
  OBVIOUS
<1>4. strings = [k \in 1..n |-> strings[k]]
  BY <1>2, <1>3
<1>5. [k \in DOMAIN starts |-> Z!StringAt(starts[k])] = [k \in 1..n |-> strings[k]]
  BY <1>2, <1>3
<1> QED
  BY <1>2, <1>3, <1>4, <1>5

(* VectorsCorrect, for any strings, any delimiter and any length: through  *)
(* every sequence of argz calls, those included that fail, the block and   *)
(* its length stay those of the strings in order, and argz_next meets the  *)
(* strings one by one.                                                     *)
THEOREM VectorsCorrect == Spec => []VectorIsItsStrings
<1>1. Init => VectorInv
  BY VectorBegins DEF Init
<1> QED
  BY <1>1, VectorSteps, VectorIsMeant, PTL DEF Spec

\* A step of a string vector is a stutter for the containers of Stores.
LEMMA ContainersAreStores == Spec => StoreSpec
<1>1. Init => StoreInit
  BY DEF Init
<1>2. [Next]_<<storevars, vector>> => [StoreNext]_storevars
  BY DEF Next, UseArgz
<1> QED
  BY <1>1, <1>2, PTL DEF Spec, StoreSpec

(* ContainersCorrect: all six hold of a program with all the containers,   *)
(* to which the steps of string vectors are added.                         *)
THEOREM ContainersCorrect ==
    Spec => [](/\ ElementsHaveOneOwner /\ ServicesAreTheFile /\ SearchIsMap
               /\ ObjectsSurvive /\ ArrayIsTheSet /\ VectorIsItsStrings)
BY ContainersAreStores, ElementsCorrect, ServicesCorrect, SearchCorrect, ObjectsCorrect,
   NodeSetsCorrect, VectorsCorrect, PTL
================================================================================
