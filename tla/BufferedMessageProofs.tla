------------------------ MODULE BufferedMessageProofs ------------------------
(***************************************************************************)
(* A message is written as it was read, whatever the pieces it is read and *)
(* written in, the length of the buffer and the messages that come.        *)
(***************************************************************************)
EXTENDS BufferedMessage, SequenceTheorems, WellFoundedInduction, TLAPS

-----------------------------------------------------------------------------
(***************************************************************************)
(* Parts and their concatenation.                                          *)
(***************************************************************************)
\* Every nonempty set of numbers has a least one ...
LEMMA Least ==
  ASSUME NEW T, T \subseteq Nat, T # {}
  PROVE  \E x \in T : \A y \in T : x <= y
<1>1. \A x, y \in Nat : <<x, y>> \in OpToRel(<, Nat) <=> x < y
  BY DEF OpToRel
<1>2. PICK R : IsWellFoundedOn(R, Nat) /\ \A x, y \in Nat : <<x, y>> \in R <=> x < y
  BY <1>1, NatLessThanWellFounded
<1>3. IsWellFoundedOn(R, Nat)
  BY <1>2
<1>4. \E x \in T : \A y \in T : ~(<<y, x>> \in R)
  BY <1>3, WFMin
<1>5. PICK x \in T : \A y \in T : ~(<<y, x>> \in R)
  BY <1>4
<1>6. \A y \in T : ~(y < x)
  BY <1>2, <1>5
<1> QED
  BY <1>6

\* ... so that a set of numbers with 0 and every successor has them all.
LEMMA Induct ==
  ASSUME NEW T, T \subseteq Nat, 0 \in T, \A n \in T : n + 1 \in T
  PROVE  T = Nat
<1> SUFFICES ASSUME Nat \ T # {} PROVE FALSE
  OBVIOUS
<1>1. \E x \in Nat \ T : \A y \in Nat \ T : x <= y
  BY Least
<1>2. PICK x \in Nat \ T : \A y \in Nat \ T : x <= y
  BY <1>1
<1>3. x # 0 /\ x - 1 \in Nat
  BY <1>2
<1>4. x - 1 \in T
  BY <1>2, <1>3
<1> QED
  BY <1>2, <1>3, <1>4

\* g[i] is the concatenation of the first i parts.
Concats(parts, g) ==
  g = [i \in 1 .. Len(parts) |-> IF i = 1 THEN parts[i] ELSE g[i - 1] \o parts[i]]

\* The first n parts of s and of t are the same.
Alike(s, t, n) == n \in Nat /\ n <= Len(s) /\ n <= Len(t) /\ \A i \in 1 .. n : s[i] = t[i]

\* The concatenations of the first parts depend on these alone.
LEMMA ConcatsAgree ==
  ASSUME NEW s, NEW t, Len(s) \in Nat, Len(t) \in Nat, NEW g, NEW h, Concats(s, g), Concats(t, h),
         NEW n, Alike(s, t, n)
  PROVE  \A i \in 1 .. n : g[i] = h[i]
<1> DEFINE T == {k \in Nat : \A i \in 1 .. n : i <= k => g[i] = h[i]}
<1>1. /\ Len(s) \in Nat /\ Len(t) \in Nat
      /\ n \in Nat /\ n <= Len(s) /\ n <= Len(t) /\ \A i \in 1 .. n : s[i] = t[i]
  BY DEF Alike
<1>2. /\ \A i \in 1 .. n : g[i] = IF i = 1 THEN s[i] ELSE g[i - 1] \o s[i]
      /\ \A i \in 1 .. n : h[i] = IF i = 1 THEN t[i] ELSE h[i - 1] \o t[i]
  <2>1. \A i \in 1 .. n : i \in 1 .. Len(s) /\ i \in 1 .. Len(t)
    BY <1>1
  <2> QED
    BY <2>1 DEF Concats
<1>3. 0 \in T
  BY <1>1
<1>4. ASSUME NEW k \in T PROVE k + 1 \in T
  <2>1. k \in Nat /\ \A i \in 1 .. n : i <= k => g[i] = h[i]
    OBVIOUS
  <2> SUFFICES ASSUME k + 1 \in 1 .. n PROVE g[k + 1] = h[k + 1]
    BY <2>1
  <2>2. CASE k = 0
    BY <1>1, <1>2, <2>2
  <2>3. CASE k # 0
    <3>1. (k + 1) - 1 = k /\ k \in 1 .. n /\ k + 1 # 1
      BY <1>1, <2>1, <2>3
    <3>2. g[k] = h[k] /\ s[k + 1] = t[k + 1]
      BY <1>1, <2>1, <3>1
    <3>3. /\ g[k + 1] = IF k + 1 = 1 THEN s[k + 1] ELSE g[(k + 1) - 1] \o s[k + 1]
          /\ h[k + 1] = IF k + 1 = 1 THEN t[k + 1] ELSE h[(k + 1) - 1] \o t[k + 1]
      BY <1>2
    <3>4. g[k + 1] = g[k] \o s[k + 1] /\ h[k + 1] = h[k] \o t[k + 1]
      BY <3>1, <3>3
    <3> QED
      BY <3>2, <3>4
  <2> QED
    BY <2>1, <2>2, <2>3
<1>5. T = Nat
  <2> HIDE DEF T
  <2>1. T \subseteq Nat
    BY DEF T
  <2> QED
    BY <1>3, <1>4, <2>1, Induct
<1>6. n \in T
  BY <1>1, <1>5
<1> QED
  BY <1>1, <1>6

\* Parts of any number have their concatenations.
LEMMA ConcatsExist ==
  ASSUME NEW S, NEW s \in Seq(Seq(S))
  PROVE  \E g \in [1 .. Len(s) -> Seq(S)] : Concats(s, g)
<1> DEFINE T == {n \in Nat : \A t \in Seq(Seq(S)) :
                               Len(t) = n => \E g \in [1 .. n -> Seq(S)] : Concats(t, g)}
<1>1. 0 \in T
  <2> SUFFICES ASSUME NEW t \in Seq(Seq(S)), Len(t) = 0
               PROVE  \E g \in [1 .. 0 -> Seq(S)] : Concats(t, g)
    OBVIOUS
  <2> DEFINE g == [i \in 1 .. 0 |-> <<>>]
  <2>1. g \in [1 .. 0 -> Seq(S)]
    OBVIOUS
  <2>2. Concats(t, g)
    BY DEF Concats
  <2> QED
    BY <2>1, <2>2
<1>2. ASSUME NEW n \in T PROVE n + 1 \in T
  <2> SUFFICES ASSUME NEW t \in Seq(Seq(S)), Len(t) = n + 1
               PROVE  \E g \in [1 .. n + 1 -> Seq(S)] : Concats(t, g)
    OBVIOUS
  <2> DEFINE front == SubSeq(t, 1, n)
  <2>1. n \in Nat /\ \A i \in 1 .. n + 1 : t[i] \in Seq(S)
    BY ElementOfSeq
  <2>2. front \in Seq(Seq(S)) /\ Len(front) = n /\ \A i \in 1 .. n : front[i] = t[i]
    <3>1. \A i \in 1 .. n : t[i] \in Seq(S)
      BY <2>1
    <3>2. /\ front \in Seq(Seq(S)) /\ Len(front) = IF 1 <= n THEN n - 1 + 1 ELSE 0
          /\ \A i \in 1 .. n - 1 + 1 : front[i] = t[1 + i - 1]
      BY <2>1, <3>1, SubSeqProperties
    <3> QED
      BY <2>1, <3>2
  <2>3. PICK g \in [1 .. n -> Seq(S)] : Concats(front, g)
    BY <2>2
  <2>4. g = [i \in 1 .. n |-> IF i = 1 THEN t[i] ELSE g[i - 1] \o t[i]]
    BY <2>2, <2>3 DEF Concats
  <2> DEFINE h == [i \in 1 .. n + 1 |-> IF i <= n THEN g[i]
                                        ELSE IF n = 0 THEN t[n + 1] ELSE g[n] \o t[n + 1]]
  <2>5. h \in [1 .. n + 1 -> Seq(S)]
    <3>1. n # 0 => g[n] \in Seq(S)
      BY <2>1
    <3>2. t[n + 1] \in Seq(S)
      BY <2>1
    <3>3. n # 0 => g[n] \o t[n + 1] \in Seq(S)
      BY <3>1, <3>2, ConcatProperties
    <3> QED
      BY <2>1, <3>2, <3>3
  <2>6. ASSUME NEW i \in 1 .. n + 1 PROVE h[i] = IF i = 1 THEN t[i] ELSE h[i - 1] \o t[i]
    <3>1. CASE i <= n
      <4>1. i \in 1 .. n /\ (i # 1 => i - 1 \in 1 .. n + 1 /\ i - 1 <= n)
        BY <2>1, <3>1
      <4>2. h[i] = g[i] /\ (i # 1 => h[i - 1] = g[i - 1])
        BY <3>1, <4>1
      <4>3. g[i] = IF i = 1 THEN t[i] ELSE g[i - 1] \o t[i]
        BY <2>4, <4>1
      <4> QED
        BY <4>2, <4>3
    <3>2. CASE ~(i <= n) /\ n = 0
      BY <2>1, <3>2
    <3>3. CASE ~(i <= n) /\ n # 0
      <4>1. i = n + 1 /\ i # 1 /\ i - 1 = n /\ n \in 1 .. n + 1 /\ n <= n
        BY <2>1, <3>3
      <4>2. h[n] = g[n] /\ h[n + 1] = g[n] \o t[n + 1]
        BY <2>1, <3>3, <4>1
      <4> QED
        BY <4>1, <4>2
    <3> QED
      BY <3>1, <3>2, <3>3
  <2>7. Concats(t, h)
    BY <2>6 DEF Concats
  <2> QED
    BY <2>5, <2>7
<1>3. T = Nat
  <2> HIDE DEF T
  <2>1. T \subseteq Nat
    BY DEF T
  <2> QED
    BY <1>1, <1>2, <2>1, Induct
<1>4. Len(s) \in T
  BY <1>3, LenProperties
<1> QED
  BY <1>4

\* The parts put together are the last of their concatenations.
LEMMA FlatIsLast ==
  ASSUME NEW S, NEW s \in Seq(Seq(S)), s # <<>>, NEW g, Concats(s, g)
  PROVE  Flat(s) = g[Len(s)]
<1>1. Len(s) \in Nat \ {0}
  BY EmptySeq
<1> DEFINE c == CHOOSE x : x = [i \in 1 .. Len(s) |-> IF i = 1 THEN s[i] ELSE x[i - 1] \o s[i]]
<1>2. Flat(s) = c[Len(s)]
  BY <1>1 DEF Flat, FlattenSeq
<1>3. Concats(s, c)
  <2>1. g = [i \in 1 .. Len(s) |-> IF i = 1 THEN s[i] ELSE g[i - 1] \o s[i]]
    BY DEF Concats
  <2>2. c = [i \in 1 .. Len(s) |-> IF i = 1 THEN s[i] ELSE c[i - 1] \o s[i]]
    BY <2>1
  <2> HIDE DEF c
  <2> QED
    BY <2>2 DEF Concats
<1> HIDE DEF c
<1>4. \A i \in 1 .. Len(s) : c[i] = g[i]
  <2>1. Alike(s, s, Len(s))
    BY <1>1 DEF Alike
  <2> QED
    BY <1>1, <1>3, <2>1, ConcatsAgree
<1> QED
  BY <1>1, <1>2, <1>4

\* No parts are nothing.
LEMMA FlatNil == Flat(<<>>) = <<>>
  BY DEF Flat, FlattenSeq

\* One part more is at the end.
LEMMA FlatAppend ==
  ASSUME NEW S, NEW s \in Seq(Seq(S)), NEW x \in Seq(S)
  PROVE  /\ Flat(s) \in Seq(S) /\ Flat(Append(s, x)) = Flat(s) \o x
         /\ Flat(Append(s, x)) \in Seq(S)
<1> DEFINE t == Append(s, x)
           n == Len(s)
<1>1. /\ n \in Nat /\ t \in Seq(Seq(S)) /\ t # <<>> /\ Len(t) = n + 1 /\ t[n + 1] = x
      /\ \A i \in 1 .. n : t[i] = s[i]
  BY AppendProperties, LenProperties
<1>2. PICK h : h \in [1 .. n + 1 -> Seq(S)] /\ Concats(t, h)
  BY <1>1, ConcatsExist
<1>3. Flat(t) = h[n + 1]
  BY <1>1, <1>2, FlatIsLast
<1>4. h[n + 1] = IF n + 1 = 1 THEN x ELSE h[(n + 1) - 1] \o x
  <2>1. h = [i \in 1 .. n + 1 |-> IF i = 1 THEN t[i] ELSE h[i - 1] \o t[i]]
    BY <1>1, <1>2 DEF Concats
  <2>2. n + 1 \in 1 .. n + 1
    BY <1>1
  <2> HIDE DEF t
  <2> QED
    BY <1>1, <2>1, <2>2
<1>5. Flat(s) \in Seq(S) /\ Flat(t) = Flat(s) \o x
  <2>1. CASE s = <<>>
    <3>1. Flat(s) = <<>> /\ Flat(t) = x
      BY <1>3, <1>4, <2>1, FlatNil
    <3> QED
      BY <3>1, ConcatEmptySeq, EmptySeq
  <2>2. CASE s # <<>>
    <3>1. PICK g : g \in [1 .. n -> Seq(S)] /\ Concats(s, g)
      BY ConcatsExist
    <3>2. Flat(s) = g[n] /\ n # 0 /\ n \in 1 .. n
      BY <1>1, <2>2, <3>1, FlatIsLast, EmptySeq
    <3>3. g[n] = h[n]
      <4>1. Len(s) \in Nat /\ Len(t) \in Nat
        BY <1>1
      <4>2. Alike(s, t, n)
        BY <1>1 DEF Alike
      <4>3. Concats(s, g) /\ Concats(t, h)
        BY <1>2, <3>1
      <4> HIDE DEF t, n
      <4>4. \A i \in 1 .. n : g[i] = h[i]
        BY <4>1, <4>2, <4>3, ConcatsAgree
      <4> QED
        BY <3>2, <4>4
    <3>4. h[n + 1] = h[n] \o x
      <4>1. n + 1 # 1 /\ (n + 1) - 1 = n
        BY <1>1, <3>2
      <4> QED
        BY <1>4, <4>1
    <3> QED
      BY <1>3, <3>1, <3>2, <3>3, <3>4
  <2> QED
    BY <2>1, <2>2
<1> QED
  BY <1>2, <1>3, <1>5, <1>1

\* The first i parts are those before the i-th, and it.
LEMMA FlatStep ==
  ASSUME NEW S, NEW s \in Seq(Seq(S)), NEW i \in 1 .. Len(s)
  PROVE  /\ Flat(SubSeq(s, 1, i - 1)) \in Seq(S)
         /\ Flat(SubSeq(s, 1, i)) = Flat(SubSeq(s, 1, i - 1)) \o s[i]
<1>1. Len(s) \in Nat /\ s[i] \in Seq(S) /\ i - 1 \in Nat
  BY LenProperties, ElementOfSeq
<1>2. \A j \in 1 .. Len(s) : s[j] \in Seq(S)
  BY ElementOfSeq
<1> DEFINE front == SubSeq(s, 1, i - 1)
<1>3. /\ front \in Seq(Seq(S)) /\ Len(front) = i - 1
      /\ \A j \in 1 .. i - 1 : front[j] = s[j]
  <2>1. \A j \in 1 .. i - 1 : s[j] \in Seq(S)
    BY <1>1, <1>2
  <2>2. /\ front \in Seq(Seq(S)) /\ Len(front) = IF 1 <= i - 1 THEN i - 1 - 1 + 1 ELSE 0
        /\ \A j \in 1 .. i - 1 - 1 + 1 : front[j] = s[1 + j - 1]
    BY <1>1, <2>1, SubSeqProperties
  <2> QED
    BY <1>1, <2>2
<1>4. /\ SubSeq(s, 1, i) \in Seq(Seq(S)) /\ Len(SubSeq(s, 1, i)) = i
      /\ \A j \in 1 .. i : SubSeq(s, 1, i)[j] = s[j]
  <2>1. \A j \in 1 .. i : s[j] \in Seq(S)
    BY <1>1, <1>2
  <2>2. /\ SubSeq(s, 1, i) \in Seq(Seq(S)) /\ Len(SubSeq(s, 1, i)) = IF 1 <= i THEN i - 1 + 1 ELSE 0
        /\ \A j \in 1 .. i - 1 + 1 : SubSeq(s, 1, i)[j] = s[1 + j - 1]
    BY <1>1, <2>1, SubSeqProperties
  <2> QED
    BY <1>1, <2>2
<1>5. SubSeq(s, 1, i) = Append(front, s[i])
  <2>1. /\ Append(front, s[i]) \in Seq(Seq(S)) /\ Len(Append(front, s[i])) = i
        /\ \A j \in 1 .. i - 1 : Append(front, s[i])[j] = front[j]
        /\ Append(front, s[i])[i] = s[i]
    <3> HIDE DEF front
    <3>1. /\ Append(front, s[i]) \in Seq(Seq(S))
          /\ Len(Append(front, s[i])) = Len(front) + 1
          /\ \A j \in 1 .. Len(front) : Append(front, s[i])[j] = front[j]
          /\ Append(front, s[i])[Len(front) + 1] = s[i]
      BY <1>1, <1>3, AppendProperties
    <3> QED
      BY <1>1, <1>3, <3>1
  <2>2. \A j \in 1 .. i : SubSeq(s, 1, i)[j] = Append(front, s[i])[j]
    <3> HIDE DEF front
    <3> TAKE j \in 1 .. i
    <3>1. CASE j = i
      BY <1>1, <1>4, <2>1, <3>1
    <3>2. CASE j # i
      <4>1. j \in 1 .. i - 1 /\ j \in 1 .. i
        BY <1>1, <3>2
      <4> QED
        BY <1>3, <1>4, <2>1, <4>1
    <3> QED
      BY <3>1, <3>2
  <2> HIDE DEF front
  <2> QED
    BY <1>4, <2>1, <2>2, SeqEqual
<1> HIDE DEF front
<1>6. Flat(front) \in Seq(S) /\ Flat(Append(front, s[i])) = Flat(front) \o s[i]
  BY <1>1, <1>3, FlatAppend
<1> QED
  BY <1>5, <1>6 DEF front

\* The parts put together begin with the first i of them.
Cut(S, s, i) ==
  /\ Flat(SubSeq(s, 1, i)) \in Seq(S)
  /\ \E rest \in Seq(S) : Flat(s) = Flat(SubSeq(s, 1, i)) \o rest

\* What begins with i + 1 parts begins with i.
LEMMA FlatCutEarlier ==
  ASSUME NEW S, NEW s, NEW i, NEW k,
         s \in Seq(Seq(S)), i \in 0 .. Len(s) - 1, k = i + 1, Cut(S, s, k)
  PROVE  Cut(S, s, i)
<1>1. k \in 1 .. Len(s) /\ k - 1 = i /\ s[k] \in Seq(S)
  <2>1. k \in 1 .. Len(s) /\ k - 1 = i
    BY LenProperties
  <2> QED
    BY <2>1, ElementOfSeq
<1>2. /\ Flat(SubSeq(s, 1, i)) \in Seq(S)
      /\ Flat(SubSeq(s, 1, k)) = Flat(SubSeq(s, 1, i)) \o s[k]
  <2>1. /\ Flat(SubSeq(s, 1, k - 1)) \in Seq(S)
        /\ Flat(SubSeq(s, 1, k)) = Flat(SubSeq(s, 1, k - 1)) \o s[k]
    BY <1>1, FlatStep
  <2> QED
    BY <1>1, <2>1
<1>3. \E rest \in Seq(S) : Flat(s) = Flat(SubSeq(s, 1, k)) \o rest
  BY DEF Cut
<1>4. PICK rest : rest \in Seq(S) /\ Flat(s) = Flat(SubSeq(s, 1, k)) \o rest
  BY <1>3
<1>5. PICK a, x : a = Flat(SubSeq(s, 1, i)) /\ x = s[k]
  OBVIOUS
<1>6. a \in Seq(S) /\ x \in Seq(S) /\ rest \in Seq(S)
  BY <1>1, <1>2, <1>4, <1>5
<1>7. Flat(s) = (a \o x) \o rest
  BY <1>2, <1>4, <1>5
<1>8. (a \o x) \o rest = a \o (x \o rest)
  BY ONLY <1>6, ConcatAssociative
<1>9. x \o rest \in Seq(S)
  BY ONLY <1>6, ConcatProperties
<1>10. \E r \in Seq(S) : Flat(s) = a \o r
  BY ONLY <1>7, <1>8, <1>9
<1> QED
  BY <1>5, <1>6, <1>10 DEF Cut

\* By induction it begins with any number of its parts.
LEMMA FlatCut ==
  ASSUME NEW S, NEW s \in Seq(Seq(S)), NEW i \in 0 .. Len(s)
  PROVE  /\ Flat(SubSeq(s, 1, i)) \in Seq(S)
         /\ \E rest \in Seq(S) : Flat(s) = Flat(SubSeq(s, 1, i)) \o rest
<1> DEFINE T == {k \in Nat : \A j \in 0 .. Len(s) : Len(s) - j = k => Cut(S, s, j)}
<1>1. Len(s) \in Nat
  BY LenProperties
<1>2. Flat(s) \in Seq(S) /\ <<>> \in Seq(S)
  BY FlatAppend, EmptySeq
<1>3. Cut(S, s, Len(s))
  <2>1. SubSeq(s, 1, Len(s)) = s
    BY SubSeqFull
  <2>2. Flat(s) \o <<>> = Flat(s)
    BY <1>2, ConcatEmptySeq
  <2> QED
    BY <1>2, <2>1, <2>2 DEF Cut
<1>4. ASSUME NEW j \in 0 .. Len(s) - 1, NEW k, k = j + 1, Cut(S, s, k) PROVE Cut(S, s, j)
  BY <1>4, FlatCutEarlier
<1>5. 0 \in T
  BY <1>1, <1>3
<1>6. ASSUME NEW k \in T PROVE k + 1 \in T
  <2> SUFFICES ASSUME NEW j \in 0 .. Len(s), Len(s) - j = k + 1 PROVE Cut(S, s, j)
    OBVIOUS
  <2>1. PICK l : l = j + 1
    OBVIOUS
  <2>2. j \in 0 .. Len(s) - 1 /\ l \in 0 .. Len(s) /\ Len(s) - l = k
    BY <1>1, <2>1
  <2>3. Cut(S, s, l)
    BY <2>2
  <2> QED
    BY <1>4, <2>1, <2>2, <2>3
<1>7. T = Nat
  <2> HIDE DEF T
  <2>1. T \subseteq Nat
    BY DEF T
  <2> QED
    BY <1>5, <1>6, <2>1, Induct
<1>8. Cut(S, s, i)
  <2>1. Len(s) - i \in Nat
    BY <1>1
  <2>2. Len(s) - i \in T
    BY <1>7, <2>1
  <2> QED
    BY <1>1, <2>2
<1> QED
  BY <1>8 DEF Cut

\* The first of some parts put together are of these alone.
LEMMA FrontOfAppend ==
  ASSUME NEW S, NEW s \in Seq(S), NEW x \in S, NEW i \in 0 .. Len(s)
  PROVE  SubSeq(Append(s, x), 1, i) = SubSeq(s, 1, i)
<1> DEFINE t == Append(s, x)
<1>1. /\ Len(s) \in Nat /\ i \in Nat
      /\ \A j \in 1 .. i : t[j] = s[j] /\ s[j] \in S /\ t[j] \in S
  BY LenProperties, AppendProperties, ElementOfSeq
<1> HIDE DEF t
<1>2. /\ SubSeq(t, 1, i) \in Seq(S) /\ Len(SubSeq(t, 1, i)) = IF 1 <= i THEN i - 1 + 1 ELSE 0
      /\ \A j \in 1 .. i - 1 + 1 : SubSeq(t, 1, i)[j] = t[1 + j - 1]
  BY <1>1, SubSeqProperties
<1>3. /\ SubSeq(s, 1, i) \in Seq(S) /\ Len(SubSeq(s, 1, i)) = IF 1 <= i THEN i - 1 + 1 ELSE 0
      /\ \A j \in 1 .. i - 1 + 1 : SubSeq(s, 1, i)[j] = s[1 + j - 1]
  BY <1>1, SubSeqProperties
<1>4. \A j \in 1 .. Len(SubSeq(t, 1, i)) : SubSeq(t, 1, i)[j] = SubSeq(s, 1, i)[j]
  BY <1>1, <1>2, <1>3
<1>5. SubSeq(t, 1, i) = SubSeq(s, 1, i)
  BY <1>1, <1>2, <1>3, <1>4, SeqEqual
<1> QED
  BY <1>5 DEF t

\* A sequence is a prefix of what it begins.
LEMMA PrefixOfConcat ==
  ASSUME NEW S, NEW s \in Seq(S), NEW t \in Seq(S)
  PROVE  IsPrefix(s, s \o t)
<1>1. /\ s \o t \in Seq(S) /\ Len(s \o t) = Len(s) + Len(t) /\ Len(s) \in Nat /\ Len(t) \in Nat
      /\ \A i \in 1 .. Len(s) + Len(t) : (s \o t)[i] = IF i <= Len(s) THEN s[i] ELSE t[i - Len(s)]
  BY ConcatProperties, LenProperties
<1>2. SubSeq(s \o t, 1, Len(s)) = s
  <2>1. \A i \in 1 .. Len(s) : s[i] \in S /\ (s \o t)[i] = s[i] /\ (s \o t)[i] \in S
    BY <1>1, ElementOfSeq
  <2>2. /\ SubSeq(s \o t, 1, Len(s)) \in Seq(S)
        /\ Len(SubSeq(s \o t, 1, Len(s))) = IF 1 <= Len(s) THEN Len(s) - 1 + 1 ELSE 0
        /\ \A i \in 1 .. Len(s) - 1 + 1 : SubSeq(s \o t, 1, Len(s))[i] = (s \o t)[1 + i - 1]
    BY <1>1, <2>1, SubSeqProperties
  <2>3. /\ Len(SubSeq(s \o t, 1, Len(s))) = Len(s)
        /\ \A i \in 1 .. Len(s) : s[i] = SubSeq(s \o t, 1, Len(s))[i]
    BY <1>1, <2>1, <2>2
  <2> QED
    BY <2>2, <2>3, SeqEqual
<1>3. SubSeq(s, 1, Len(s)) = s
  BY SubSeqFull
<1> QED
  BY <1>1, <1>2, <1>3 DEF IsPrefix

\* A piece of a sequence.
LEMMA Window ==
  ASSUME NEW S, NEW t, NEW a, NEW b,
         t \in Seq(S), a \in 1 .. Len(t) + 1, b \in a - 1 .. Len(t)
  PROVE  /\ SubSeq(t, a, b) \in Seq(S) /\ Len(SubSeq(t, a, b)) = b - a + 1
         /\ \A i \in 1 .. b - a + 1 : SubSeq(t, a, b)[i] = t[a + i - 1]
<1>1. Len(t) \in Nat /\ a \in Int /\ b \in Int
  BY LenProperties
<1>2. \A i \in a .. b : t[i] \in S
  <2>1. \A i \in a .. b : i \in 1 .. Len(t)
    BY <1>1
  <2> QED
    BY <2>1, ElementOfSeq
<1>3. /\ SubSeq(t, a, b) \in Seq(S) /\ Len(SubSeq(t, a, b)) = IF a <= b THEN b - a + 1 ELSE 0
      /\ \A i \in 1 .. b - a + 1 : SubSeq(t, a, b)[i] = t[a + i - 1]
  BY <1>1, <1>2, SubSeqProperties
<1> QED
  BY <1>1, <1>3

-----------------------------------------------------------------------------
(***************************************************************************)
(* What comes in, and where its header ends.                               *)
(***************************************************************************)
\* A suffix is the last elements.
LEMMA SuffixIsLast ==
  ASSUME NEW S, NEW s, NEW t, s \in Seq(S), t \in Seq(S), IsSuffix(s, t)
  PROVE  /\ Len(s) <= Len(t)
         /\ \A i \in 0 .. Len(s) - 1 : t[Len(t) - i] = s[Len(s) - i]
<1>1. /\ Len(s) \in Nat /\ Len(t) \in Nat
      /\ \A i \in 1 .. Len(s) : s[i] \in S
      /\ \A i \in 1 .. Len(t) : t[i] \in S
  BY LenProperties, ElementOfSeq
<1>2. /\ Reverse(s) \in Seq(S) /\ Len(Reverse(s)) = Len(s)
      /\ \A i \in 1 .. Len(s) : Reverse(s)[i] = s[(Len(s) - i) + 1]
  BY <1>1 DEF Reverse
<1>3. /\ Reverse(t) \in Seq(S) /\ Len(Reverse(t)) = Len(t)
      /\ \A i \in 1 .. Len(t) : Reverse(t)[i] = t[(Len(t) - i) + 1]
  BY <1>1 DEF Reverse
<1>4. /\ Len(s) <= Len(t)
      /\ SubSeq(Reverse(s), 1, Len(s)) = SubSeq(Reverse(t), 1, Len(s))
  BY <1>2, <1>3 DEF IsSuffix, IsPrefix
<1>5. /\ \A i \in 1 .. Len(s) : SubSeq(Reverse(s), 1, Len(s))[i] = Reverse(s)[i]
      /\ \A i \in 1 .. Len(s) : SubSeq(Reverse(t), 1, Len(s))[i] = Reverse(t)[i]
  <2>1. \A i \in 1 .. Len(s) - 1 + 1 : SubSeq(Reverse(s), 1, Len(s))[i] = Reverse(s)[1 + i - 1]
    BY <1>1, <1>2, Window
  <2>2. \A i \in 1 .. Len(s) - 1 + 1 : SubSeq(Reverse(t), 1, Len(s))[i] = Reverse(t)[1 + i - 1]
    BY <1>1, <1>3, <1>4, Window
  <2> QED
    BY <1>1, <2>1, <2>2
<1>6. ASSUME NEW i \in 0 .. Len(s) - 1 PROVE t[Len(t) - i] = s[Len(s) - i]
  <2>1. i + 1 \in 1 .. Len(s) /\ i + 1 \in 1 .. Len(t)
    BY <1>1, <1>4
  <2>2. Reverse(s)[i + 1] = Reverse(t)[i + 1]
    BY <1>4, <1>5, <2>1
  <2>3. (Len(s) - (i + 1)) + 1 = Len(s) - i /\ (Len(t) - (i + 1)) + 1 = Len(t) - i
    BY <1>1
  <2> QED
    BY <1>2, <1>3, <2>1, <2>2, <2>3
<1> QED
  BY <1>4, <1>6

\* Two tokens that are a blank line.
BlankAt(t, i) == t[i - 1] = "n" /\ t[i] = "n"

\* A blank line, by its two tokens.
LEMMA BlankIs ==
  ASSUME NEW t, t \in Seq(Token), NEW i, i \in 2 .. Len(t)
  PROVE  SubSeq(t, i - 1, i) = Blank <=> BlankAt(t, i)
<1>1. Len(t) \in Nat /\ i - 1 \in 1 .. Len(t) + 1 /\ i \in (i - 1) - 1 .. Len(t)
  BY LenProperties
<1>2. /\ SubSeq(t, i - 1, i) \in Seq(Token) /\ Len(SubSeq(t, i - 1, i)) = i - (i - 1) + 1
      /\ \A j \in 1 .. i - (i - 1) + 1 : SubSeq(t, i - 1, i)[j] = t[(i - 1) + j - 1]
  BY <1>1, Window
<1>3. /\ Len(SubSeq(t, i - 1, i)) = 2
      /\ SubSeq(t, i - 1, i)[1] = t[i - 1] /\ SubSeq(t, i - 1, i)[2] = t[i]
  <2>1. i - (i - 1) + 1 = 2 /\ (i - 1) + 1 - 1 = i - 1 /\ (i - 1) + 2 - 1 = i
    BY <1>1
  <2> QED
    BY <1>2, <2>1
<1>4. Blank \in Seq(Token) /\ Len(Blank) = 2 /\ Blank[1] = "n" /\ Blank[2] = "n"
  BY DEF Blank, Token
<1>5. BlankAt(t, i) => SubSeq(t, i - 1, i) = Blank
  <2> SUFFICES ASSUME BlankAt(t, i) PROVE SubSeq(t, i - 1, i) = Blank
    OBVIOUS
  <2>1. \A j \in 1 .. Len(SubSeq(t, i - 1, i)) : SubSeq(t, i - 1, i)[j] = Blank[j]
    BY <1>3, <1>4 DEF BlankAt
  <2> QED
    BY <1>2, <1>3, <1>4, <2>1, SeqEqual
<1> QED
  BY <1>3, <1>4, <1>5 DEF BlankAt

\* The header ends at its first blank line.
LEMMA EndIsFirst ==
  ASSUME NEW t, t \in Seq(Token)
  PROVE  /\ (\A i \in 2 .. Len(t) : ~BlankAt(t, i)) => EndOfHeader(t) = 0
         /\ \A e \in 2 .. Len(t) : BlankAt(t, e) /\ (\A i \in 2 .. e - 1 : ~BlankAt(t, i))
                                     => EndOfHeader(t) = e
<1> DEFINE ends == {i \in 2 .. Len(t) : SubSeq(t, i - 1, i) = Blank}
<1>1. Len(t) \in Nat /\ ends = {i \in 2 .. Len(t) : BlankAt(t, i)}
  BY BlankIs, LenProperties
<1>2. EndOfHeader(t) = IF ends = {} THEN 0 ELSE CHOOSE i \in ends : \A j \in ends : i <= j
  BY DEF EndOfHeader
<1> HIDE DEF ends
<1>3. ASSUME NEW e \in 2 .. Len(t), BlankAt(t, e), \A i \in 2 .. e - 1 : ~BlankAt(t, i)
      PROVE  EndOfHeader(t) = e
  <2>1. e \in ends /\ \A j \in ends : e <= j
    BY <1>1, <1>3
  <2>2. \A i \in ends : (\A j \in ends : i <= j) => i = e
    BY <1>1, <2>1
  <2> QED
    BY <1>2, <2>1, <2>2
<1> QED
  BY <1>1, <1>2, <1>3

\* What may come: its header ends with its only blank line, and is what comes first.
LEMMA SourceFacts ==
  ASSUME NEW s, s \in Source
  PROVE  /\ s.header \in Seq(Token) /\ s.body \in Seq(Token) /\ s.extra \in Seq(Token)
         /\ Stream(s) \in Seq(Token) /\ Len(Stream(s)) \in Nat
         /\ Len(s.header) \in 2 .. Len(Stream(s)) /\ Len(s.body) \in Nat
         /\ \A i \in 1 .. Len(s.header) : Stream(s)[i] = s.header[i]
         /\ BlankAt(s.header, Len(s.header))
         /\ \A i \in 2 .. Len(s.header) - 1 : ~BlankAt(s.header, i)
<1>1. /\ s.header \in Seq(Token) /\ s.body \in Seq(Token) /\ s.extra \in Seq(Token)
      /\ IsSuffix(Blank, s.header)
      /\ \A i \in 2 .. Len(s.header) - 1 : SubSeq(s.header, i - 1, i) # Blank
  BY SourceAssumption
<1> DEFINE h == s.header
           b == s.body
           x == s.extra
<1>2. h \in Seq(Token) /\ b \in Seq(Token) /\ x \in Seq(Token)
  BY <1>1
<1>3. Len(h) \in Nat /\ Len(b) \in Nat /\ Len(x) \in Nat
  BY <1>2, LenProperties
<1>4. /\ (h \o b) \in Seq(Token) /\ Len(h \o b) = Len(h) + Len(b)
      /\ \A i \in 1 .. Len(h) + Len(b) : (h \o b)[i] = IF i <= Len(h) THEN h[i] ELSE b[i - Len(h)]
  <2> HIDE DEF h, b
  <2> QED
    BY <1>2, ConcatProperties
<1>5. /\ (h \o b) \o x \in Seq(Token) /\ Len((h \o b) \o x) = Len(h \o b) + Len(x)
      /\ \A i \in 1 .. Len(h \o b) + Len(x) :
           ((h \o b) \o x)[i] = IF i <= Len(h \o b) THEN (h \o b)[i] ELSE x[i - Len(h \o b)]
  <2> HIDE DEF h, b, x
  <2> QED
    BY <1>2, <1>4, ConcatProperties
<1>6. Stream(s) = (h \o b) \o x
  BY DEF Stream
<1>7. /\ Stream(s) \in Seq(Token) /\ Len(Stream(s)) = Len(h) + Len(b) + Len(x)
      /\ \A i \in 1 .. Len(h) : Stream(s)[i] = h[i]
  <2> HIDE DEF h, b, x
  <2> QED
    BY <1>3, <1>4, <1>5, <1>6
<1>8. Blank \in Seq(Token) /\ Len(Blank) = 2 /\ Blank[1] = "n" /\ Blank[2] = "n"
  BY DEF Blank, Token
<1>9. 2 <= Len(h) /\ \A i \in 0 .. 2 - 1 : h[Len(h) - i] = Blank[2 - i]
  <2>1. Len(Blank) <= Len(h) /\ \A i \in 0 .. Len(Blank) - 1 : h[Len(h) - i] = Blank[Len(Blank) - i]
    <3>1. Blank \in Seq(Token) /\ h \in Seq(Token) /\ IsSuffix(Blank, h)
      BY <1>1, <1>8
    <3> HIDE DEF h
    <3> QED
      BY ONLY <3>1, SuffixIsLast
  <2> QED
    BY <1>8, <2>1
<1>10. BlankAt(h, Len(h))
  <2>1. h[Len(h) - 0] = Blank[2 - 0] /\ h[Len(h) - 1] = Blank[2 - 1]
    BY <1>9
  <2> QED
    BY <1>3, <1>8, <2>1 DEF BlankAt
<1>11. \A i \in 2 .. Len(h) - 1 : ~BlankAt(h, i)
  <2>1. \A i \in 2 .. Len(h) - 1 : i \in 2 .. Len(h)
    BY <1>3
  <2> QED
    BY <1>1, <2>1, BlankIs
<1>12. Len(Stream(s)) \in Nat /\ Len(h) \in 2 .. Len(Stream(s))
  <2> HIDE DEF h, b, x
  <2> QED
    BY <1>3, <1>7, <1>9
<1> QED
  BY <1>1, <1>3, <1>7, <1>10, <1>11, <1>12

\* What was read up to a place.
LEMMA SeenFacts ==
  ASSUME NEW s, s \in Source, NEW p, p \in 0 .. Len(Stream(s))
  PROVE  /\ SubSeq(Stream(s), 1, p) \in Seq(Token) /\ Len(SubSeq(Stream(s), 1, p)) = p
         /\ \A i \in 1 .. p : SubSeq(Stream(s), 1, p)[i] = Stream(s)[i]
<1>1. Stream(s) \in Seq(Token) /\ Len(Stream(s)) \in Nat
  BY SourceFacts
<1>2. 1 \in 1 .. Len(Stream(s)) + 1 /\ p \in 1 - 1 .. Len(Stream(s))
  BY <1>1
<1>3. /\ SubSeq(Stream(s), 1, p) \in Seq(Token) /\ Len(SubSeq(Stream(s), 1, p)) = p - 1 + 1
      /\ \A i \in 1 .. p - 1 + 1 : SubSeq(Stream(s), 1, p)[i] = Stream(s)[1 + i - 1]
  BY ONLY <1>1, <1>2, Window
<1> QED
  BY <1>1, <1>3

\* In the header there is no blank line yet, and its last tokens are the first.
LEMMA BlankInSeen ==
  ASSUME NEW s, s \in Source, NEW p, p \in 0 .. Len(Stream(s)), NEW i, i \in 2 .. p,
         i <= Len(s.header)
  PROVE  BlankAt(SubSeq(Stream(s), 1, p), i) <=> i = Len(s.header)
<1> DEFINE t == SubSeq(Stream(s), 1, p)
           e == Len(s.header)
<1>1. /\ Len(Stream(s)) \in Nat /\ e \in 2 .. Len(Stream(s))
      /\ \A j \in 1 .. e : Stream(s)[j] = s.header[j]
      /\ BlankAt(s.header, e) /\ \A j \in 2 .. e - 1 : ~BlankAt(s.header, j)
  BY SourceFacts
<1>2. \A j \in 1 .. p : t[j] = Stream(s)[j]
  BY SeenFacts
<1> HIDE DEF t
<1>3. i \in 1 .. p /\ i - 1 \in 1 .. p /\ i \in 1 .. e /\ i - 1 \in 1 .. e
  BY <1>1
<1>4. t[i] = s.header[i] /\ t[i - 1] = s.header[i - 1]
  BY <1>1, <1>2, <1>3
<1>5. BlankAt(t, i) <=> BlankAt(s.header, i)
  BY <1>4 DEF BlankAt
<1>6. i # e => i \in 2 .. e - 1
  BY <1>1
<1> QED
  BY <1>1, <1>5, <1>6 DEF t

\* The header ends, in what was read, once all of it was read.
LEMMA EndOfSeen ==
  ASSUME NEW s, s \in Source, NEW p, p \in 0 .. Len(Stream(s))
  PROVE  EndOfHeader(SubSeq(Stream(s), 1, p)) = IF p >= Len(s.header) THEN Len(s.header) ELSE 0
<1> DEFINE t == SubSeq(Stream(s), 1, p)
           e == Len(s.header)
<1>1. Len(Stream(s)) \in Nat /\ e \in 2 .. Len(Stream(s))
  BY SourceFacts
<1>2. t \in Seq(Token) /\ Len(t) = p
  BY SeenFacts
<1>3. \A i \in 2 .. p : i <= e => (BlankAt(t, i) <=> i = e)
  BY BlankInSeen
<1> HIDE DEF t, e
<1>4. CASE p >= e
  <2>1. e \in 2 .. Len(t) /\ BlankAt(t, e)
    BY <1>1, <1>2, <1>3, <1>4
  <2>2. \A i \in 2 .. e - 1 : ~BlankAt(t, i)
    <3>1. \A i \in 2 .. e - 1 : i \in 2 .. p /\ i <= e /\ i # e
      BY <1>1, <1>4
    <3> QED
      BY <1>3, <3>1
  <2>3. EndOfHeader(t) = e
    BY <1>2, <2>1, <2>2, EndIsFirst
  <2> QED
    BY <1>4, <2>3 DEF t, e
<1>5. CASE ~(p >= e)
  <2>1. \A i \in 2 .. Len(t) : ~BlankAt(t, i)
    BY <1>1, <1>2, <1>3, <1>5
  <2>2. EndOfHeader(t) = 0
    BY <1>2, <2>1, EndIsFirst
  <2> QED
    BY <1>5, <2>2 DEF t, e
<1> QED
  BY <1>4, <1>5

\* What was read and what is read next.
LEMMA SeenGrows ==
  ASSUME NEW s, s \in Source, NEW a, NEW p, NEW q, a \in 1 .. Len(Stream(s)) + 1,
         p \in a - 1 .. Len(Stream(s)), q \in p .. Len(Stream(s))
  PROVE  /\ SubSeq(Stream(s), a, p) \in Seq(Token) /\ SubSeq(Stream(s), p + 1, q) \in Seq(Token)
         /\ Len(SubSeq(Stream(s), p + 1, q)) = q - p
         /\ SubSeq(Stream(s), a, p) \o SubSeq(Stream(s), p + 1, q) = SubSeq(Stream(s), a, q)
<1>1. Stream(s) \in Seq(Token) /\ Len(Stream(s)) \in Nat
  BY SourceFacts
<1>2. PICK t : t = Stream(s)
  OBVIOUS
<1>3. /\ t \in Seq(Token) /\ a \in 1 .. Len(t) + 1 /\ p \in a - 1 .. Len(t) /\ q \in p .. Len(t)
      /\ p + 1 \in 1 .. Len(t) + 1 /\ q \in (p + 1) - 1 .. Len(t) /\ q - (p + 1) + 1 = q - p
  BY <1>1, <1>2
<1>4. SubSeq(t, a, p) \in Seq(Token)
  BY ONLY <1>3, Window
<1>5. SubSeq(t, p + 1, q) \in Seq(Token) /\ Len(SubSeq(t, p + 1, q)) = q - (p + 1) + 1
  BY ONLY <1>3, Window
<1>6. SubSeq(t, a, p) \o SubSeq(t, p + 1, q) = SubSeq(t, a, q)
  BY ONLY <1>3, ConcatAdjacentSubSeq
<1> QED
  BY <1>2, <1>3, <1>4, <1>5, <1>6

\* The header of what was read, and what is behind it.
LEMMA SeenSplit ==
  ASSUME NEW s, s \in Source, NEW p, p \in Len(s.header) .. Len(Stream(s))
  PROVE  LET seen == SubSeq(Stream(s), 1, p) IN
         /\ SubSeq(seen, 1, Len(s.header)) = s.header
         /\ SubSeq(seen, Len(s.header) + 1, Len(seen)) = SubSeq(Stream(s), Len(s.header) + 1, p)
<1>1. /\ s.header \in Seq(Token) /\ Stream(s) \in Seq(Token) /\ Len(Stream(s)) \in Nat
      /\ Len(s.header) \in 2 .. Len(Stream(s))
      /\ \A i \in 1 .. Len(s.header) : Stream(s)[i] = s.header[i]
  BY SourceFacts
<1>2. PICK t : t = Stream(s)
  OBVIOUS
<1>3. PICK h : h = s.header
  OBVIOUS
<1>4. PICK u : u = SubSeq(t, 1, p)
  OBVIOUS
<1>5. /\ h \in Seq(Token) /\ t \in Seq(Token) /\ Len(t) \in Nat /\ Len(h) \in 2 .. Len(t)
      /\ p \in Len(h) .. Len(t) /\ \A i \in 1 .. Len(h) : t[i] = h[i]
  BY <1>1, <1>2, <1>3
<1>6. u \in Seq(Token) /\ Len(u) = p /\ \A i \in 1 .. p : u[i] = t[i]
  BY <1>2, <1>4, <1>5, SeenFacts
<1>7. SubSeq(u, 1, Len(h)) = h
  <2>1. 1 \in 1 .. Len(u) + 1 /\ Len(h) \in 1 - 1 .. Len(u)
    BY <1>5, <1>6
  <2>2. /\ SubSeq(u, 1, Len(h)) \in Seq(Token) /\ Len(SubSeq(u, 1, Len(h))) = Len(h) - 1 + 1
        /\ \A i \in 1 .. Len(h) - 1 + 1 : SubSeq(u, 1, Len(h))[i] = u[1 + i - 1]
    BY ONLY <1>6, <2>1, Window
  <2>3. \A i \in 1 .. Len(h) : i \in 1 .. p /\ 1 + i - 1 = i
    BY <1>5
  <2>4. /\ Len(SubSeq(u, 1, Len(h))) = Len(h)
        /\ \A i \in 1 .. Len(SubSeq(u, 1, Len(h))) : SubSeq(u, 1, Len(h))[i] = h[i]
    BY <1>5, <1>6, <2>2, <2>3
  <2> QED
    BY ONLY <1>5, <2>2, <2>4, SeqEqual
<1>8. SubSeq(u, Len(h) + 1, p) = SubSeq(t, Len(h) + 1, p)
  <2>1. /\ Len(h) + 1 \in 1 .. Len(u) + 1 /\ p \in (Len(h) + 1) - 1 .. Len(u)
        /\ Len(h) + 1 \in 1 .. Len(t) + 1 /\ p \in (Len(h) + 1) - 1 .. Len(t)
    BY <1>5, <1>6
  <2>2. /\ SubSeq(u, Len(h) + 1, p) \in Seq(Token)
        /\ Len(SubSeq(u, Len(h) + 1, p)) = p - (Len(h) + 1) + 1
        /\ \A i \in 1 .. p - (Len(h) + 1) + 1 :
              SubSeq(u, Len(h) + 1, p)[i] = u[(Len(h) + 1) + i - 1]
    BY ONLY <1>6, <2>1, Window
  <2>3. /\ SubSeq(t, Len(h) + 1, p) \in Seq(Token)
        /\ Len(SubSeq(t, Len(h) + 1, p)) = p - (Len(h) + 1) + 1
        /\ \A i \in 1 .. p - (Len(h) + 1) + 1 :
              SubSeq(t, Len(h) + 1, p)[i] = t[(Len(h) + 1) + i - 1]
    BY ONLY <1>5, <2>1, Window
  <2>4. \A i \in 1 .. p - (Len(h) + 1) + 1 : (Len(h) + 1) + i - 1 \in 1 .. p
    BY <1>5
  <2>5. \A i \in 1 .. Len(SubSeq(u, Len(h) + 1, p)) :
          SubSeq(u, Len(h) + 1, p)[i] = SubSeq(t, Len(h) + 1, p)[i]
    BY <1>6, <2>2, <2>3, <2>4
  <2>6. Len(SubSeq(u, Len(h) + 1, p)) = Len(SubSeq(t, Len(h) + 1, p))
    BY <2>2, <2>3
  <2> QED
    BY ONLY <2>2, <2>3, <2>5, <2>6, SeqEqual
<1> QED
  BY <1>2, <1>3, <1>4, <1>6, <1>7, <1>8

\* Rewriting keeps the length of a header.
LEMMA RewrittenFacts ==
  ASSUME NEW h, h \in Seq(Token)
  PROVE  Rewritten(h) \in Seq(Token) /\ Len(Rewritten(h)) = Len(h)
<1>1. Len(h) \in Nat /\ DOMAIN h = 1 .. Len(h) /\ \A i \in 1 .. Len(h) : h[i] \in Token
  BY LenProperties, ElementOfSeq
<1>2. Rewritten(h) \in [1 .. Len(h) -> Token]
  BY <1>1 DEF Rewritten, Token
<1> QED
  BY <1>1, <1>2

-----------------------------------------------------------------------------
(***************************************************************************)
(* What was written of the parts.                                          *)
(***************************************************************************)
Part == Seq(Token) \ {<<>>}

Message == [header_length : Nat, body_length : Nat, read : Nat, buffer : Seq(Token),
            write_length : Nat, cur_part : Nat, cache : Seq(Part)]

\* The position is in a part that is not written to its end, or behind the last.
Placed(msg) ==
  /\ msg.cur_part \in 1 .. Len(msg.cache) + 1
  /\ IF msg.cur_part <= Len(msg.cache)
       THEN msg.write_length < Len(msg.cache[msg.cur_part]) ELSE msg.write_length = 0

\* The parts before the current one and its beginning.
Begun(msg) == IF msg.write_length = 0 THEN <<>>
              ELSE SubSeq(msg.cache[msg.cur_part], 1, msg.write_length)
Told(msg)  == Flat(SubSeq(msg.cache, 1, msg.cur_part - 1)) \o Begun(msg)

\* Parts are sequences of tokens.
LEMMA PartFacts ==
  ASSUME NEW parts, parts \in Seq(Part)
  PROVE  /\ parts \in Seq(Seq(Token)) /\ Len(parts) \in Nat
         /\ \A i \in 1 .. Len(parts) : /\ parts[i] \in Seq(Token) /\ parts[i] # <<>>
                                       /\ Len(parts[i]) \in Nat \ {0}
         /\ Flat(parts) \in Seq(Token)
<1>1. parts \in Seq(Seq(Token))
  <2>1. Part \subseteq Seq(Token)
    BY DEF Part
  <2> QED
    BY <2>1, SeqMonotonic
<1>2. Len(parts) \in Nat /\ \A i \in 1 .. Len(parts) : parts[i] \in Part
  BY LenProperties, ElementOfSeq
<1>3. \A i \in 1 .. Len(parts) : parts[i] \in Seq(Token) /\ parts[i] # <<>>
  BY <1>2 DEF Part
<1>4. \A i \in 1 .. Len(parts) : Len(parts[i]) \in Nat \ {0}
  BY <1>3, EmptySeq
<1>5. Flat(parts) \in Seq(Token)
  BY <1>1, FlatAppend, EmptySeq
<1> QED
  BY <1>1, <1>2, <1>3, <1>4, <1>5

\* What was written begins the whole, is as long as the position says, and is the
\* whole behind the last part.
LEMMA ToldFacts ==
  ASSUME NEW msg, msg \in Message, Placed(msg)
  PROVE  /\ Told(msg) \in Seq(Token)
         /\ Len(Told(msg)) = Len(Flat(SubSeq(msg.cache, 1, msg.cur_part - 1))) + msg.write_length
         /\ IsPrefix(Told(msg), Flat(msg.cache))
         /\ msg.cur_part = Len(msg.cache) + 1 => Told(msg) = Flat(msg.cache)
<1> DEFINE s == msg.cache
           i == msg.cur_part
           w == msg.write_length
           a == Flat(SubSeq(s, 1, i - 1))
<1>1. /\ s \in Seq(Seq(Token)) /\ Len(s) \in Nat /\ i \in 1 .. Len(s) + 1 /\ w \in Nat
      /\ \A j \in 1 .. Len(s) : s[j] \in Seq(Token) /\ Len(s[j]) \in Nat \ {0}
      /\ IF i <= Len(s) THEN w < Len(s[i]) ELSE w = 0
  BY PartFacts DEF Message, Placed
<1>2. Told(msg) = a \o (IF w = 0 THEN <<>> ELSE SubSeq(s[i], 1, w))
  BY DEF Told, Begun
<1> HIDE DEF s, i, w
<1>3. a \in Seq(Token) /\ \E rest \in Seq(Token) : Flat(s) = a \o rest
  <2>1. i - 1 \in 0 .. Len(s)
    BY <1>1
  <2>2. s \in Seq(Seq(Token))
    BY <1>1
  <2> HIDE DEF a
  <2>3. /\ Flat(SubSeq(s, 1, i - 1)) \in Seq(Token)
        /\ \E rest \in Seq(Token) : Flat(s) = Flat(SubSeq(s, 1, i - 1)) \o rest
    BY ONLY <2>1, <2>2, FlatCut
  <2> QED
    BY <2>3 DEF a
<1>4. i = Len(s) + 1 => a = Flat(s)
  <2> SUFFICES ASSUME i = Len(s) + 1 PROVE a = Flat(s)
    OBVIOUS
  <2>1. i - 1 = Len(s)
    BY <1>1
  <2>2. SubSeq(s, 1, Len(s)) = s
    BY <1>1, SubSeqFull
  <2> QED
    BY <2>1, <2>2
<1>5. i <= Len(s) => \E rest \in Seq(Token) : Flat(s) = (a \o s[i]) \o rest
  <2> SUFFICES ASSUME i <= Len(s) PROVE \E rest \in Seq(Token) : Flat(s) = (a \o s[i]) \o rest
    OBVIOUS
  <2>1. s \in Seq(Seq(Token)) /\ i \in 1 .. Len(s) /\ i \in 0 .. Len(s)
    BY <1>1
  <2>2. Flat(SubSeq(s, 1, i)) = Flat(SubSeq(s, 1, i - 1)) \o s[i]
    BY ONLY <2>1, FlatStep
  <2>3. \E rest \in Seq(Token) : Flat(s) = Flat(SubSeq(s, 1, i)) \o rest
    BY ONLY <2>1, FlatCut
  <2> QED
    BY <2>2, <2>3
<1> HIDE DEF a
<1>6. CASE w = 0
  <2>1. Told(msg) = a
    BY <1>2, <1>3, <1>6, ConcatEmptySeq
  <2>2. Len(a) \in Nat /\ IsPrefix(a, Flat(s))
    BY <1>3, LenProperties, PrefixOfConcat
  <2> QED
    BY <1>3, <1>4, <1>6, <2>1, <2>2 DEF a, s, i, w
<1>7. CASE w # 0
  <2>1. i \in 1 .. Len(s) /\ w \in 1 .. Len(s[i]) - 1 /\ s[i] \in Seq(Token) /\ Len(s[i]) \in Nat
    BY <1>1, <1>7
  <2>2. PICK x : x = s[i]
    OBVIOUS
  <2>3. x \in Seq(Token) /\ Len(x) \in Nat /\ w \in 1 .. Len(x) - 1
    BY <2>1, <2>2
  <2>4. PICK b : b = SubSeq(x, 1, w)
    OBVIOUS
  <2>5. PICK c : c = SubSeq(x, w + 1, Len(x))
    OBVIOUS
  <2>6. b \in Seq(Token) /\ Len(b) = w
    <3>1. 1 \in 1 .. Len(x) + 1 /\ w \in 1 - 1 .. Len(x)
      BY <2>3
    <3>2. SubSeq(x, 1, w) \in Seq(Token) /\ Len(SubSeq(x, 1, w)) = w - 1 + 1
      BY <2>3, <3>1, Window
    <3> QED
      BY <2>3, <2>4, <3>2
  <2>7. c \in Seq(Token)
    <3>1. w + 1 \in 1 .. Len(x) + 1 /\ Len(x) \in (w + 1) - 1 .. Len(x)
      BY <2>3
    <3> QED
      BY <2>3, <2>5, <3>1, Window
  <2>8. x = b \o c
    <3>1. 1 \in 1 .. Len(x) + 1 /\ w \in 1 - 1 .. Len(x) /\ Len(x) \in w .. Len(x)
      BY <2>3
    <3>2. SubSeq(x, 1, w) \o SubSeq(x, w + 1, Len(x)) = SubSeq(x, 1, Len(x))
      BY <2>3, <3>1, ConcatAdjacentSubSeq
    <3>3. SubSeq(x, 1, Len(x)) = x
      BY <2>3, SubSeqFull
    <3> QED
      BY <2>4, <2>5, <3>2, <3>3
  <2>9. PICK rest \in Seq(Token) : Flat(s) = (a \o x) \o rest
    <3>1. \E rest \in Seq(Token) : Flat(s) = (a \o s[i]) \o rest
      <4>1. i <= Len(s)
        BY <1>1, <2>1
      <4> QED
        BY ONLY <1>5, <4>1
    <3> QED
      BY <2>2, <3>1
  <2>10. a \in Seq(Token) /\ b \in Seq(Token) /\ c \in Seq(Token) /\ rest \in Seq(Token)
    BY <1>3, <2>6, <2>7, <2>9
  <2>11. (a \o (b \o c)) \o rest = (a \o b) \o (c \o rest)
    <3>1. PICK ab : ab = a \o b
      OBVIOUS
    <3>2. ab \in Seq(Token)
      BY <2>10, <3>1, ConcatProperties
    <3>3. (a \o b) \o c = a \o (b \o c)
      BY ONLY <2>10, ConcatAssociative
    <3>4. (ab \o c) \o rest = ab \o (c \o rest)
      BY ONLY <2>10, <3>2, ConcatAssociative
    <3> QED
      BY ONLY <3>1, <3>3, <3>4
  <2>12. Told(msg) = a \o b
    BY <1>2, <1>7, <2>2, <2>4
  <2>13. IsPrefix(a \o b, Flat(s))
    <3>1. a \o b \in Seq(Token) /\ c \o rest \in Seq(Token)
      BY ONLY <2>10, ConcatProperties
    <3>2. IsPrefix(a \o b, (a \o b) \o (c \o rest))
      BY ONLY <3>1, PrefixOfConcat
    <3> QED
      BY <2>8, <2>9, <2>11, <3>2
  <2>14. a \o b \in Seq(Token) /\ Len(a \o b) = Len(a) + Len(b)
    BY ONLY <2>10, ConcatProperties
  <2> QED
    BY <1>1, <2>1, <2>6, <2>12, <2>13, <2>14 DEF a, s, i, w
<1> QED
  BY <1>6, <1>7

\* One part more changes nothing of what was written.
LEMMA AppendTold ==
  ASSUME NEW msg, msg \in Message, Placed(msg), NEW part, part \in Part,
         NEW next, next.cache = Append(msg.cache, part),
         next.cur_part = msg.cur_part, next.write_length = msg.write_length
  PROVE  /\ Placed(next) /\ Told(next) = Told(msg)
         /\ next.cache \in Seq(Part) /\ Len(next.cache) = Len(msg.cache) + 1
         /\ Flat(next.cache) = Flat(msg.cache) \o part
<1>1. PICK s : s = msg.cache
  OBVIOUS
<1>2. PICK i : i = msg.cur_part
  OBVIOUS
<1>3. /\ s \in Seq(Part) /\ s \in Seq(Seq(Token)) /\ Len(s) \in Nat /\ i \in 1 .. Len(s) + 1
      /\ part \in Seq(Token) /\ Len(part) \in Nat \ {0} /\ part \in Part
  <2>1. s \in Seq(Part) /\ i \in 1 .. Len(s) + 1
    BY <1>1, <1>2 DEF Message, Placed
  <2>2. part \in Seq(Token) /\ part # <<>>
    BY DEF Part
  <2>3. Len(part) \in Nat \ {0}
    BY ONLY <2>2, EmptySeq
  <2> QED
    BY <2>1, <2>2, <2>3, PartFacts
<1>4. /\ Append(s, part) \in Seq(Part) /\ Len(Append(s, part)) = Len(s) + 1
      /\ \A j \in 1 .. Len(s) : Append(s, part)[j] = s[j]
      /\ Append(s, part)[Len(s) + 1] = part
  BY ONLY <1>3, AppendProperties
<1>5. Flat(Append(s, part)) = Flat(s) \o part
  BY ONLY <1>3, FlatAppend
<1>6. SubSeq(Append(s, part), 1, i - 1) = SubSeq(s, 1, i - 1)
  <2>1. i - 1 \in 0 .. Len(s)
    BY <1>3
  <2> QED
    BY ONLY <1>3, <2>1, FrontOfAppend
<1>7. PICK t : t = Append(s, part)
  OBVIOUS
<1>8. next.cache = t /\ next.cur_part = i /\ next.write_length = msg.write_length
  BY <1>1, <1>2, <1>7
<1>9. msg.write_length \in Nat
  BY DEF Message
<1>10. IF i <= Len(s) THEN msg.write_length < Len(s[i]) ELSE msg.write_length = 0
  BY <1>1, <1>2 DEF Placed
<1>11. Placed(next)
  <2>1. CASE i <= Len(s)
    <3>1. i \in 1 .. Len(s) /\ i \in 1 .. Len(t) + 1 /\ i <= Len(t) /\ t[i] = s[i]
      BY <1>3, <1>4, <1>7, <2>1
    <3> QED
      BY <1>8, <1>10, <2>1, <3>1 DEF Placed
  <2>2. CASE ~(i <= Len(s))
    <3>1. /\ i = Len(s) + 1 /\ i \in 1 .. Len(t) + 1 /\ i <= Len(t) /\ t[i] = part
          /\ msg.write_length = 0 /\ 0 < Len(part)
      BY <1>3, <1>4, <1>7, <1>10, <2>2
    <3> QED
      BY <1>8, <3>1 DEF Placed
  <2> QED
    BY <2>1, <2>2
<1>12. Begun(next) = Begun(msg)
  <2>1. CASE msg.write_length = 0
    BY <1>8, <2>1 DEF Begun
  <2>2. CASE msg.write_length # 0
    <3>1. i \in 1 .. Len(s)
      BY <1>3, <1>10, <2>2
    <3>2. t[i] = s[i]
      BY <1>4, <1>7, <3>1
    <3> QED
      BY <1>1, <1>2, <1>8, <3>2 DEF Begun
  <2> QED
    BY <2>1, <2>2
<1>13. Told(next) = Told(msg)
  BY <1>1, <1>2, <1>6, <1>7, <1>8, <1>12 DEF Told
<1> QED
  BY <1>1, <1>4, <1>5, <1>7, <1>8, <1>11, <1>13

\* A message of which only the position changes.
Moved(msg, i, w) == [msg EXCEPT !.cur_part = i, !.write_length = w]

\* It is a message still ...
LEMMA MovedFacts ==
  ASSUME NEW msg, msg \in Message, NEW i, i \in Nat, NEW w, w \in Nat
  PROVE  /\ Moved(msg, i, w) \in Message /\ Moved(msg, i, w).cache = msg.cache
         /\ Moved(msg, i, w).cur_part = i /\ Moved(msg, i, w).write_length = w
<1> DEFINE Tokens == Seq(Token)
           Parts  == Seq(Part)
<1>1. msg \in [header_length : Nat, body_length : Nat, read : Nat, buffer : Tokens,
              write_length : Nat, cur_part : Nat, cache : Parts]
  BY DEF Message
<1> HIDE DEF Tokens, Parts
<1>2. Moved(msg, i, w) \in [header_length : Nat, body_length : Nat, read : Nat, buffer : Tokens,
                           write_length : Nat, cur_part : Nat, cache : Parts]
  BY <1>1 DEF Moved
<1>3. /\ Moved(msg, i, w).cache = msg.cache
      /\ Moved(msg, i, w).cur_part = i /\ Moved(msg, i, w).write_length = w
  BY <1>1 DEF Moved
<1> QED
  BY <1>2, <1>3 DEF Message, Tokens, Parts

\* ... that holds what it held.
LEMMA MovedKeeps ==
  ASSUME NEW msg, msg \in Message, NEW i, NEW w, NEW next, next = Moved(msg, i, w)
  PROVE  /\ next.header_length = msg.header_length /\ next.body_length = msg.body_length
         /\ next.read = msg.read /\ next.buffer = msg.buffer /\ next.cache = msg.cache
<1> DEFINE Tokens == Seq(Token)
           Parts  == Seq(Part)
<1>1. msg \in [header_length : Nat, body_length : Nat, read : Nat, buffer : Tokens,
              write_length : Nat, cur_part : Nat, cache : Parts]
  BY DEF Message
<1> HIDE DEF Tokens, Parts
<1> QED
  BY <1>1 DEF Moved

\* write_to() goes on behind what was written, in the part or with the next one.
LEMMA WriteTold ==
  ASSUME NEW msg, msg \in Message, Placed(msg), NEW k, k \in 1 .. Left(msg)
  PROVE  \E next \in Message :
           /\ WriteTo(msg, k) = next /\ Placed(next) /\ Told(next) = Told(msg) \o Written(msg, k)
           /\ \E i \in Nat, w \in Nat : next = Moved(msg, i, w)
<1>1. PICK s : s = msg.cache
  OBVIOUS
<1>2. PICK i : i = msg.cur_part
  OBVIOUS
<1>3. PICK w : w = msg.write_length
  OBVIOUS
<1>4. /\ s \in Seq(Part) /\ s \in Seq(Seq(Token)) /\ Len(s) \in Nat /\ i \in 1 .. Len(s) + 1 /\ w \in Nat
      /\ \A j \in 1 .. Len(s) : s[j] \in Seq(Token) /\ Len(s[j]) \in Nat \ {0}
  <2>1. s \in Seq(Part) /\ w \in Nat
    BY <1>1, <1>3 DEF Message
  <2>2. i \in 1 .. Len(s) + 1
    BY <1>1, <1>2 DEF Placed
  <2> QED
    BY <2>1, <2>2, PartFacts
<1>5. /\ i \in 1 .. Len(s) /\ Left(msg) = Len(s[i]) - w /\ w < Len(s[i])
  <2>1. i <= Len(s)
    <3>1. ~(i <= Len(s)) => Left(msg) = 0
      BY <1>1, <1>2 DEF Left
    <3> QED
      BY <1>4, <3>1
  <2>2. Left(msg) = Len(s[i]) - w
    BY <1>1, <1>2, <1>3, <2>1 DEF Left
  <2>3. w < Len(s[i])
    BY <1>1, <1>2, <1>3, <2>1 DEF Placed
  <2> QED
    BY <1>4, <2>1, <2>2, <2>3
<1>6. PICK x : x = s[i]
  OBVIOUS
<1>7. x \in Seq(Token) /\ Len(x) \in Nat \ {0} /\ w \in 0 .. Len(x) - 1 /\ w + k \in w + 1 .. Len(x)
      /\ k \in Nat \ {0} /\ (k = Left(msg) <=> w + k = Len(x))
  BY <1>4, <1>5, <1>6
<1>8. PICK a : a = Flat(SubSeq(s, 1, i - 1))
  OBVIOUS
<1>9. PICK b : b = SubSeq(x, 1, w)
  OBVIOUS
<1>10. PICK c : c = SubSeq(x, w + 1, w + k)
  OBVIOUS
<1>11. a \in Seq(Token) /\ b \in Seq(Token) /\ c \in Seq(Token)
  <2>1. a \in Seq(Token)
    BY ONLY <1>4, <1>5, <1>8, FlatStep
  <2>2. /\ 1 \in 1 .. Len(x) + 1 /\ w \in 1 - 1 .. Len(x)
        /\ w + 1 \in 1 .. Len(x) + 1 /\ w + k \in (w + 1) - 1 .. Len(x)
    BY <1>7
  <2>3. b \in Seq(Token)
    BY ONLY <1>7, <1>9, <2>2, Window
  <2>4. c \in Seq(Token)
    BY ONLY <1>7, <1>10, <2>2, Window
  <2> QED
    BY <2>1, <2>3, <2>4
<1>12. b \o c = SubSeq(x, 1, w + k)
  <2>1. /\ 1 \in 1 .. Len(x) + 1 /\ w \in 1 - 1 .. Len(x) /\ w + k \in w .. Len(x)
    BY <1>7
  <2> QED
    BY ONLY <1>7, <1>9, <1>10, <2>1, ConcatAdjacentSubSeq
<1>13. Told(msg) = a \o b /\ Written(msg, k) = c
  <2>1. Begun(msg) = b
    <3>1. CASE w = 0
      <4>1. SubSeq(x, 1, 0) = <<>>
        BY SubSeqEmpty
      <4> QED
        BY <1>3, <1>9, <3>1, <4>1 DEF Begun
    <3>2. CASE w # 0
      BY <1>1, <1>2, <1>3, <1>6, <1>9, <3>2 DEF Begun
    <3> QED
      BY <3>1, <3>2
  <2> QED
    BY <1>1, <1>2, <1>3, <1>6, <1>8, <1>10, <2>1 DEF Told, Written
<1>14. (a \o b) \o c = a \o (b \o c)
  BY ONLY <1>11, ConcatAssociative
<1>15. CASE k = Left(msg)
  <2>1. PICK next : next = Moved(msg, i + 1, 0)
    OBVIOUS
  <2>2. WriteTo(msg, k) = next
    BY <1>2, <1>15, <2>1 DEF WriteTo, Message, Moved
  <2>3. next \in Message /\ next.cache = s /\ next.cur_part = i + 1 /\ next.write_length = 0
    <3>1. i + 1 \in Nat /\ 0 \in Nat
      BY <1>4
    <3>2. msg \in Message
      OBVIOUS
    <3> QED
      BY ONLY <1>1, <2>1, <3>1, <3>2, MovedFacts
  <2>4. Placed(next)
    <3>1. i + 1 \in 1 .. Len(s) + 1 /\ (i + 1 <= Len(s) => 0 < Len(s[i + 1]))
      BY <1>4, <1>5
    <3> QED
      BY <2>3, <3>1 DEF Placed
  <2>5. Told(next) = a \o x
    <3>1. (i + 1) - 1 = i
      BY <1>4
    <3>2. Flat(SubSeq(s, 1, i)) = a \o x
      BY ONLY <1>4, <1>5, <1>6, <1>8, FlatStep
    <3>3. a \o x \in Seq(Token)
      BY ONLY <1>7, <1>11, ConcatProperties
    <3>4. (a \o x) \o <<>> = a \o x
      BY ONLY <3>3, ConcatEmptySeq
    <3>5. Begun(next) = <<>>
      BY <2>3 DEF Begun
    <3> QED
      BY <2>3, <3>1, <3>2, <3>4, <3>5 DEF Told
  <2>6. SubSeq(x, 1, w + k) = x
    <3>1. SubSeq(x, 1, Len(x)) = x
      BY ONLY <1>7, SubSeqFull
    <3> QED
      BY <1>7, <1>15, <3>1
  <2>7. Told(next) = Told(msg) \o Written(msg, k)
    BY ONLY <1>12, <1>13, <1>14, <2>5, <2>6
  <2>8. i + 1 \in Nat /\ 0 \in Nat
    BY <1>4
  <2> QED
    BY <2>1, <2>2, <2>3, <2>4, <2>7, <2>8
<1>16. CASE k # Left(msg)
  <2>1. PICK next : next = Moved(msg, i, w + k)
    OBVIOUS
  <2>2. WriteTo(msg, k) = next
    BY <1>2, <1>3, <1>16, <2>1 DEF WriteTo, Message, Moved
  <2>3. next \in Message /\ next.cache = s /\ next.cur_part = i /\ next.write_length = w + k
    <3>1. i \in Nat /\ w + k \in Nat
      BY <1>4, <1>7
    <3>2. msg \in Message
      OBVIOUS
    <3> QED
      BY ONLY <1>1, <2>1, <3>1, <3>2, MovedFacts
  <2>4. w + k < Len(x) /\ w + k # 0 /\ w + k \in Nat
    BY <1>7, <1>16
  <2>5. Placed(next)
    BY <1>4, <1>5, <1>6, <2>3, <2>4 DEF Placed
  <2>6. Told(next) = a \o SubSeq(x, 1, w + k)
    BY <1>6, <1>8, <2>3, <2>4 DEF Told, Begun
  <2>7. Told(next) = Told(msg) \o Written(msg, k)
    BY ONLY <1>12, <1>13, <1>14, <2>6
  <2>8. i \in Nat /\ w + k \in Nat
    BY <1>4, <1>7
  <2> QED
    BY <2>1, <2>2, <2>3, <2>5, <2>7, <2>8
<1> QED
  BY <1>15, <1>16

-----------------------------------------------------------------------------
(***************************************************************************)
(* Reading.                                                                *)
(***************************************************************************)
\* The header is still being read: all there is is in the buffer ...
InHeader(msg, s, p) ==
  /\ msg = [Empty EXCEPT !.buffer = SubSeq(Stream(s), 1, p)]
  /\ p <= BufferLength /\ p < Len(s.header)

\* ... or it was read, and the parts hold it, rewritten, and what came behind it.
InBody(msg, s, p) ==
  /\ msg.header_length = Len(s.header) /\ msg.buffer = <<>>
  /\ p >= Len(s.header) /\ msg.read = p - Len(s.header)
  /\ s.framing = "length" => /\ msg.body_length = Len(s.body)
                             /\ p > Length(s) => Len(msg.cache) = 1
  /\ Flat(msg.cache) = Rewritten(s.header) \o SubSeq(Stream(s), Len(s.header) + 1, p)

\* A message that was read further, its header or its body.
Grown(msg, head, length, read, parts) ==
  [msg EXCEPT !.header_length = head, !.body_length = length, !.read = read,
              !.cache = parts, !.buffer = <<>>]

IsGrown(next, msg, head, length, read, parts) ==
  /\ next \in Message /\ next.header_length = head /\ next.body_length = length
  /\ next.read = read /\ next.cache = parts /\ next.buffer = <<>>
  /\ next.cur_part = msg.cur_part /\ next.write_length = msg.write_length

\* It is a message still, and nothing of it that was written changes.
LEMMA GrownFacts ==
  ASSUME NEW msg, msg \in Message, NEW head, head \in Nat, NEW length, length \in Nat,
         NEW read, read \in Nat, NEW parts, parts \in Seq(Part)
  PROVE  IsGrown(Grown(msg, head, length, read, parts), msg, head, length, read, parts)
<1> DEFINE Tokens == Seq(Token)
           Parts  == Seq(Part)
<1>1. /\ msg \in [header_length : Nat, body_length : Nat, read : Nat, buffer : Tokens,
                 write_length : Nat, cur_part : Nat, cache : Parts]
      /\ <<>> \in Tokens /\ parts \in Parts
  BY DEF Message
<1> HIDE DEF Tokens, Parts
<1>2. Grown(msg, head, length, read, parts) \in
        [header_length : Nat, body_length : Nat, read : Nat, buffer : Tokens,
         write_length : Nat, cur_part : Nat, cache : Parts]
  BY <1>1 DEF Grown
<1>3. LET next == Grown(msg, head, length, read, parts) IN
      /\ next.header_length = head /\ next.body_length = length
      /\ next.read = read /\ next.cache = parts /\ next.buffer = <<>>
      /\ next.cur_part = msg.cur_part /\ next.write_length = msg.write_length
  BY <1>1 DEF Grown
<1> QED
  BY <1>2, <1>3 DEF IsGrown, Message, Tokens, Parts

\* The end of a chunked body changes nothing but the length.
MayEnd(msg, head, length, read, parts, message) ==
  \E l \in Nat : /\ AtChunkEnd(Grown(msg, head, length, read, parts), message)
                      = Grown(msg, head, l, read, parts)
                 /\ length # INF => l = length

\* So it is, whatever part is looked at.
LEMMA ChunkEnds ==
  ASSUME NEW msg, msg \in Message, NEW head, head \in Nat, NEW length, length \in Nat,
         NEW read, read \in Nat, NEW parts, parts \in Seq(Part), NEW message
  PROVE  MayEnd(msg, head, length, read, parts, message)
<1> DEFINE g == Grown(msg, head, length, read, parts)
<1>1. g.body_length = length /\ g.read = read
  <2> HIDE DEF g
  <2>1. IsGrown(g, msg, head, length, read, parts)
    BY GrownFacts DEF g
  <2> QED
    BY <2>1 DEF IsGrown
<1>2. [g EXCEPT !.body_length = read] = Grown(msg, head, read, read, parts)
  BY DEF Grown, Message
<1>3. CASE length = INF /\ IsSuffix(Chunk0, message)
  <2>1. AtChunkEnd(g, message) = Grown(msg, head, read, read, parts)
    BY <1>1, <1>2, <1>3 DEF AtChunkEnd
  <2> QED
    BY <1>3, <2>1 DEF MayEnd
<1>4. CASE ~(length = INF /\ IsSuffix(Chunk0, message))
  <2>1. AtChunkEnd(g, message) = g
    BY <1>1, <1>4 DEF AtChunkEnd
  <2> QED
    BY <2>1 DEF MayEnd
<1> QED
  BY <1>3, <1>4

\* How much is read: no more than the buffer holds, nor than the body has.
LEMMA ShouldReadFacts ==
  ASSUME NEW msg, msg \in Message, NEW n, n \in 1 .. ShouldRead(msg)
  PROVE  /\ n \in Nat \ {0} /\ n + Len(msg.buffer) <= BufferLength
         /\ msg.read + n <= msg.body_length
<1>1. /\ msg.read \in Nat /\ msg.body_length \in Nat /\ Len(msg.buffer) \in Nat
      /\ BufferLength \in Nat
  BY SourceAssumption, LenProperties DEF Message
<1>2. ~IsRead(msg)
  BY <1>1 DEF ShouldRead
<1>3. msg.read < msg.body_length
  BY <1>1, <1>2 DEF IsRead
<1> QED
  BY <1>1, <1>2, <1>3 DEF ShouldRead

\* What is read of the body is a part behind the others.
LEMMA BodyIsRead ==
  ASSUME NEW msg, msg \in Message, Placed(msg), NEW s, s \in Source,
         NEW p, p \in 0 .. Len(Stream(s)), NEW n, n \in 1 .. ShouldRead(msg),
         p + n <= Len(Stream(s)), InBody(msg, s, p)
  PROVE  \E next \in Message : /\ ReadFrom(msg, SubSeq(Stream(s), p + 1, p + n), s) = next
                               /\ Placed(next) /\ Told(next) = Told(msg)
                               /\ InBody(next, s, p + n)
<1>1. PICK tokens : tokens = SubSeq(Stream(s), p + 1, p + n)
  OBVIOUS
<1>2. PICK e : e = Len(s.header)
  OBVIOUS
<1>3. PICK q : q = p + n
  OBVIOUS
<1>4. /\ Len(Stream(s)) \in Nat /\ e \in 2 .. Len(Stream(s)) /\ Len(s.body) \in Nat
      /\ s.header \in Seq(Token)
  BY <1>2, SourceFacts
<1>5. /\ n \in Nat \ {0} /\ msg.read + n <= msg.body_length /\ msg.read \in Nat
      /\ msg.body_length \in Nat
  BY ShouldReadFacts DEF Message
<1>6. /\ msg.header_length = e /\ msg.buffer = <<>> /\ p >= e /\ msg.read = p - e
      /\ s.framing = "length" => msg.body_length = Len(s.body)
      /\ Flat(msg.cache) = Rewritten(s.header) \o SubSeq(Stream(s), e + 1, p)
  BY <1>2 DEF InBody
<1>7. /\ e + 1 \in 1 .. Len(Stream(s)) + 1 /\ p \in (e + 1) - 1 .. Len(Stream(s))
      /\ q \in p .. Len(Stream(s)) /\ q - p = n
  BY <1>3, <1>4, <1>5, <1>6
<1>8. /\ SubSeq(Stream(s), e + 1, p) \in Seq(Token) /\ tokens \in Seq(Token) /\ Len(tokens) = n
      /\ SubSeq(Stream(s), e + 1, p) \o tokens = SubSeq(Stream(s), e + 1, q)
  <2>1. PICK a : a = e + 1
    OBVIOUS
  <2>2. a \in 1 .. Len(Stream(s)) + 1 /\ p \in a - 1 .. Len(Stream(s)) /\ q \in p .. Len(Stream(s))
    BY <1>7, <2>1
  <2>3. s \in Source
    OBVIOUS
  <2>4. /\ SubSeq(Stream(s), a, p) \in Seq(Token) /\ SubSeq(Stream(s), p + 1, q) \in Seq(Token)
        /\ Len(SubSeq(Stream(s), p + 1, q)) = q - p
        /\ SubSeq(Stream(s), a, p) \o SubSeq(Stream(s), p + 1, q) = SubSeq(Stream(s), a, q)
    BY ONLY <2>2, <2>3, SeenGrows
  <2> QED
    BY <1>1, <1>3, <1>7, <2>1, <2>4
<1>9. tokens \in Part /\ <<>> \o tokens = tokens
  <2>1. tokens # <<>>
    BY <1>5, <1>8
  <2>2. <<>> \o tokens = tokens
    BY ONLY <1>8, ConcatEmptySeq
  <2> QED
    BY <1>8, <2>1, <2>2 DEF Part
<1>10. PICK parts : parts = Append(msg.cache, tokens)
  OBVIOUS
<1>11. parts \in Seq(Part)
  <2>1. msg.cache \in Seq(Part)
    BY DEF Message
  <2> QED
    BY <1>9, <1>10, <2>1, AppendProperties
<1>12. PICK r, length : r = msg.read + n /\ length = msg.body_length
  OBVIOUS
<1>13. PICK g : g = Grown(msg, e, length, r, parts)
  OBVIOUS
<1>14. ReadFrom(msg, tokens, s) = AtChunkEnd(g, tokens)
  <2>1. HeaderRead(msg)
    BY <1>4, <1>6 DEF HeaderRead
  <2>2. [msg EXCEPT !.read = @ + Len(tokens), !.cache = Append(@, tokens), !.buffer = <<>>] = g
    BY <1>6, <1>8, <1>10, <1>12, <1>13 DEF Grown, Message
  <2> QED
    BY <1>6, <1>9, <2>1, <2>2 DEF ReadFrom
<1>15. PICK l, next : /\ l \in Nat /\ (length # INF => l = length)
                      /\ ReadFrom(msg, tokens, s) = next
                      /\ IsGrown(next, msg, e, l, r, parts)
  <2>1. msg \in Message /\ e \in Nat /\ length \in Nat /\ r \in Nat
    BY <1>4, <1>5, <1>12
  <2>2. MayEnd(msg, e, length, r, parts, tokens)
    BY ONLY <1>11, <2>1, ChunkEnds
  <2>3. PICK l \in Nat : /\ AtChunkEnd(Grown(msg, e, length, r, parts), tokens)
                              = Grown(msg, e, l, r, parts)
                         /\ length # INF => l = length
    BY <2>2 DEF MayEnd
  <2>4. IsGrown(Grown(msg, e, l, r, parts), msg, e, l, r, parts)
    <3>1. l \in Nat
      OBVIOUS
    <3> QED
      BY ONLY <1>11, <2>1, <3>1, GrownFacts
  <2>5. PICK next : next = Grown(msg, e, l, r, parts)
    OBVIOUS
  <2>6. ReadFrom(msg, tokens, s) = next /\ IsGrown(next, msg, e, l, r, parts)
    BY <1>13, <1>14, <2>3, <2>4, <2>5
  <2>7. l \in Nat /\ (length # INF => l = length)
    BY <2>3
  <2> QED
    BY ONLY <2>6, <2>7
<1>16. Placed(next) /\ Told(next) = Told(msg) /\ Flat(next.cache) = Flat(msg.cache) \o tokens
  BY <1>9, <1>10, <1>15, AppendTold DEF IsGrown
<1>17. Flat(next.cache) = Rewritten(s.header) \o SubSeq(Stream(s), e + 1, q)
  <2>1. PICK h : h = Rewritten(s.header)
    OBVIOUS
  <2>2. PICK b : b = SubSeq(Stream(s), e + 1, p)
    OBVIOUS
  <2>3. h \in Seq(Token) /\ b \in Seq(Token) /\ tokens \in Seq(Token)
    BY <1>4, <1>8, <2>1, <2>2, RewrittenFacts
  <2>4. (h \o b) \o tokens = h \o (b \o tokens)
    BY ONLY <2>3, ConcatAssociative
  <2> QED
    BY ONLY <1>6, <1>8, <1>16, <2>1, <2>2, <2>4
<1>18. s.framing = "length" => next.body_length = Len(s.body) /\ ~(q > Length(s))
  <2> SUFFICES ASSUME s.framing = "length"
               PROVE  next.body_length = Len(s.body) /\ ~(q > Length(s))
    OBVIOUS
  <2>1. msg.body_length = Len(s.body) /\ Len(s.body) < INF /\ INF \in Nat
    BY <1>6, SourceAssumption
  <2>2. l = msg.body_length
    BY <1>4, <1>12, <1>15, <2>1
  <2>3. Length(s) = e + Len(s.body)
    BY <1>2 DEF Length
  <2> QED
    BY <1>3, <1>4, <1>5, <1>6, <1>15, <2>1, <2>2, <2>3 DEF IsGrown
<1>19. q >= e /\ next.read = q - e
  <2>1. next.read = msg.read + n
    BY <1>12, <1>15 DEF IsGrown
  <2> QED
    BY <1>3, <1>4, <1>5, <1>6, <1>7, <2>1
<1>20. InBody(next, s, q)
  BY <1>2, <1>15, <1>17, <1>18, <1>19 DEF InBody, IsGrown
<1> QED
  BY <1>1, <1>3, <1>15, <1>16, <1>20 DEF IsGrown

\* A message of which nothing but a part of its header was read.
LEMMA EmptyFacts ==
  ASSUME NEW b, b \in Seq(Token), NEW msg, msg = [Empty EXCEPT !.buffer = b]
  PROVE  /\ msg \in Message /\ Placed(msg) /\ Told(msg) = <<>>
         /\ msg.buffer = b /\ msg.cache = <<>> /\ msg.header_length = 0 /\ msg.body_length = INF
         /\ msg.read = 0 /\ ~HeaderRead(msg) /\ ~IsRead(msg)
         /\ msg.cur_part = 1 /\ msg.write_length = 0
<1>1. INF \in Nat \ {0}
  BY SourceAssumption
<1>2. /\ msg.buffer = b /\ msg.cache = <<>> /\ msg.header_length = 0 /\ msg.body_length = INF
      /\ msg.read = 0 /\ msg.cur_part = 1 /\ msg.write_length = 0
  BY DEF Empty
<1>3. msg \in Message
  <2> DEFINE Tokens == Seq(Token)
             Parts  == Seq(Part)
  <2>1. b \in Tokens /\ <<>> \in Tokens /\ <<>> \in Parts
    BY EmptySeq
  <2> HIDE DEF Tokens, Parts
  <2>2. msg \in [header_length : Nat, body_length : Nat, read : Nat, buffer : Tokens,
                 write_length : Nat, cur_part : Nat, cache : Parts]
    BY <1>1, <2>1 DEF Empty
  <2> QED
    BY <2>2 DEF Message, Tokens, Parts
<1>4. Placed(msg)
  BY <1>2, EmptySeq DEF Placed
<1>5. Told(msg) = <<>>
  <2>1. SubSeq(msg.cache, 1, msg.cur_part - 1) = <<>>
    BY <1>2, SubSeqEmpty
  <2>2. Begun(msg) = <<>>
    BY <1>2 DEF Begun
  <2>3. <<>> \o <<>> = <<>>
    BY EmptySeq, ConcatEmptySeq
  <2> QED
    BY <2>1, <2>2, <2>3, FlatNil DEF Told
<1> QED
  BY <1>1, <1>2, <1>3, <1>4, <1>5 DEF HeaderRead, IsRead

\* What the buffer holds and what is read next are all that was read.
LEMMA HeaderSeen ==
  ASSUME NEW s, s \in Source, NEW p, p \in 0 .. Len(Stream(s)), NEW q, q \in p .. Len(Stream(s))
  PROVE  SubSeq(Stream(s), 1, p) \o SubSeq(Stream(s), p + 1, q) = SubSeq(Stream(s), 1, q)
<1>1. PICK a : a = 1
  OBVIOUS
<1>2. Len(Stream(s)) \in Nat
  BY SourceFacts
<1>3. a \in 1 .. Len(Stream(s)) + 1 /\ p \in a - 1 .. Len(Stream(s))
  BY <1>1, <1>2
<1>4. SubSeq(Stream(s), a, p) \o SubSeq(Stream(s), p + 1, q) = SubSeq(Stream(s), a, q)
  BY <1>3, SeenGrows
<1> QED
  BY <1>1, <1>4

\* As long as the header has not come, what is read is kept in the buffer.
LEMMA HeaderGoesOn ==
  ASSUME NEW msg, NEW s, s \in Source, NEW p, p \in 0 .. Len(Stream(s)),
         NEW q, q \in p .. Len(Stream(s)), q <= BufferLength, q < Len(s.header),
         InHeader(msg, s, p), NEW next, next = [Empty EXCEPT !.buffer = SubSeq(Stream(s), 1, q)]
  PROVE  ReadFrom(msg, SubSeq(Stream(s), p + 1, q), s) = next /\ InHeader(next, s, q)
<1>1. PICK message : message = SubSeq(Stream(s), 1, q)
  OBVIOUS
<1>2. Len(Stream(s)) \in Nat /\ Len(s.header) \in 2 .. Len(Stream(s))
  BY SourceFacts
<1>3. message \in Seq(Token) /\ Len(message) = q /\ q \in 0 .. Len(Stream(s))
  BY <1>1, <1>2, SeenFacts
<1>4. msg.buffer = SubSeq(Stream(s), 1, p) /\ ~HeaderRead(msg)
  BY <1>2, SeenFacts, EmptyFacts DEF InHeader
<1>5. msg.buffer \o SubSeq(Stream(s), p + 1, q) = message
  BY <1>1, <1>4, HeaderSeen
<1>6. EndOfHeader(message) = 0
  BY <1>1, <1>2, <1>3, EndOfSeen
<1>7. ~IsSuffix(Chunk0, message)
  <2> SUFFICES ASSUME IsSuffix(Chunk0, message) PROVE FALSE
    OBVIOUS
  <2>1. Chunk0 \in Seq(Token) /\ Len(Chunk0) = 3 /\ Chunk0[3] = "n" /\ Chunk0[2] = "n"
    BY DEF Chunk0, Token
  <2>2. /\ Len(Chunk0) <= Len(message)
        /\ \A i \in 0 .. Len(Chunk0) - 1 : message[Len(message) - i] = Chunk0[Len(Chunk0) - i]
    <3>1. Chunk0 \in Seq(Token) /\ message \in Seq(Token) /\ IsSuffix(Chunk0, message)
      BY <1>3, <2>1
    <3> QED
      BY ONLY <3>1, SuffixIsLast
  <2>3. message[q - 0] = Chunk0[3 - 0] /\ message[q - 1] = Chunk0[3 - 1] /\ 3 <= q
    BY <1>3, <2>1, <2>2
  <2>4. BlankAt(message, q)
    BY <1>3, <2>1, <2>3 DEF BlankAt
  <2>5. q \in 2 .. q /\ q <= Len(s.header) /\ q # Len(s.header)
    BY <1>2, <1>3, <2>3
  <2> QED
    BY <1>1, <1>3, <2>4, <2>5, BlankInSeen
<1>8. [msg EXCEPT !.buffer = message] = [Empty EXCEPT !.buffer = message]
  BY DEF InHeader, Empty
<1>9. ReadFrom(msg, SubSeq(Stream(s), p + 1, q), s) = [msg EXCEPT !.buffer = message]
  BY <1>4, <1>5, <1>6, <1>7 DEF ReadFrom, AtChunkEnd
<1> QED
  BY <1>1, <1>8, <1>9 DEF InHeader

\* Once it has come, it is parsed, and what came behind it is of the body.
LEMMA HeaderIsRead ==
  ASSUME NEW msg, NEW s, s \in Source, NEW p, p \in 0 .. Len(Stream(s)),
         NEW q, q \in p .. Len(Stream(s)), q >= Len(s.header), InHeader(msg, s, p)
  PROVE  \E next \in Message : /\ ReadFrom(msg, SubSeq(Stream(s), p + 1, q), s) = next
                               /\ Placed(next) /\ Told(next) = Told(msg)
                               /\ InBody(next, s, q)
<1>1. PICK message : message = SubSeq(Stream(s), 1, q)
  OBVIOUS
<1>2. PICK e : e = Len(s.header)
  OBVIOUS
<1>3. /\ Len(Stream(s)) \in Nat /\ e \in 2 .. Len(Stream(s)) /\ Len(s.body) \in Nat
      /\ s.header \in Seq(Token) /\ q \in e .. Len(Stream(s)) /\ q \in 0 .. Len(Stream(s))
  BY <1>2, SourceFacts
<1>4. message \in Seq(Token) /\ Len(message) = q
  BY <1>1, <1>3, SeenFacts
<1>5. /\ msg \in Message /\ Placed(msg) /\ msg.buffer = SubSeq(Stream(s), 1, p)
      /\ msg.cache = <<>> /\ ~HeaderRead(msg)
  BY SeenFacts, EmptyFacts DEF InHeader
<1>6. msg.buffer \o SubSeq(Stream(s), p + 1, q) = message
  BY <1>1, <1>5, HeaderSeen
<1>7. EndOfHeader(message) = e
  BY <1>1, <1>2, <1>3, EndOfSeen
<1>8. PICK h : h = Rewritten(s.header)
  OBVIOUS
<1>9. PICK b : b = SubSeq(Stream(s), e + 1, q)
  OBVIOUS
<1>10. SubSeq(message, 1, e) = s.header /\ SubSeq(message, e + 1, Len(message)) = b
  BY <1>1, <1>2, <1>3, <1>9, SeenSplit
<1>11. h \in Seq(Token) /\ Len(h) = e /\ b \in Seq(Token)
  <2>1. h \in Seq(Token) /\ Len(h) = e
    BY <1>2, <1>3, <1>8, RewrittenFacts
  <2>2. PICK a : a = e + 1
    OBVIOUS
  <2>3. a \in 1 .. Len(Stream(s)) + 1 /\ q \in a - 1 .. Len(Stream(s)) /\ q \in q .. Len(Stream(s))
    BY <1>3, <2>2
  <2>4. SubSeq(Stream(s), a, q) \in Seq(Token)
    BY <2>3, SeenGrows
  <2> QED
    BY <1>9, <2>1, <2>2, <2>4
<1>12. PICK part : part = h \o b
  OBVIOUS
<1>13. part \in Part
  <2>1. part \in Seq(Token) /\ Len(part) = Len(h) + Len(b) /\ Len(b) \in Nat
    BY <1>11, <1>12, ConcatProperties, LenProperties
  <2>2. part # <<>>
    BY <1>3, <1>11, <2>1
  <2> QED
    BY <2>1, <2>2 DEF Part
<1>14. PICK parts : parts = Append(msg.cache, part)
  OBVIOUS
<1>15. parts \in Seq(Part) /\ Len(parts) = 1
  <2>1. msg.cache \in Seq(Part) /\ Len(msg.cache) = 0
    BY <1>5, EmptySeq
  <2> QED
    BY <1>13, <1>14, <2>1, AppendProperties
<1>16. PICK r, length : r = q - e /\ length = BodyLength(s)
  OBVIOUS
<1>17. PICK g : g = Grown(msg, e, length, r, parts)
  OBVIOUS
<1>18. ReadFrom(msg, SubSeq(Stream(s), p + 1, q), s) = AtChunkEnd(g, part)
  <2>1. ReadFrom(msg, SubSeq(Stream(s), p + 1, q), s) = ReadHeader(msg, message, e, s)
    <3>1. PICK tokens : tokens = SubSeq(Stream(s), p + 1, q)
      OBVIOUS
    <3>2. /\ ~HeaderRead(msg) /\ msg.buffer \o tokens = message
          /\ EndOfHeader(message) = e /\ e # 0
      <4>1. ~HeaderRead(msg)
        BY <1>5
      <4>2. msg.buffer \o tokens = message
        BY ONLY <1>6, <3>1
      <4>3. e # 0
        BY <1>3
      <4> QED
        BY ONLY <1>7, <4>1, <4>2, <4>3
    <3>3. ReadFrom(msg, tokens, s) = ReadHeader(msg, message, e, s)
      BY ONLY <3>2 DEF ReadFrom
    <3> QED
      BY <3>1, <3>3
  <2>2. Rewritten(SubSeq(message, 1, e)) \o SubSeq(message, e + 1, Len(message)) = part
    BY <1>8, <1>10, <1>12
  <2>3. [msg EXCEPT !.header_length = e, !.body_length = BodyLength(s),
                    !.read = Len(message) - e,
                    !.cache = Append(@, part), !.buffer = <<>>] = g
    BY <1>4, <1>5, <1>14, <1>16, <1>17 DEF Grown, Message
  <2> QED
    BY <2>1, <2>2, <2>3 DEF ReadHeader
<1>19. s.framing = "length" => length = Len(s.body) /\ length # INF
  BY <1>3, <1>16, SourceAssumption DEF BodyLength
<1>20. PICK l, next : /\ l \in Nat /\ (length # INF => l = length)
                      /\ ReadFrom(msg, SubSeq(Stream(s), p + 1, q), s) = next
                      /\ IsGrown(next, msg, e, l, r, parts)
  <2>1. length \in Nat
    BY <1>3, <1>16, <1>19, SourceAssumption DEF BodyLength
  <2>2. msg \in Message /\ e \in Nat /\ length \in Nat /\ r \in Nat
    BY <1>3, <1>5, <1>16, <2>1
  <2>3. MayEnd(msg, e, length, r, parts, part)
    BY ONLY <1>15, <2>2, ChunkEnds
  <2>4. PICK l \in Nat : /\ AtChunkEnd(Grown(msg, e, length, r, parts), part)
                              = Grown(msg, e, l, r, parts)
                         /\ length # INF => l = length
    BY <2>3 DEF MayEnd
  <2>5. IsGrown(Grown(msg, e, l, r, parts), msg, e, l, r, parts)
    <3>1. l \in Nat
      OBVIOUS
    <3> QED
      BY ONLY <1>15, <2>2, <3>1, GrownFacts
  <2>6. PICK next : next = Grown(msg, e, l, r, parts)
    OBVIOUS
  <2>7. /\ ReadFrom(msg, SubSeq(Stream(s), p + 1, q), s) = next
        /\ IsGrown(next, msg, e, l, r, parts)
    BY <1>17, <1>18, <2>4, <2>5, <2>6
  <2>8. l \in Nat /\ (length # INF => l = length)
    BY <2>4
  <2> QED
    BY ONLY <2>7, <2>8
<1>21. Placed(next) /\ Told(next) = Told(msg) /\ Flat(next.cache) = Flat(msg.cache) \o part
  BY <1>5, <1>13, <1>14, <1>20, AppendTold DEF IsGrown
<1>22. Flat(next.cache) = h \o b
  <2>1. part \in Seq(Token)
    BY <1>13 DEF Part
  <2>2. <<>> \o part = part
    BY ONLY <2>1, ConcatEmptySeq
  <2> QED
    BY <1>5, <1>12, <1>21, <2>2, FlatNil
<1>23. next.read = q - e /\ Len(next.cache) = 1
  BY <1>15, <1>16, <1>20 DEF IsGrown
<1>24. s.framing = "length" => next.body_length = Len(s.body)
  BY <1>19, <1>20 DEF IsGrown
<1>25. next.header_length = e /\ next.buffer = <<>> /\ next \in Message
  BY <1>20 DEF IsGrown
<1>26. InBody(next, s, q)
  BY <1>2, <1>3, <1>8, <1>9, <1>22, <1>23, <1>24, <1>25 DEF InBody
<1> QED
  BY <1>20, <1>21, <1>25, <1>26

-----------------------------------------------------------------------------
(***************************************************************************)
(* The inductive invariant.                                                *)
(***************************************************************************)
Typed ==
  /\ source \in Source /\ relaying \in BOOLEAN /\ wanted \in BOOLEAN
  /\ pos \in 0 .. Len(Stream(source)) /\ m \in Message /\ saved \in Seq(Part)
  /\ phase \in {"reading", "sending", "sent", "closed", "died"}
  /\ use \in {"message", "copy", "request"}

\* What was written is what the position in the parts says.
OutIsTold == Placed(m) /\ out = Told(m)

\* What a message holds is what was read of it ...
Seen(msg, s, p) == InHeader(msg, s, p) \/ InBody(msg, s, p)
HoldsSeen == use = "message" => Seen(m, source, pos)

\* ... and a request or a copy holds what it was made from.
HoldsMade == use # "message" => Flat(m.cache) = Whole /\ m.buffer = <<>>

\* What is still read is not complete, what was sent is written.
InPhase ==
  /\ phase = "reading" => use = "message" /\ ~IsRead(m)
  /\ phase = "sent" => m.cur_part = Len(m.cache) + 1

Inv == Typed /\ OutIsTold /\ HoldsSeen /\ HoldsMade /\ InPhase

\* One read, of the header or the body, or of both.
LEMMA SeenGoesOn ==
  ASSUME NEW msg, msg \in Message, Placed(msg), NEW s, s \in Source,
         NEW p, p \in 0 .. Len(Stream(s)), NEW n, n \in 1 .. ShouldRead(msg),
         p + n <= Len(Stream(s)), Seen(msg, s, p)
  PROVE  \E next \in Message : /\ ReadFrom(msg, SubSeq(Stream(s), p + 1, p + n), s) = next
                               /\ Placed(next) /\ Told(next) = Told(msg)
                               /\ Seen(next, s, p + n)
<1>1. CASE InBody(msg, s, p)
  BY <1>1, BodyIsRead DEF Seen
<1>2. CASE InHeader(msg, s, p)
  <2>1. PICK q : q = p + n
    OBVIOUS
  <2>2. Len(Stream(s)) \in Nat /\ Len(s.header) \in Nat
    BY SourceFacts
  <2>3. msg.buffer = SubSeq(Stream(s), 1, p) /\ Len(msg.buffer) = p /\ Told(msg) = <<>>
    BY <1>2, SeenFacts, EmptyFacts DEF InHeader
  <2>4. n \in Nat \ {0} /\ n + p <= BufferLength
    BY <2>3, ShouldReadFacts
  <2>5. q \in p .. Len(Stream(s)) /\ q <= BufferLength /\ q \in 0 .. Len(Stream(s))
    BY <2>1, <2>2, <2>4, SourceAssumption
  <2>6. CASE q >= Len(s.header)
    <3>1. \E next \in Message : /\ ReadFrom(msg, SubSeq(Stream(s), p + 1, q), s) = next
                                /\ Placed(next) /\ Told(next) = Told(msg)
                                /\ InBody(next, s, q)
      BY <1>2, <2>5, <2>6, HeaderIsRead
    <3> QED
      BY <2>1, <3>1 DEF Seen
  <2>7. CASE ~(q >= Len(s.header))
    <3>1. q < Len(s.header)
      BY <2>2, <2>5, <2>7
    <3>2. PICK next : next = [Empty EXCEPT !.buffer = SubSeq(Stream(s), 1, q)]
      OBVIOUS
    <3>3. ReadFrom(msg, SubSeq(Stream(s), p + 1, q), s) = next /\ InHeader(next, s, q)
      <4>1. /\ s \in Source /\ p \in 0 .. Len(Stream(s))
            /\ q \in p .. Len(Stream(s)) /\ q <= BufferLength /\ q < Len(s.header)
            /\ InHeader(msg, s, p)
        BY <1>2, <2>5, <3>1
      <4> QED
        BY ONLY <3>2, <4>1, HeaderGoesOn
    <3>4. next \in Message /\ Placed(next) /\ Told(next) = <<>>
      BY <2>5, <3>2, SeenFacts, EmptyFacts
    <3> QED
      BY <2>1, <2>3, <3>3, <3>4 DEF Seen
  <2> QED
    BY <2>6, <2>7
<1> QED
  BY <1>1, <1>2 DEF Seen

\* One write changes nothing of what was read.
LEMMA SeenWritten ==
  ASSUME NEW msg, msg \in Message, Placed(msg), NEW s, s \in Source,
         NEW p, p \in 0 .. Len(Stream(s)), NEW k, k \in 1 .. Left(msg), Seen(msg, s, p),
         NEW i, i \in Nat, NEW w, w \in Nat, NEW next, next = Moved(msg, i, w)
  PROVE  Seen(next, s, p)
<1>1. ~InHeader(msg, s, p)
  <2> SUFFICES ASSUME InHeader(msg, s, p) PROVE FALSE
    OBVIOUS
  <2>1. msg.cache = <<>> /\ msg.cur_part = 1
    BY SeenFacts, EmptyFacts DEF InHeader
  <2>2. Left(msg) = 0
    BY <2>1, EmptySeq DEF Left
  <2> QED
    BY <2>2
<1>2. InBody(msg, s, p)
  BY <1>1 DEF Seen
<1>3. /\ next.cache = msg.cache /\ next.header_length = msg.header_length
      /\ next.read = msg.read /\ next.body_length = msg.body_length /\ next.buffer = msg.buffer
  BY MovedKeeps
<1> QED
  BY <1>2, <1>3 DEF Seen, InBody

\* A request or a copy at the beginning: nothing of it was written.
LEMMA FreshFacts ==
  ASSUME NEW msg, msg \in Message, msg.cur_part = 1, msg.write_length = 0
  PROVE  Placed(msg) /\ Told(msg) = <<>>
<1>1. Placed(msg)
  <2>1. Len(msg.cache) \in Nat /\ (1 <= Len(msg.cache) => Len(msg.cache[1]) \in Nat \ {0})
    BY PartFacts DEF Message
  <2> QED
    BY <2>1 DEF Placed
<1>2. Told(msg) = <<>>
  <2>1. SubSeq(msg.cache, 1, msg.cur_part - 1) = <<>>
    BY SubSeqEmpty
  <2>2. Begun(msg) = <<>>
    BY DEF Begun
  <2>3. <<>> \o <<>> = <<>>
    BY EmptySeq, ConcatEmptySeq
  <2> QED
    BY <2>1, <2>2, <2>3, FlatNil DEF Told
<1> QED
  BY <1>1, <1>2

\* A buffered_message as it is made.
LEMMA EmptyIs ==
  /\ Empty \in Message /\ Empty.header_length = 0 /\ Empty.buffer = <<>>
  /\ Empty.cur_part = 1 /\ Empty.write_length = 0
<1>1. PICK msg : msg = [Empty EXCEPT !.buffer = <<>>]
  OBVIOUS
<1>2. /\ msg \in Message /\ msg.header_length = 0 /\ msg.buffer = <<>>
      /\ msg.cur_part = 1 /\ msg.write_length = 0
  BY <1>1, EmptySeq, EmptyFacts
<1>3. msg = Empty
  BY <1>1 DEF Empty
<1> QED
  BY <1>2, <1>3

\* A request made from a header begins with it ...
LEMMA FromHeaderFacts ==
  ASSUME NEW header, Len(header) \in Nat, NEW msg, msg = FromHeader(header, <<>>),
         <<header \o <<>>>> \in Seq(Part)
  PROVE  /\ msg \in Message /\ Placed(msg) /\ Told(msg) = <<>>
         /\ msg.cache = <<header \o <<>>>> /\ msg.buffer = <<>>
<1>1. PICK l, parts : l = Len(header) /\ parts = <<header \o <<>>>>
  OBVIOUS
<1>2. PICK empty, zero : empty = Empty /\ zero = 0
  OBVIOUS
<1>3. /\ empty \in Message /\ empty.header_length = 0 /\ empty.buffer = <<>>
      /\ empty.cur_part = 1 /\ empty.write_length = 0
  BY <1>2, EmptyIs
<1>4. l \in Nat /\ zero \in Nat /\ parts \in Seq(Part) /\ Len(<<>>) = 0
  BY <1>1, <1>2, EmptySeq
<1>5. PICK g : g = Grown(empty, l, zero, zero, parts)
  OBVIOUS
<1>6. msg = g
  <2>1. msg = [empty EXCEPT !.header_length = l, !.body_length = zero, !.read = zero, !.cache = parts]
    BY <1>1, <1>2, <1>4 DEF FromHeader
  <2> QED
    BY <1>3, <1>5, <2>1 DEF Grown, Message
<1>7. IsGrown(g, empty, l, zero, zero, parts)
  BY ONLY <1>3, <1>4, <1>5, GrownFacts
<1>8. /\ msg \in Message /\ msg.cur_part = 1 /\ msg.write_length = 0
      /\ msg.buffer = <<>> /\ msg.cache = parts
  BY <1>3, <1>6, <1>7 DEF IsGrown
<1> QED
  BY <1>1, <1>8, FreshFacts

\* ... and a copy with the parts of the cache.
LEMMA FromCacheFacts ==
  ASSUME NEW parts, parts \in Seq(Part), NEW msg, msg = FromCache(parts)
  PROVE  /\ msg \in Message /\ Placed(msg) /\ Told(msg) = <<>>
         /\ msg.cache = parts /\ msg.buffer = <<>>
<1>1. PICK n : n = Len(Flat(parts))
  OBVIOUS
<1>2. PICK empty, zero : empty = Empty /\ zero = 0
  OBVIOUS
<1>3. /\ empty \in Message /\ empty.header_length = zero /\ empty.buffer = <<>>
      /\ empty.cur_part = 1 /\ empty.write_length = 0
  BY <1>2, EmptyIs
<1>4. n \in Nat /\ zero \in Nat /\ parts \in Seq(Part)
  BY <1>1, <1>2, PartFacts, LenProperties
<1>5. PICK g : g = Grown(empty, zero, n, n, parts)
  OBVIOUS
<1>6. msg = g
  <2>1. msg = [empty EXCEPT !.body_length = n, !.read = n, !.cache = parts]
    BY <1>1, <1>2 DEF FromCache
  <2> QED
    BY <1>3, <1>5, <2>1 DEF Grown, Message
<1>7. IsGrown(g, empty, zero, n, n, parts)
  BY ONLY <1>3, <1>4, <1>5, GrownFacts
<1>8. /\ msg \in Message /\ msg.cur_part = 1 /\ msg.write_length = 0
      /\ msg.buffer = <<>> /\ msg.cache = parts
  BY <1>3, <1>6, <1>7 DEF IsGrown
<1> QED
  BY <1>8, FreshFacts

-----------------------------------------------------------------------------
(***************************************************************************)
(* The invariant holds.                                                    *)
(***************************************************************************)
\* Before anything comes nothing was read.
LEMMA InitInv == Init => Inv
<1> SUFFICES ASSUME Init PROVE Inv
  OBVIOUS
<1>1. Len(Stream(source)) \in Nat /\ Len(source.header) \in Nat \ {0, 1}
  BY SourceFacts DEF Init
<1>2. SubSeq(Stream(source), 1, 0) = <<>> /\ <<>> \in Seq(Token)
  BY SubSeqEmpty, EmptySeq
<1>3. m = [Empty EXCEPT !.buffer = <<>>] /\ pos = 0 /\ source \in Source
  BY DEF Init, Empty
<1>4. m \in Message /\ Placed(m) /\ Told(m) = <<>> /\ ~IsRead(m)
  BY <1>2, <1>3, EmptyFacts
<1>5. InHeader(m, source, pos)
  <2>1. m = [Empty EXCEPT !.buffer = SubSeq(Stream(source), 1, pos)]
    BY <1>2, <1>3
  <2>2. pos <= BufferLength /\ pos < Len(source.header)
    BY <1>1, <1>3, SourceAssumption
  <2> QED
    BY ONLY <2>1, <2>2 DEF InHeader
<1>6. Typed
  <2>1. <<>> \in Seq(Part) /\ pos \in 0 .. Len(Stream(source))
    BY <1>1, <1>3, EmptySeq
  <2> QED
    BY <1>4, <2>1 DEF Init, Typed
<1> QED
  BY <1>4, <1>5, <1>6 DEF Init, Inv, OutIsTold, HoldsSeen, Seen, HoldsMade, InPhase

\* What is read is seen, whether the message goes on or is sent.
LEMMA ReadsInv == Inv /\ Reads => Inv'
<1> SUFFICES ASSUME Inv, Reads PROVE Inv'
  OBVIOUS
<1>1. /\ m \in Message /\ source \in Source /\ pos \in 0 .. Len(Stream(source)) /\ Placed(m)
      /\ out = Told(m) /\ use = "message" /\ Seen(m, source, pos) /\ ~IsRead(m)
  BY DEF Inv, Typed, OutIsTold, HoldsSeen, InPhase, Reads
<1>2. PICK n \in 1 .. ShouldRead(m) :
        /\ pos + n <= Len(Stream(source)) /\ pos' = pos + n
        /\ m' = ReadFrom(m, SubSeq(Stream(source), pos + 1, pos + n), source)
        /\ IF IsRead(m') THEN /\ phase' = "sending" /\ wanted' = TRUE
                              /\ saved' \in {<<>>} \cup (IF relaying THEN {m'.cache} ELSE {})
                         ELSE wanted' = Wakes(m') /\ UNCHANGED <<phase, saved>>
  BY DEF Reads
<1>3. UNCHANGED <<source, relaying, out, use>>
  BY DEF Reads
<1>4. m' \in Message /\ Placed(m') /\ Told(m') = Told(m) /\ Seen(m', source, pos')
  <2>1. \E next \in Message :
          /\ ReadFrom(m, SubSeq(Stream(source), pos + 1, pos + n), source) = next
          /\ Placed(next) /\ Told(next) = Told(m)
          /\ Seen(next, source, pos + n)
    BY <1>1, <1>2, SeenGoesOn
  <2> QED
    BY <1>2, <2>1
<1>5. pos' \in 0 .. Len(Stream(source))
  BY <1>1, <1>2, SourceFacts, ShouldReadFacts
<1>6. wanted' \in BOOLEAN /\ saved' \in Seq(Part) /\ phase' \in {"sending", phase}
  <2>1. CASE IsRead(m')
    <3>1. m'.cache \in Seq(Part) /\ <<>> \in Seq(Part)
      BY <1>4, EmptySeq DEF Message
    <3> QED
      BY <1>2, <2>1, <3>1
  <2>2. CASE ~IsRead(m')
    BY <1>2, <2>2 DEF Inv, Typed, Wakes
  <2> QED
    BY <2>1, <2>2
<1>7. Typed'
  BY <1>1, <1>3, <1>4, <1>5, <1>6 DEF Inv, Typed
<1>8. (phase = "reading")
  BY DEF Reads
<1>9. InPhase'
  BY <1>1, <1>2, <1>3, <1>6, <1>8 DEF InPhase
<1> QED
  BY <1>1, <1>3, <1>4, <1>7, <1>9 DEF Inv, OutIsTold, HoldsSeen, HoldsMade

\* A read of nothing changes nothing.
LEMMA ReadsNothingInv == Inv /\ ReadsNothing => Inv'
<1> SUFFICES ASSUME Inv, ReadsNothing PROVE Inv'
  OBVIOUS
<1>1. /\ m \in Message /\ source \in Source /\ pos \in 0 .. Len(Stream(source))
      /\ use = "message" /\ Seen(m, source, pos) /\ ~IsRead(m) /\ ShouldRead(m) = 0
  BY DEF Inv, Typed, HoldsSeen, InPhase, ReadsNothing
<1>2. /\ m.read \in Nat /\ m.body_length \in Nat /\ BufferLength \in Nat \ {0}
      /\ Len(Stream(source)) \in Nat
  BY <1>1, SourceAssumption, SourceFacts DEF Message
<1>3. ~InBody(m, source, pos)
  <2> SUFFICES ASSUME InBody(m, source, pos) PROVE FALSE
    OBVIOUS
  <2>1. Len(m.buffer) = 0
    BY EmptySeq DEF InBody
  <2> QED
    BY <1>1, <1>2, <2>1 DEF ShouldRead, IsRead
<1>4. InHeader(m, source, pos)
  BY <1>1, <1>3 DEF Seen
<1>5. PICK p : p = pos
  OBVIOUS
<1>6. SubSeq(Stream(source), p + 1, p) = <<>>
  BY <1>1, <1>5, SubSeqEmpty
<1>7. PICK next : next = [Empty EXCEPT !.buffer = SubSeq(Stream(source), 1, p)]
  OBVIOUS
<1>8. ReadFrom(m, <<>>, source) = next
  <2>1. /\ p \in p .. Len(Stream(source)) /\ p <= BufferLength /\ p < Len(source.header)
        /\ InHeader(m, source, p) /\ p \in 0 .. Len(Stream(source)) /\ source \in Source
    BY <1>1, <1>2, <1>4, <1>5 DEF InHeader
  <2>2. ReadFrom(m, SubSeq(Stream(source), p + 1, p), source) = next
    BY ONLY <1>7, <2>1, HeaderGoesOn
  <2> QED
    BY <1>6, <2>2
<1>9. m' = m
  BY <1>4, <1>5, <1>7, <1>8 DEF ReadsNothing, InHeader
<1>10. UNCHANGED vars
  BY <1>9 DEF ReadsNothing, vars
<1> QED
  BY <1>10 DEF Inv, Typed, OutIsTold, HoldsSeen, HoldsMade, InPhase, Whole, vars

\* An exception changes nothing but the phase.
LEMMA ReadThrowsInv == Inv /\ ReadThrows => Inv'
  BY DEF ReadThrows, Inv, Typed, OutIsTold, HoldsSeen, HoldsMade, InPhase, Whole

\* Neither does the end of the connection.
LEMMA ClosesInv == Inv /\ Closes => Inv'
  BY DEF Closes, Inv, Typed, OutIsTold, HoldsSeen, HoldsMade, InPhase, Whole

\* One write goes on behind what was written and leaves what the message holds.
LEMMA WriteKeeps ==
  ASSUME Inv, NEW k, k \in 1 .. Left(m), m' = WriteTo(m, k), out' = out \o Written(m, k),
         UNCHANGED <<source, pos, use, saved>>
  PROVE  /\ m' \in Message /\ OutIsTold' /\ HoldsSeen' /\ HoldsMade'
         /\ m'.read = m.read /\ m'.body_length = m.body_length
<1>1. m \in Message /\ source \in Source /\ pos \in 0 .. Len(Stream(source)) /\ Placed(m)
  BY DEF Inv, Typed, OutIsTold
<1>2. /\ m' \in Message /\ Placed(m') /\ Told(m') = Told(m) \o Written(m, k)
      /\ \E i \in Nat, w \in Nat : m' = Moved(m, i, w)
  <2>1. \E next \in Message :
          /\ WriteTo(m, k) = next /\ Placed(next) /\ Told(next) = Told(m) \o Written(m, k)
          /\ \E i \in Nat, w \in Nat : next = Moved(m, i, w)
    BY <1>1, WriteTold
  <2> QED
    BY <2>1
<1>3. PICK i \in Nat, w \in Nat : m' = Moved(m, i, w)
  BY <1>2
<1>4. /\ m'.cache = m.cache /\ m'.buffer = m.buffer
      /\ m'.read = m.read /\ m'.body_length = m.body_length
  BY ONLY <1>1, <1>3, MovedKeeps
<1>5. OutIsTold'
  BY <1>2 DEF Inv, OutIsTold
<1>6. HoldsSeen'
  <2> SUFFICES ASSUME use = "message" PROVE Seen(m', source, pos)
    BY DEF HoldsSeen
  <2>1. Seen(m, source, pos)
    BY DEF Inv, HoldsSeen
  <2> QED
    BY <1>1, <1>3, <2>1, SeenWritten
<1>7. HoldsMade'
  <2> SUFFICES ASSUME use # "message" PROVE Flat(m'.cache) = Whole' /\ m'.buffer = <<>>
    BY DEF HoldsMade
  <2>1. Flat(m.cache) = Whole /\ m.buffer = <<>> /\ use \in {"request", "copy"}
    BY DEF Inv, HoldsMade, Typed
  <2>2. Whole' = Whole
    BY <2>1 DEF Whole
  <2> QED
    BY <1>4, <2>1, <2>2
<1> QED
  BY <1>2, <1>4, <1>5, <1>6, <1>7

\* What is written while the message is read ...
LEMMA RelaysInv == Inv /\ Relays => Inv'
<1> SUFFICES ASSUME Inv, Relays PROVE Inv'
  OBVIOUS
<1>1. PICK k \in 1 .. Left(m) : out' = out \o Written(m, k) /\ m' = WriteTo(m, k)
  BY DEF Relays
<1>2. UNCHANGED <<source, relaying, pos, phase, use, saved>> /\ wanted' = CanWrite(m')
      /\ phase = "reading"
  BY DEF Relays
<1>3. /\ m' \in Message /\ OutIsTold' /\ HoldsSeen' /\ HoldsMade'
      /\ m'.read = m.read /\ m'.body_length = m.body_length
  BY <1>1, <1>2, WriteKeeps
<1>4. Typed'
  BY <1>2, <1>3 DEF Inv, Typed, CanWrite
<1>5. InPhase'
  BY <1>2, <1>3 DEF Inv, InPhase, IsRead
<1> QED
  BY <1>3, <1>4, <1>5 DEF Inv

\* ... and when it was read, up to its end.
LEMMA SendsInv == Inv /\ Sends => Inv'
<1> SUFFICES ASSUME Inv, Sends PROVE Inv'
  OBVIOUS
<1>1. PICK k \in 1 .. Left(m) : out' = out \o Written(m, k) /\ m' = WriteTo(m, k)
  BY DEF Sends
<1>2. /\ UNCHANGED <<source, relaying, pos, use, saved>> /\ phase = "sending"
      /\ IF Sent(m') THEN phase' = "sent" /\ wanted' = FALSE ELSE UNCHANGED <<phase, wanted>>
  BY DEF Sends
<1>3. m' \in Message /\ OutIsTold' /\ HoldsSeen' /\ HoldsMade'
  BY <1>1, <1>2, WriteKeeps
<1>4. Typed'
  BY <1>2, <1>3 DEF Inv, Typed
<1>5. InPhase'
  BY <1>2 DEF InPhase, Sent, IsWritten
<1> QED
  BY <1>3, <1>4, <1>5 DEF Inv

\* A validation request is one part: the header, written anew.
LEMMA SendsRequestInv == Inv /\ SendsRequest => Inv'
<1> SUFFICES ASSUME Inv, SendsRequest PROVE Inv'
  OBVIOUS
<1>1. PICK h : h = Rewritten(source.header)
  OBVIOUS
<1>2. h \in Seq(Token) /\ Len(h) \in Nat \ {0}
  <2>1. source \in Source
    BY DEF Inv, Typed
  <2> QED
    BY <1>1, <2>1, SourceFacts, RewrittenFacts
<1>3. h \o <<>> = h /\ <<>> \o h = h /\ h # <<>> /\ Len(<<>>) = 0
  <2>1. h \o <<>> = h /\ <<>> \o h = h
    BY ONLY <1>2, ConcatEmptySeq
  <2> QED
    BY <1>2, <2>1, EmptySeq
<1>4. PICK parts : parts = <<h>>
  OBVIOUS
<1>5. parts \in Seq(Part) /\ Flat(parts) = h
  <2>1. h \in Part /\ <<>> \in Seq(Part) /\ <<>> \in Seq(Seq(Token))
    BY <1>2, <1>3, EmptySeq DEF Part
  <2>2. parts = Append(<<>>, h)
    BY <1>4
  <2>3. Append(<<>>, h) \in Seq(Part)
    BY ONLY <2>1, AppendProperties
  <2>4. Flat(Append(<<>>, h)) = Flat(<<>>) \o h
    BY ONLY <1>2, <2>1, FlatAppend
  <2> QED
    BY <1>3, <2>2, <2>3, <2>4, FlatNil
<1>6. PICK next : next = FromHeader(h, <<>>)
  OBVIOUS
<1>7. m' \in Message /\ Placed(m') /\ Told(m') = <<>> /\ m'.cache = parts /\ m'.buffer = <<>>
  <2>1. Len(h) \in Nat /\ <<h \o <<>>>> \in Seq(Part)
    BY <1>2, <1>3, <1>4, <1>5
  <2>2. /\ next \in Message /\ Placed(next) /\ Told(next) = <<>>
        /\ next.cache = <<h \o <<>>>> /\ next.buffer = <<>>
    BY ONLY <1>6, <2>1, FromHeaderFacts
  <2>3. m' = next
    BY <1>1, <1>6 DEF SendsRequest
  <2> QED
    BY <1>3, <1>4, <2>2, <2>3
<1>8. Typed'
  BY <1>7 DEF Inv, Typed, SendsRequest
<1>9. HoldsMade'
  BY <1>1, <1>5, <1>7 DEF SendsRequest, HoldsMade, Whole
<1> QED
  BY <1>7, <1>8, <1>9 DEF SendsRequest, Inv, OutIsTold, HoldsSeen, InPhase

\* The copy in the cache is sent from its beginning.
LEMMA SendsCopyInv == Inv /\ SendsCopy => Inv'
<1> SUFFICES ASSUME Inv, SendsCopy PROVE Inv'
  OBVIOUS
<1>1. saved \in Seq(Part)
  BY DEF Inv, Typed
<1>2. PICK next : next = FromCache(saved)
  OBVIOUS
<1>3. m' \in Message /\ Placed(m') /\ Told(m') = <<>> /\ m'.cache = saved /\ m'.buffer = <<>>
  <2>1. /\ next \in Message /\ Placed(next) /\ Told(next) = <<>>
        /\ next.cache = saved /\ next.buffer = <<>>
    BY ONLY <1>1, <1>2, FromCacheFacts
  <2>2. m' = next
    BY <1>2 DEF SendsCopy
  <2> QED
    BY <2>1, <2>2
<1>4. Typed'
  BY <1>3 DEF Inv, Typed, SendsCopy
<1>5. HoldsMade'
  BY <1>3 DEF SendsCopy, HoldsMade, Whole
<1> QED
  BY <1>3, <1>4, <1>5 DEF SendsCopy, Inv, OutIsTold, HoldsSeen, InPhase

\* Every step keeps the invariant.
LEMMA NextInv == Inv /\ [Next]_vars => Inv'
<1> SUFFICES ASSUME Inv, [Next]_vars PROVE Inv'
  OBVIOUS
<1>1. CASE UNCHANGED vars
  BY <1>1 DEF Inv, Typed, OutIsTold, HoldsSeen, HoldsMade, InPhase, Whole, vars
<1> QED
  BY <1>1, ReadsInv, ReadsNothingInv, ReadThrowsInv, RelaysInv, SendsInv, ClosesInv,
     SendsRequestInv, SendsCopyInv DEF Next

\* The invariant of every behaviour.
LEMMA AlwaysInv == Spec => []Inv
  BY InitInv, NextInv, PTL DEF Spec

-----------------------------------------------------------------------------
(***************************************************************************)
(* What follows from it.                                                   *)
(***************************************************************************)
\* What a message of the socket holds.
LEMMA SeenHolds ==
  ASSUME Inv, use = "message"
  PROVE  /\ Flat(m.cache) = Whole
         /\ Len(m.buffer) <= BufferLength
<1>1. /\ m \in Message /\ source \in Source /\ pos \in 0 .. Len(Stream(source))
      /\ Seen(m, source, pos)
  BY DEF Inv, Typed, HoldsSeen
<1>2. CASE InHeader(m, source, pos)
  <2>1. /\ m.cache = <<>> /\ ~HeaderRead(m) /\ Len(m.buffer) = pos
    BY <1>1, <1>2, SeenFacts, EmptyFacts DEF InHeader
  <2> QED
    BY <1>2, <2>1, FlatNil DEF Whole, InHeader
<1>3. CASE InBody(m, source, pos)
  <2>1. HeaderRead(m) /\ Len(m.buffer) = 0
    BY <1>1, <1>3, SourceFacts, EmptySeq DEF InBody, HeaderRead
  <2>2. Len(m.buffer) <= BufferLength
    BY <2>1, SourceAssumption
  <2>3. Flat(m.cache) = Rewritten(source.header)
                          \o SubSeq(Stream(source), Len(source.header) + 1, pos)
    BY <1>3 DEF InBody
  <2>4. Flat(m.cache) = Whole
    BY <2>1, <2>3 DEF Whole
  <2> QED
    BY <2>2, <2>4
<1> QED
  BY <1>1, <1>2, <1>3 DEF Seen

\* No field of the message is out of its range.
LEMMA InvTypeOK == Inv => TypeOK
<1> SUFFICES ASSUME Inv PROVE TypeOK
  OBVIOUS
<1>1. m \in Message /\ Placed(m) /\ Typed
  BY DEF Inv, Typed, OutIsTold
<1>2. m.read \in Nat /\ m.body_length \in Nat /\ m.write_length \in Nat /\ m.cache \in Seq(Part)
  BY <1>1 DEF Message
<1>3. Len(m.buffer) <= BufferLength
  <2>1. CASE use = "message"
    BY <2>1, SeenHolds
  <2>2. CASE use # "message"
    <3>1. Len(m.buffer) = 0
      BY <2>2, EmptySeq DEF Inv, HoldsMade
    <3> QED
      BY <3>1, SourceAssumption
  <2> QED
    BY <2>1, <2>2
<1>4. \A i \in DOMAIN m.cache : m.cache[i] \in Seq(Token) /\ m.cache[i] # <<>>
  <2>1. DOMAIN m.cache = 1 .. Len(m.cache)
    BY <1>2, LenProperties
  <2> QED
    BY <1>2, <2>1, PartFacts
<1>5. m.cur_part \in 1 .. Len(m.cache) + 1
  BY <1>1 DEF Placed
<1> QED
  BY <1>1, <1>2, <1>3, <1>4, <1>5 DEF TypeOK, Typed

\* The parts and what was written of them.
LEMMA InvWrittenInOrder == Inv => WrittenInOrder
<1> SUFFICES ASSUME Inv PROVE WrittenInOrder
  OBVIOUS
<1>1. m \in Message /\ Placed(m) /\ out = Told(m)
  BY DEF Inv, Typed, OutIsTold
<1>2. Flat(m.cache) = Whole
  <2>1. CASE use = "message"
    BY <2>1, SeenHolds
  <2>2. CASE use # "message"
    BY <2>2 DEF Inv, HoldsMade
  <2> QED
    BY <2>1, <2>2
<1>3. /\ Len(out) = Len(Flat(SubSeq(m.cache, 1, m.cur_part - 1))) + m.write_length
      /\ IsPrefix(out, Flat(m.cache))
      /\ m.cur_part = Len(m.cache) + 1 => out = Flat(m.cache)
  BY <1>1, ToldFacts
<1>4. phase = "sent" => m.cur_part = Len(m.cache) + 1
  BY DEF Inv, InPhase
<1> QED
  BY ONLY <1>2, <1>3, <1>4 DEF WrittenInOrder

\* The end of a message whose length is known.
LEMMA InvLengthExact == Inv => LengthExact
<1> SUFFICES ASSUME Inv, source.framing = "length", use = "message"
             PROVE  /\ IsRead(m) <=> pos >= Length(source)
                    /\ pos > Length(source) => Len(m.cache) = 1
  BY DEF LengthExact
<1>1. /\ m \in Message /\ source \in Source /\ pos \in 0 .. Len(Stream(source))
      /\ Seen(m, source, pos)
  BY DEF Inv, Typed, HoldsSeen
<1>2. PICK e, b : e = Len(source.header) /\ b = Len(source.body)
  OBVIOUS
<1>3. e \in Nat /\ b \in Nat /\ Length(source) = e + b /\ pos \in Nat
  BY <1>1, <1>2, SourceFacts DEF Length
<1>4. CASE InHeader(m, source, pos)
  <2>1. ~IsRead(m) /\ pos < e
    BY <1>1, <1>2, <1>4, SeenFacts, EmptyFacts DEF InHeader
  <2> QED
    BY <1>3, <2>1
<1>5. CASE InBody(m, source, pos)
  <2>1. /\ m.body_length = b /\ m.read = pos - e /\ pos >= e
        /\ pos > Length(source) => Len(m.cache) = 1
    BY <1>2, <1>5 DEF InBody
  <2> QED
    BY <1>3, <2>1 DEF IsRead
<1> QED
  BY <1>1, <1>4, <1>5 DEF Seen

-----------------------------------------------------------------------------
\* Every field of a buffered_message keeps what it is declared for: no part is
\* empty, the buffer is never over its end, cur_part is in the parts or behind
\* the last.
THEOREM TypeCorrect == Spec => []TypeOK
  BY AlwaysInv, InvTypeOK, PTL

\* Whatever comes, in whatever pieces, what read_from() keeps and write_to()
\* writes is the message, its header rewritten: nothing is lost, doubled or
\* reordered between the parts, the relay and send(), the copy or the request.
THEOREM PartsInOrder == Spec => []WrittenInOrder
  BY AlwaysInv, InvWrittenInOrder, PTL

\* With Content-Length, is_read() is true exactly when all of the message was
\* read, and the next message is read only together with the header.
THEOREM LengthsExact == Spec => []LengthExact
  BY AlwaysInv, InvLengthExact, PTL

=============================================================================
