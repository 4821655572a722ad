--------------------------- MODULE HttpCacheProofs ---------------------------
(***************************************************************************)
(* The cache of responses gives a client what is at its URL, whatever the  *)
(* other connections store and delete meanwhile, for every set of hosts,   *)
(* paths, properties and connections and every size of the cache.          *)
(***************************************************************************)
EXTENDS HttpCache, SequenceTheorems, WellFoundedInduction, TLAPS

\* Every nonempty set of numbers has a least one.
LEMMA Least ==
  ASSUME NEW T, T \subseteq Nat, T # {}
  PROVE  \E x \in T : \A y \in T : x <= y
<1>1. \A x, y \in Nat : <<x, y>> \in OpToRel(<, Nat) <=> x < y
  BY DEF OpToRel
<1>2. PICK R : IsWellFoundedOn(R, Nat) /\ \A x, y \in Nat : <<x, y>> \in R <=> x < y
  BY <1>1, NatLessThanWellFounded
<1>3. IsWellFoundedOn(R, Nat)
  BY <1>2
<1>4. \E x \in T : \A y \in T : ~(<<y, x>> \in R)
  BY <1>3, WFMin
<1>5. PICK x \in T : \A y \in T : ~(<<y, x>> \in R)
  BY <1>4
<1>6. \A y \in T : ~(y < x)
  BY <1>2, <1>5
<1> QED
  BY <1>6

-----------------------------------------------------------------------------
(***************************************************************************)
(* Headers of any length.                                                  *)
(***************************************************************************)
\* A property that is there has a first position.
LEMMA FirstIsLeast ==
  ASSUME NEW S, NEW ps \in Seq(S), NEW name, Has(ps, name)
  PROVE  /\ First(ps, name) \in Positions(ps, name)
         /\ \A j \in Positions(ps, name) : First(ps, name) <= j
<1> DEFINE T == Positions(ps, name)
<1>1. T \subseteq Nat /\ T # {}
  BY LenProperties DEF Positions, Has
<1> HIDE DEF T
<1>2. \E i \in T : \A j \in T : i <= j
  BY <1>1, Least
<1> QED
  BY <1>2 DEF First, T

\* get_property() reads the first property with the name.
LEMMA GetIsFirst ==
  ASSUME NEW S, NEW ps \in Seq(S), NEW name, NEW i \in Positions(ps, name),
         \A j \in Positions(ps, name) : i <= j
  PROVE  Has(ps, name) /\ First(ps, name) = i /\ Get(ps, name) = ps[i].value
<1>1. Has(ps, name)
  BY DEF Has
<1>2. /\ First(ps, name) \in Positions(ps, name)
      /\ \A j \in Positions(ps, name) : First(ps, name) <= j
  BY <1>1, FirstIsLeast
<1>3. First(ps, name) = i
  <2>1. First(ps, name) <= i /\ i <= First(ps, name)
    BY <1>2
  <2>2. First(ps, name) \in Nat /\ i \in Nat
    BY <1>2, LenProperties DEF Positions
  <2> QED
    BY <2>1, <2>2
<1> QED
  BY <1>1, <1>3 DEF Get

\* What get_property() reads depends on the properties with the name alone.
LEMMA SamePositions ==
  ASSUME NEW S, NEW ps \in Seq(S), NEW qs, NEW name, Positions(ps, name) = Positions(qs, name),
         \A i \in Positions(ps, name) : ps[i].value = qs[i].value
  PROVE  (Has(qs, name) <=> Has(ps, name)) /\ Get(qs, name) = Get(ps, name)
<1>1. (Has(qs, name) <=> Has(ps, name)) /\ First(qs, name) = First(ps, name)
  BY DEF Has, First
<1>2. CASE Has(ps, name)
  BY <1>1, <1>2, FirstIsLeast DEF Get
<1>3. CASE ~Has(ps, name)
  BY <1>1, <1>3 DEF Get
<1> QED
  BY <1>1, <1>2, <1>3

\* What set_property() makes of the header ps: its property has the value, and
\* every other the value it had.
IsSet(ps, name, value, qs) ==
  /\ Has(qs, name) /\ Get(qs, name) = value
  /\ \A n : n # name => (Has(qs, n) <=> Has(ps, n)) /\ Get(qs, n) = Get(ps, n)

\* set_property() changes the value of its property and of no other.
LEMMA SetChangesOne ==
  ASSUME NEW S, NEW ps \in Seq(S), NEW name, NEW value
  PROVE  LET qs == Set(ps, name, value) IN
         /\ qs \in Seq(S \cup {Property(name, value)})
         /\ IsSet(ps, name, value, qs)
<1> DEFINE T  == S \cup {Property(name, value)}
           qs == Set(ps, name, value)
<1>1. /\ Len(ps) \in Nat /\ ps \in Seq(T)
      /\ Property(name, value).name = name /\ Property(name, value).value = value
  BY LenProperties, SeqMonotonic DEF Property
<1>2. CASE Has(ps, name)
  <2> DEFINE f == First(ps, name)
  <2>1. f \in Positions(ps, name) /\ \A j \in Positions(ps, name) : f <= j
    BY <1>2, FirstIsLeast
  <2>2. qs = [ps EXCEPT ![f] = Property(name, value)]
    BY <1>2 DEF Set
  <2> HIDE DEF f, qs
  <2>3. f \in 1 .. Len(ps) /\ ps[f].name = name
    BY <2>1 DEF Positions
  <2>4. /\ qs \in Seq(T) /\ Len(qs) = Len(ps)
        /\ \A i \in 1 .. Len(ps) : qs[i] = IF i = f THEN Property(name, value) ELSE ps[i]
    BY <1>1, <2>2, <2>3, ExceptSeq
  <2>5. \A n : Positions(qs, n) = Positions(ps, n)
    BY <1>1, <2>3, <2>4 DEF Positions
  <2>6. Has(qs, name) /\ Get(qs, name) = value
    BY <1>1, <2>1, <2>3, <2>4, <2>5, GetIsFirst
  <2>7. ASSUME NEW n, n # name
        PROVE  (Has(qs, n) <=> Has(ps, n)) /\ Get(qs, n) = Get(ps, n)
    <3>1. \A i \in Positions(ps, n) : ps[i].value = qs[i].value
      BY <2>3, <2>4, <2>7 DEF Positions
    <3> QED
      BY <2>5, <3>1, SamePositions
  <2> QED
    BY <2>4, <2>6, <2>7 DEF qs, IsSet
<1>3. CASE ~Has(ps, name)
  <2>1. qs = Append(ps, Property(name, value))
    BY <1>3 DEF Set
  <2> HIDE DEF qs
  <2>2. /\ qs \in Seq(T) /\ Len(qs) = Len(ps) + 1 /\ qs[Len(ps) + 1] = Property(name, value)
        /\ \A i \in 1 .. Len(ps) : qs[i] = ps[i]
    BY <1>1, <2>1, AppendProperties
  <2>3. ASSUME NEW n, n # name PROVE Positions(qs, n) = Positions(ps, n)
    BY <1>1, <2>2, <2>3 DEF Positions
  <2>4. \A n, i : i \in Positions(ps, n) => ps[i].value = qs[i].value
    BY <2>2 DEF Positions
  <2>5. ASSUME NEW n, n # name
        PROVE  (Has(qs, n) <=> Has(ps, n)) /\ Get(qs, n) = Get(ps, n)
    BY <2>3, <2>4, <2>5, SamePositions
  <2>6. Positions(qs, name) = {Len(ps) + 1}
    BY <1>1, <1>3, <2>2 DEF Positions, Has
  <2>7. Has(qs, name) /\ Get(qs, name) = value
    <3> DEFINE i == Len(ps) + 1
    <3>1. i \in Positions(qs, name) /\ \A j \in Positions(qs, name) : i <= j
      BY <1>1, <2>6
    <3>2. qs[i] = Property(name, value)
      BY <2>2
    <3> HIDE DEF i
    <3> QED
      BY <1>1, <2>2, <3>1, <3>2, GetIsFirst
  <2> QED
    BY <2>2, <2>5, <2>7 DEF qs, IsSet
<1> QED
  BY <1>2, <1>3

\* A list after another: the first one is asked first.
LEMMA GetOfConcat ==
  ASSUME NEW S, NEW ps \in Seq(S), NEW qs \in Seq(S), NEW name
  PROVE  /\ Has(ps \o qs, name) <=> Has(ps, name) \/ Has(qs, name)
         /\ Get(ps \o qs, name) = IF Has(ps, name) THEN Get(ps, name) ELSE Get(qs, name)
<1> DEFINE both == ps \o qs
           m    == Len(ps)
<1>1. /\ both \in Seq(S) /\ Len(both) = m + Len(qs) /\ m \in Nat /\ Len(qs) \in Nat
      /\ \A i \in 1 .. m + Len(qs) : both[i] = IF i <= m THEN ps[i] ELSE qs[i - m]
  BY ConcatProperties, LenProperties
<1> HIDE DEF both, m
<1>2. ASSUME NEW i \in Positions(ps, name) PROVE i \in Positions(both, name) /\ both[i] = ps[i]
  BY <1>1 DEF Positions, m
<1>3. ASSUME NEW i \in Positions(qs, name)
      PROVE  i + m \in Positions(both, name) /\ both[i + m] = qs[i]
  BY <1>1 DEF Positions
<1>4. ASSUME NEW j \in Positions(both, name)
      PROVE  j \in Positions(ps, name) \/ (j - m \in Positions(qs, name) /\ j > m)
  BY <1>1 DEF Positions, m
<1>5. CASE Has(ps, name)
  <2> DEFINE i == First(ps, name)
  <2>1. i \in Positions(ps, name) /\ \A j \in Positions(ps, name) : i <= j
    BY <1>5, FirstIsLeast
  <2> HIDE DEF i
  <2>2. i \in 1 .. m
    BY <2>1 DEF Positions, m
  <2>3. \A j \in Positions(both, name) : i <= j
    <3> SUFFICES ASSUME NEW j \in Positions(both, name) PROVE i <= j
      OBVIOUS
    <3>1. j \in Nat
      BY <1>1 DEF Positions
    <3> QED
      BY <1>1, <1>4, <2>1, <2>2, <3>1
  <2>4. Has(both, name) /\ Get(both, name) = both[i].value
    BY <1>1, <1>2, <2>1, <2>3, GetIsFirst
  <2>5. Get(ps, name) = ps[i].value
    BY <2>1, GetIsFirst
  <2> QED
    BY <1>2, <1>5, <2>1, <2>4, <2>5 DEF both
<1>6. CASE ~Has(ps, name) /\ Has(qs, name)
  <2> DEFINE i == First(qs, name)
  <2>1. i \in Positions(qs, name) /\ \A j \in Positions(qs, name) : i <= j
    BY <1>6, FirstIsLeast
  <2> HIDE DEF i
  <2>2. i \in 1 .. Len(qs)
    BY <2>1 DEF Positions
  <2>3. \A j \in Positions(both, name) : i + m <= j
    <3> SUFFICES ASSUME NEW j \in Positions(both, name) PROVE i + m <= j
      OBVIOUS
    <3>1. j \in Nat
      BY <1>1 DEF Positions
    <3>2. j - m \in Positions(qs, name)
      BY <1>4, <1>6 DEF Has
    <3>3. i <= j - m
      BY <2>1, <3>2
    <3> QED
      BY <1>1, <2>2, <3>1, <3>3
  <2>4. Has(both, name) /\ Get(both, name) = both[i + m].value
    BY <1>1, <1>3, <2>1, <2>3, GetIsFirst
  <2>5. Get(qs, name) = qs[i].value
    BY <2>1, GetIsFirst
  <2> QED
    BY <1>3, <1>6, <2>1, <2>4, <2>5 DEF both
<1>7. CASE ~Has(ps, name) /\ ~Has(qs, name)
  <2>1. ~Has(both, name)
    BY <1>4, <1>7 DEF Has
  <2> QED
    BY <1>7, <2>1 DEF Get, both
<1> QED
  BY <1>5, <1>6, <1>7

\* The list without the element at f.
LEMMA WithoutIs ==
  ASSUME NEW S, NEW ps \in Seq(S), NEW f \in 1 .. Len(ps)
  PROVE  LET qs == SubSeq(ps, 1, f - 1) \o SubSeq(ps, f + 1, Len(ps)) IN
         /\ qs \in Seq(S) /\ Len(qs) = Len(ps) - 1
         /\ \A i \in 1 .. Len(ps) - 1 : qs[i] = IF i < f THEN ps[i] ELSE ps[i + 1]
<1> DEFINE n    == Len(ps)
           low  == SubSeq(ps, 1, f - 1)
           high == SubSeq(ps, f + 1, n)
<1>1. /\ n \in Nat /\ f \in Int /\ f - 1 \in Int /\ f + 1 \in Int /\ n \in Int /\ 1 \in Int
      /\ \A i \in 1 .. f - 1 : ps[i] \in S
      /\ \A i \in f + 1 .. n : ps[i] \in S
  BY LenProperties
<1> HIDE DEF n
<1>2. f \in 1 .. n
  BY DEF n
<1>3. /\ low \in Seq(S) /\ Len(low) = (IF 1 <= f - 1 THEN (f - 1) - 1 + 1 ELSE 0)
      /\ \A i \in 1 .. (f - 1) - 1 + 1 : low[i] = ps[1 + i - 1]
  BY <1>1, SubSeqProperties
<1>4. /\ high \in Seq(S) /\ Len(high) = (IF f + 1 <= n THEN n - (f + 1) + 1 ELSE 0)
      /\ \A i \in 1 .. n - (f + 1) + 1 : high[i] = ps[(f + 1) + i - 1]
  BY <1>1, SubSeqProperties
<1> HIDE DEF low, high
<1>5. /\ Len(low) = f - 1 /\ \A i \in 1 .. f - 1 : low[i] = ps[i]
  BY <1>2, <1>3
<1>6. /\ Len(high) = n - f /\ \A i \in 1 .. n - f : high[i] = ps[f + i]
  <2>1. Len(high) = n - f
    BY <1>1, <1>2, <1>4
  <2>2. ASSUME NEW i \in 1 .. n - f PROVE high[i] = ps[f + i]
    <3>1. i \in 1 .. n - (f + 1) + 1 /\ (f + 1) + i - 1 = f + i
      BY <1>1, <1>2
    <3> QED
      BY <1>4, <3>1
  <2> QED
    BY <2>1, <2>2
<1>7. /\ low \o high \in Seq(S) /\ Len(low \o high) = Len(low) + Len(high)
      /\ \A i \in 1 .. Len(low) + Len(high) :
           (low \o high)[i] = IF i <= Len(low) THEN low[i] ELSE high[i - Len(low)]
  BY <1>3, <1>4, ConcatProperties
<1>8. Len(low) + Len(high) = n - 1
  BY <1>1, <1>2, <1>5, <1>6
<1>9. ASSUME NEW i \in 1 .. n - 1
      PROVE  (low \o high)[i] = IF i < f THEN ps[i] ELSE ps[i + 1]
  <2>1. CASE i < f
    BY <1>1, <1>2, <1>5, <1>7, <1>8, <2>1
  <2>2. CASE ~(i < f)
    <3>1. i - (f - 1) \in 1 .. n - f /\ f + (i - (f - 1)) = i + 1
      BY <1>1, <1>2, <2>2
    <3> QED
      BY <1>1, <1>2, <1>5, <1>6, <1>7, <1>8, <2>2, <3>1
  <2> QED
    BY <2>1, <2>2
<1> QED
  BY <1>7, <1>8, <1>9 DEF low, high, n

\* erase_property() takes its property away, if it is there once, and no other.
LEMMA EraseErasesOne ==
  ASSUME NEW S, NEW ps \in Seq(S), NEW name
  PROVE  LET qs == Erase(ps, name) IN
         /\ qs \in Seq(S)
         /\ (\A i, j \in Positions(ps, name) : i = j) => ~Has(qs, name)
         /\ \A n : n # name => (Has(qs, n) <=> Has(ps, n)) /\ Get(qs, n) = Get(ps, n)
<1>1. CASE ~Has(ps, name)
  BY <1>1 DEF Erase
<1>2. CASE Has(ps, name)
  <2> DEFINE f     == First(ps, name)
             m     == Len(ps)
             qs    == Erase(ps, name)
             at(i) == IF i < f THEN i ELSE i + 1
  <2>1. f \in Positions(ps, name)
    BY <1>2, FirstIsLeast
  <2>2. qs = SubSeq(ps, 1, f - 1) \o SubSeq(ps, f + 1, Len(ps))
    BY <1>2 DEF Erase
  <2> HIDE DEF f
  <2>3. f \in 1 .. Len(ps) /\ ps[f].name = name
    BY <2>1 DEF Positions
  <2> HIDE DEF qs
  <2>4. /\ qs \in Seq(S) /\ Len(qs) = m - 1 /\ m \in Nat /\ f \in 1 .. m
        /\ \A i \in 1 .. m - 1 : qs[i] = IF i < f THEN ps[i] ELSE ps[i + 1]
    BY <2>2, <2>3, WithoutIs, LenProperties
  <2> HIDE DEF m
  <2>5. ASSUME NEW n, NEW i \in Positions(qs, n)
        PROVE  at(i) \in Positions(ps, n) /\ at(i) # f /\ qs[i] = ps[at(i)]
    BY <2>4 DEF Positions, m
  <2>6. ASSUME \A i, j \in Positions(ps, name) : i = j PROVE ~Has(qs, name)
    BY <2>1, <2>5, <2>6 DEF Has
  <2>7. ASSUME NEW n, n # name
        PROVE  (Has(qs, n) <=> Has(ps, n)) /\ Get(qs, n) = Get(ps, n)
    <3>1. CASE ~Has(ps, n)
      <4>1. ~Has(qs, n)
        BY <2>5, <3>1 DEF Has
      <4> QED
        BY <3>1, <4>1 DEF Get
    <3>2. CASE Has(ps, n)
      <4> DEFINE p == First(ps, n)
                 i == IF p < f THEN p ELSE p - 1
      <4>1. p \in Positions(ps, n) /\ \A j \in Positions(ps, n) : p <= j
        BY <3>2, FirstIsLeast
      <4> HIDE DEF p
      <4>2. p \in 1 .. m /\ p # f /\ ps[p].name = n
        BY <2>3, <2>7, <4>1 DEF Positions, m
      <4>3. i \in 1 .. m - 1 /\ at(i) = p
        BY <2>4, <4>2
      <4>4. qs[i] = ps[p]
        BY <2>4, <4>3
      <4>5. i \in Positions(qs, n)
        BY <2>4, <4>2, <4>3, <4>4 DEF Positions
      <4>6. \A j \in Positions(qs, n) : i <= j
        <5> SUFFICES ASSUME NEW j \in Positions(qs, n) PROVE i <= j
          OBVIOUS
        <5>1. j \in Nat /\ p <= at(j)
          BY <2>4, <2>5, <4>1 DEF Positions
        <5> QED
          BY <2>4, <4>2, <5>1
      <4> HIDE DEF i
      <4>7. Has(qs, n) /\ Get(qs, n) = qs[i].value
        BY <2>4, <4>5, <4>6, GetIsFirst
      <4>8. Get(ps, n) = ps[p].value
        BY <4>1, GetIsFirst
      <4> QED
        BY <3>2, <4>4, <4>7, <4>8
    <3> QED
      BY <3>1, <3>2
  <2> QED
    BY <2>4, <2>6, <2>7 DEF qs
<1> QED
  BY <1>1, <1>2

\* Parsed: what the client said of its connection is said in Connection, and
\* nothing else is changed.
LEMMA ParsedSaysConnection ==
  ASSUME NEW S, NEW ps \in Seq(S), \A i, j \in Positions(ps, "proxy-connection") : i = j
  PROVE  LET qs == Parsed(ps) IN
         /\ \E T : qs \in Seq(T)
         /\ Get(qs, "connection") = Said(ps) /\ ~Has(qs, "proxy-connection")
         /\ \A n : n \notin {"connection", "proxy-connection"} =>
              (Has(qs, n) <=> Has(ps, n)) /\ Get(qs, n) = Get(ps, n)
<1> DEFINE qs    == Parsed(ps)
           rest  == Erase(ps, "proxy-connection")
           value == Get(ps, "proxy-connection")
           set   == Set(rest, "connection", value)
<1>1. CASE ~Has(ps, "proxy-connection")
  BY <1>1 DEF Parsed, Said, Get
<1>2. CASE Has(ps, "proxy-connection")
  <2>1. /\ rest \in Seq(S) /\ ~Has(rest, "proxy-connection")
        /\ \A n : n # "proxy-connection" => (Has(rest, n) <=> Has(ps, n)) /\ Get(rest, n) = Get(ps, n)
    BY EraseErasesOne
  <2>2. qs = IF Has(rest, "connection") THEN rest ELSE set
    BY <1>2 DEF Parsed
  <2> HIDE DEF rest, value, qs
  <2>3. CASE Has(rest, "connection")
    BY <2>1, <2>2, <2>3 DEF Said, qs
  <2>4. CASE ~Has(rest, "connection")
    <3>1. /\ set \in Seq(S \cup {Property("connection", value)})
          /\ IsSet(rest, "connection", value, set)
      BY <2>1, SetChangesOne
    <3> HIDE DEF set
    <3>2. Said(ps) = value
      BY <2>1, <2>4 DEF Said, value
    <3> QED
      BY <2>1, <2>2, <2>4, <3>1, <3>2 DEF qs, IsSet
  <2> QED
    BY <2>3, <2>4
<1> QED
  BY <1>1, <1>2

\* A header that is a list of whatever, so that nothing need be said of its values.
Lines(ps) == \E S : ps \in Seq(S)

\* set_property() of such a header.
LEMMA SetSets ==
  ASSUME NEW ps, Lines(ps), NEW name, NEW value
  PROVE  Lines(Set(ps, name, value)) /\ IsSet(ps, name, value, Set(ps, name, value))
BY SetChangesOne DEF Lines

\* make_validate_header(): the host and the connection are those of the request,
\* the condition is made of the validators of the copy.
LEMMA ValidationAsks ==
  ASSUME NEW ps, NEW copy
  PROVE  LET qs == MakeValidateHeader(ps, copy) IN
         /\ Get(qs, "host") = Get(ps, "host")
         /\ Get(qs, "connection") = Get(ps, "connection")
         /\ ~Has(qs, "proxy-connection")
         /\ Has(qs, "if-none-match") <=> Has(copy, "etag")
         /\ Has(copy, "etag") => Get(qs, "if-none-match") = Get(copy, "etag")
         /\ Has(qs, "if-modified-since") <=> Has(copy, "last-modified")
         /\ Has(copy, "last-modified") => Get(qs, "if-modified-since") = Get(copy, "last-modified")
<1> DEFINE host  == Set(<<>>, "host", Get(ps, "host"))
           etag  == IF Has(copy, "etag")
                      THEN Set(host, "if-none-match", Get(copy, "etag")) ELSE host
           since == IF Has(copy, "last-modified")
                      THEN Set(etag, "if-modified-since", Get(copy, "last-modified")) ELSE etag
           qs    == Set(since, "connection", Get(ps, "connection"))
<1>0. MakeValidateHeader(ps, copy) = qs
  BY DEF MakeValidateHeader
<1>1. Lines(<<>>) /\ \A n : ~Has(<<>>, n)
  <2>1. <<>> \in Seq({})
    OBVIOUS
  <2> QED
    BY <2>1 DEF Has, Positions, Lines
<1>2. host = Set(<<>>, "host", Get(ps, "host"))
  OBVIOUS
<1>3. etag = IF Has(copy, "etag") THEN Set(host, "if-none-match", Get(copy, "etag")) ELSE host
  OBVIOUS
<1>4. since = IF Has(copy, "last-modified")
                THEN Set(etag, "if-modified-since", Get(copy, "last-modified")) ELSE etag
  OBVIOUS
<1>5. qs = Set(since, "connection", Get(ps, "connection"))
  OBVIOUS
<1> HIDE DEF host, etag, since, qs
<1>6. /\ Lines(host) /\ Get(host, "host") = Get(ps, "host")
      /\ \A n : n # "host" => ~Has(host, n)
  <2>1. Lines(host) /\ IsSet(<<>>, "host", Get(ps, "host"), host)
    BY <1>1, <1>2, SetSets
  <2> QED
    BY <1>1, <2>1 DEF IsSet
<1>7. /\ Lines(etag) /\ Get(etag, "host") = Get(ps, "host")
      /\ Has(etag, "if-none-match") <=> Has(copy, "etag")
      /\ Has(copy, "etag") => Get(etag, "if-none-match") = Get(copy, "etag")
      /\ \A n : n \notin {"host", "if-none-match"} => ~Has(etag, n)
  <2>1. CASE Has(copy, "etag")
    <3>1. Lines(etag) /\ IsSet(host, "if-none-match", Get(copy, "etag"), etag)
      BY <1>3, <1>6, <2>1, SetSets
    <3> QED
      BY <1>6, <2>1, <3>1 DEF IsSet
  <2>2. CASE ~Has(copy, "etag")
    BY <1>3, <1>6, <2>2
  <2> QED
    BY <2>1, <2>2
<1>8. /\ Lines(since) /\ Get(since, "host") = Get(ps, "host")
      /\ Has(since, "if-none-match") <=> Has(copy, "etag")
      /\ Has(copy, "etag") => Get(since, "if-none-match") = Get(copy, "etag")
      /\ Has(since, "if-modified-since") <=> Has(copy, "last-modified")
      /\ Has(copy, "last-modified") => Get(since, "if-modified-since") = Get(copy, "last-modified")
      /\ \A n : n \notin {"host", "if-none-match", "if-modified-since"} => ~Has(since, n)
  <2>1. CASE Has(copy, "last-modified")
    <3>1. Lines(since) /\ IsSet(etag, "if-modified-since", Get(copy, "last-modified"), since)
      BY <1>4, <1>7, <2>1, SetSets
    <3> QED
      BY <1>7, <2>1, <3>1 DEF IsSet
  <2>2. CASE ~Has(copy, "last-modified")
    BY <1>4, <1>7, <2>2
  <2> QED
    BY <2>1, <2>2
<1>9. IsSet(since, "connection", Get(ps, "connection"), qs)
  BY <1>5, <1>8, SetSets
<1> QED
  BY <1>0, <1>8, <1>9 DEF IsSet

-----------------------------------------------------------------------------
(***************************************************************************)
(* The inductive invariant.  A stored response is one that a server gave   *)
(* for its key, and its validators are those of the version it shows; a    *)
(* copy that a connection keeps stays that, whatever becomes of the cache. *)
(***************************************************************************)
\* The validators of a response that shows a version are those of the version.
Shows(r) ==
  r.of \in Version => \A n \in {"etag", "last-modified"} :
                        Has(r.properties, n) => Get(r.properties, n) = r.of

AnswerTo(u, r) == r \in Responses /\ r.url = u /\ Shows(r)

CopyOf(u, r) ==
  AnswerTo(u, r) /\ (Has(r.properties, "etag") \/ Has(r.properties, "last-modified"))

\* The map of limited size, with a copy of what is at each key.
Kept(f) ==
  /\ f.order \in Seq(Url) /\ Len(f.order) <= MaxSize
  /\ DOMAIN f.stored = Store!ToSet(f.order)
  /\ \A u \in DOMAIN f.stored : CopyOf(u, f.stored[u])

\* What is asked of the server is the request, or the validation of the copy.
Asks(x) ==
  /\ x.sent \in Requests
  /\ x.rqst = [x.sent EXCEPT !.properties = Parsed(@)]
  /\ x.asked = IF x.copy = None THEN x.rqst
               ELSE [x.rqst EXCEPT !.properties = MakeValidateHeader(@, x.copy.properties)]

\* What the client may be answered with is at its URL.
Serves(x) ==
  /\ x.copy # None => CopyOf(Target(x.rqst), x.copy)
  /\ x.resp # None => AnswerTo(Target(x.rqst), x.resp)
  /\ x.phase = "validating" => x.copy # None
  /\ x.phase = "transferring" => x.copy = None
  /\ x.phase = "answered" => x.resp # None

\* shown has the current version, and the copy that a server confirmed.
Sees(x, versions) ==
  /\ x.shown \subseteq Version
  /\ versions[Target(x.rqst)] \in x.shown
  /\ x.copy # None /\ x.resp # None /\ x.resp.code = 304 /\ x.copy.of \in Version
       => x.copy.of \in x.shown

Connection(x, versions) ==
  /\ x = [phase |-> x.phase, sent |-> x.sent, rqst |-> x.rqst, asked |-> x.asked,
          copy |-> x.copy, resp |-> x.resp, shown |-> x.shown]
  /\ x.phase \in {"idle", "validating", "transferring", "answered"}
  /\ x.phase = "idle" => x = Idle
  /\ x.phase # "idle" => Asks(x) /\ Serves(x) /\ Sees(x, versions)

IInv ==
  /\ Kept(cache)
  /\ origin \in [Url -> Version]
  /\ conn = [c \in Conn |-> conn[c]]
  /\ \A c \in Conn : Connection(conn[c], origin)

-----------------------------------------------------------------------------
(***************************************************************************)
(* The map of limited size.                                                *)
(***************************************************************************)
\* A map that keeps some of its keys keeps their copies.
LEMMA KeepingKept ==
  ASSUME NEW f, Kept(f), NEW keys \in Seq(Url), Len(keys) <= MaxSize,
         Store!ToSet(keys) \subseteq Store!ToSet(f.order)
  PROVE  Kept(Store!Keeping(f, keys))
<1> DEFINE g == Store!Keeping(f, keys)
<1>1. /\ g.order = keys /\ DOMAIN g.stored = Store!ToSet(keys)
      /\ \A u \in Store!ToSet(keys) : g.stored[u] = f.stored[u]
  BY DEF Store!Keeping, Store!Restrict
<1> HIDE DEF g
<1> QED
  BY <1>1 DEF Kept, g

\* MakeRoom.
LEMMA MakeRoomKept ==
  ASSUME NEW f, Kept(f)
  PROVE  Kept(Store!MakeRoom(f)) /\ Len(Store!MakeRoom(f).order) < MaxSize
<1>1. /\ f.order \in Seq(Url) /\ Len(f.order) \in Nat /\ Len(f.order) <= MaxSize
      /\ MaxSize \in Nat \ {0}
  BY CacheAssumption, LenProperties DEF Kept
<1>2. CASE Len(f.order) # MaxSize
  BY <1>1, <1>2 DEF Store!MakeRoom
<1>3. CASE Len(f.order) = MaxSize
  <2> DEFINE keys == Tail(f.order)
  <2>1. /\ keys \in Seq(Url) /\ Len(keys) = MaxSize - 1
        /\ \A i \in 1 .. Len(keys) : keys[i] = f.order[i + 1]
    BY <1>1, <1>3, HeadTailProperties, EmptySeq
  <2>2. Store!MakeRoom(f) = Store!Keeping(f, keys)
    BY <1>3 DEF Store!MakeRoom
  <2> HIDE DEF keys
  <2>3. Store!ToSet(keys) \subseteq Store!ToSet(f.order)
    <3>1. \A i \in DOMAIN keys : i + 1 \in DOMAIN f.order /\ keys[i] = f.order[i + 1]
      BY <1>1, <1>3, <2>1, LenProperties
    <3> QED
      BY <3>1 DEF Store!ToSet
  <2>4. Kept(Store!Keeping(f, keys))
    BY <1>1, <2>1, <2>3, KeepingKept
  <2>5. Store!Keeping(f, keys).order = keys
    BY DEF Store!Keeping
  <2> QED
    BY <1>1, <2>1, <2>2, <2>4, <2>5
<1> QED
  BY <1>2, <1>3

\* Put, of a copy of what is at the key.
LEMMA PutKept ==
  ASSUME NEW f, Kept(f), Len(f.order) < MaxSize, NEW u \in Url, NEW r, CopyOf(u, r)
  PROVE  Kept(Store!Put(f, u, r))
<1>1. /\ f.order \in Seq(Url) /\ Len(f.order) \in Nat
      /\ MaxSize \in Nat \ {0}
  BY CacheAssumption, LenProperties DEF Kept
<1>2. CASE Store!Has(f, u)
  BY <1>2 DEF Store!Put
<1>3. CASE ~Store!Has(f, u)
  <2> DEFINE g    == Store!Put(f, u, r)
             keys == Append(f.order, u)
  <2>1. /\ keys \in Seq(Url) /\ Len(keys) = Len(f.order) + 1 /\ keys[Len(f.order) + 1] = u
        /\ \A i \in 1 .. Len(f.order) : keys[i] = f.order[i]
    BY <1>1, AppendProperties
  <2>2. /\ g.order = keys /\ DOMAIN g.stored = DOMAIN f.stored \cup {u}
        /\ \A x \in DOMAIN f.stored \cup {u} : g.stored[x] = IF x = u THEN r ELSE f.stored[x]
    BY <1>3 DEF Store!Put
  <2> HIDE DEF g, keys
  <2>3. Store!ToSet(keys) = Store!ToSet(f.order) \cup {u}
    <3>1. DOMAIN keys = 1 .. Len(f.order) + 1 /\ DOMAIN f.order = 1 .. Len(f.order)
      BY <1>1, <2>1, LenProperties
    <3> QED
      BY <1>1, <2>1, <3>1 DEF Store!ToSet
  <2> QED
    BY <1>1, <2>1, <2>2, <2>3 DEF Kept, g
<1> QED
  BY <1>2, <1>3

\* Erased.
LEMMA ErasedKept ==
  ASSUME NEW f, Kept(f), NEW u
  PROVE  Kept(Store!Erased(f, u))
<1>1. /\ f.order \in Seq(Url) /\ Len(f.order) \in Nat /\ Len(f.order) <= MaxSize
      /\ MaxSize \in Nat \ {0} /\ DOMAIN f.order = 1 .. Len(f.order)
  BY CacheAssumption, LenProperties DEF Kept
<1> DEFINE keys == Store!RemoveFirst(f.order, u)
           I    == {i \in 1 .. Len(f.order) : f.order[i] = u}
<1>2. keys \in Seq(Url) /\ Len(keys) <= MaxSize /\ Store!ToSet(keys) \subseteq Store!ToSet(f.order)
  <2>1. CASE I = {}
    <3>1. keys = f.order
      BY <2>1 DEF Store!RemoveFirst
    <3> QED
      BY <1>1, <3>1
  <2>2. CASE I # {}
    <3>1. Store!SelectInSeq(f.order, LAMBDA v : v = u) = Store!Min(I)
      BY <2>2 DEF Store!SelectInSeq
    <3> DEFINE p == Store!Min(I)
    <3>2. I \subseteq Nat
      OBVIOUS
    <3>3. keys = SubSeq(f.order, 1, p - 1) \o SubSeq(f.order, p + 1, Len(f.order))
      BY <2>2, <3>1 DEF Store!RemoveFirst, Store!RemoveAt
    <3> HIDE DEF I
    <3>4. \E i \in I : \A j \in I : i <= j
      BY <2>2, <3>2, Least
    <3>5. p \in I
      BY <3>4 DEF Store!Min
    <3> HIDE DEF p
    <3>6. p \in 1 .. Len(f.order)
      BY <3>5 DEF I
    <3> HIDE DEF keys
    <3>7. /\ keys \in Seq(Url) /\ Len(keys) = Len(f.order) - 1
          /\ \A i \in 1 .. Len(f.order) - 1 : keys[i] = IF i < p THEN f.order[i] ELSE f.order[i + 1]
      BY <1>1, <3>3, <3>6, WithoutIs
    <3>8. \A i \in DOMAIN keys : \E j \in DOMAIN f.order : keys[i] = f.order[j]
      <4> SUFFICES ASSUME NEW i \in 1 .. Len(f.order) - 1
                   PROVE  \E j \in 1 .. Len(f.order) : keys[i] = f.order[j]
        BY <1>1, <3>7, LenProperties
      <4>1. i \in 1 .. Len(f.order) /\ i + 1 \in 1 .. Len(f.order)
        BY <1>1
      <4> QED
        BY <3>7, <4>1
    <3> QED
      BY <1>1, <3>7, <3>8 DEF Store!ToSet
  <2> QED
    BY <2>1, <2>2
<1> HIDE DEF keys
<1>3. Store!Erased(f, u) = Store!Keeping(f, keys)
  BY DEF Store!Erased, keys
<1> QED
  BY <1>2, <1>3, KeepingKept

\* Inserted.
LEMMA InsertedKept ==
  ASSUME NEW f, Kept(f), NEW u \in Url, NEW r, CopyOf(u, r)
  PROVE  Kept(Store!Inserted(f, u, r))
BY MakeRoomKept, PutKept DEF Store!Inserted

-----------------------------------------------------------------------------
(***************************************************************************)
(* Requests and answers.                                                   *)
(***************************************************************************)
\* Of a request, the host is asked first, and what it says of its connection is
\* said once.
LEMMA RequestIs ==
  ASSUME NEW sent \in Requests
  PROVE  LET r == [sent EXCEPT !.properties = Parsed(@)] IN
         /\ r.type = sent.type /\ r.path = sent.path /\ r.properties = Parsed(sent.properties)
         /\ r = [type |-> r.type, path |-> r.path, properties |-> r.properties]
         /\ Target(r) \in Url
         /\ Get(r.properties, "connection") = Said(sent.properties)
         /\ ~Has(r.properties, "proxy-connection")
<1>1. PICK h \in Host, p \in Path, t \in Type, hop \in Hops, c \in Condition :
        sent = Request(h, p, t, hop, c)
  BY DEF Requests
<1> DEFINE host == <<Property("host", h)>>
           ps   == host \o hop \o c
           r    == [sent EXCEPT !.properties = Parsed(@)]
           S    == {Property("host", h)} \cup {hop[i] : i \in DOMAIN hop}
                     \cup {Property("if-none-match", v) : v \in Known}
<1>2. /\ hop \in Seq({hop[i] : i \in DOMAIN hop})
      /\ \A i, j \in Positions(hop, "proxy-connection") : i = j
  BY HopsAssumption DEF ListOfProperties
<1>3. host \in Seq(S) /\ Len(host) = 1 /\ host[1] = Property("host", h)
  OBVIOUS
<1>4. hop \in Seq(S)
  BY <1>2, SeqMonotonic
<1>5. c \in Seq(S) /\ \A i \in 1 .. Len(c) : c[i].name = "if-none-match"
  <2>1. CASE c = <<>>
    BY <2>1
  <2>2. ASSUME NEW v \in Known, c = <<Property("if-none-match", v)>>
        PROVE  c \in Seq(S) /\ \A i \in 1 .. Len(c) : c[i].name = "if-none-match"
    <3>1. Property("if-none-match", v) \in S /\ Property("if-none-match", v).name = "if-none-match"
      BY DEF Property
    <3> HIDE DEF S
    <3> QED
      BY <2>2, <3>1
  <2> QED
    BY <2>1, <2>2 DEF Condition
<1>6. sent = [type |-> t, path |-> p, properties |-> ps]
  BY <1>1 DEF Request
<1> HIDE DEF S, host
<1> DEFINE m == Len(hop)
           n == Len(c)
<1>7. m \in Nat /\ n \in Nat
  BY <1>4, <1>5, LenProperties
<1> DEFINE front == host \o hop
<1>8. /\ front \in Seq(S) /\ Len(front) = 1 + m
      /\ \A i \in 1 .. 1 + m : front[i] = IF i <= 1 THEN host[i] ELSE hop[i - 1]
  <2>1. /\ front \in Seq(S) /\ Len(front) = Len(host) + Len(hop)
        /\ \A i \in 1 .. Len(host) + Len(hop) :
             front[i] = IF i <= Len(host) THEN host[i] ELSE hop[i - Len(host)]
    BY <1>3, <1>4, ConcatProperties
  <2> HIDE DEF front
  <2> QED
    BY <1>3, <2>1
<1>16. ps = front \o c
  OBVIOUS
<1> HIDE DEF ps, front
<1>9. /\ ps \in Seq(S) /\ Len(ps) = 1 + m + n
      /\ \A i \in 1 .. 1 + m + n : ps[i] = IF i <= 1 + m THEN front[i] ELSE c[i - (1 + m)]
  <2>1. /\ ps \in Seq(S) /\ Len(ps) = Len(front) + n
        /\ \A i \in 1 .. Len(front) + n : ps[i] = IF i <= Len(front) THEN front[i]
                                                ELSE c[i - Len(front)]
    BY <1>5, <1>8, <1>16, ConcatProperties
  <2>2. Len(front) = 1 + m
    BY <1>8
  <2> HIDE DEF m, n
  <2> QED
    BY <2>1, <2>2
<1> HIDE DEF m, n
<1>10. ASSUME NEW i \in Positions(ps, "proxy-connection")
       PROVE  i - 1 \in Positions(hop, "proxy-connection") /\ i \in Nat
  <2>1. i \in 1 .. 1 + m + n /\ ps[i].name = "proxy-connection"
    BY <1>9 DEF Positions
  <2>2. i <= 1 + m
    <3> SUFFICES ASSUME ~(i <= 1 + m) PROVE FALSE
      BY <1>7, <2>1
    <3>1. i - (1 + m) \in 1 .. n /\ ps[i] = c[i - (1 + m)]
      BY <1>7, <1>9, <2>1
    <3> QED
      BY <1>5, <2>1, <3>1 DEF n
  <2>3. ps[i] = IF i <= 1 THEN host[i] ELSE hop[i - 1]
    BY <1>7, <1>8, <1>9, <2>1, <2>2
  <2>4. i # 1
    BY <1>3, <2>1, <2>3 DEF Property
  <2>5. i - 1 \in 1 .. m /\ hop[i - 1].name = "proxy-connection"
    BY <1>7, <2>1, <2>2, <2>3, <2>4
  <2> QED
    BY <2>1, <2>5 DEF Positions, m
<1>11. \A i, j \in Positions(ps, "proxy-connection") : i = j
  <2> SUFFICES ASSUME NEW i \in Positions(ps, "proxy-connection"),
                      NEW j \in Positions(ps, "proxy-connection")
               PROVE  i = j
    OBVIOUS
  <2>1. i - 1 = j - 1 /\ i \in Nat /\ j \in Nat
    BY <1>2, <1>10
  <2> QED
    BY <2>1
<1>12. Get(ps, "host") = h
  <2>1. 1 \in 1 .. 1 + m + n /\ ps[1] = Property("host", h)
    BY <1>3, <1>7, <1>8, <1>9
  <2>2. 1 \in Positions(ps, "host") /\ \A j \in Positions(ps, "host") : 1 <= j
    BY <1>9, <2>1 DEF Positions, Property
  <2>3. Get(ps, "host") = ps[1].value
    BY <1>9, <2>2, GetIsFirst
  <2> QED
    BY <2>1, <2>3 DEF Property
<1>13. /\ Get(Parsed(ps), "connection") = Said(ps) /\ ~Has(Parsed(ps), "proxy-connection")
       /\ Get(Parsed(ps), "host") = h
  BY <1>9, <1>11, <1>12, ParsedSaysConnection
<1>14. r = [type |-> t, path |-> p, properties |-> Parsed(ps)]
  BY <1>6
<1>15. Target(r) = <<h, p>>
  BY <1>13, <1>14 DEF Target
<1> QED
  BY <1>6, <1>13, <1>14, <1>15 DEF Url

\* An answer is one of the responses, for the URL that was asked for, with the
\* validators of the version it shows, and 304 is answered to a condition that
\* the current version meets.
LEMMA AnswerIs ==
  ASSUME NEW asked, Target(asked) \in Url, NEW v \in Version, NEW r \in Answers(asked, v)
  PROVE  AnswerTo(Target(asked), r) /\ (r.code = 304 => Meets(asked.properties, v))
<1> DEFINE u == Target(asked)
<1>1. u \in Url /\ None \notin Version /\ 0 \notin Version
  BY NoneAssumption DEF Version
<1>8. ASSUME NEW w \in Version \cup {Outcome} PROVE Validators(w) \subseteq Headers
  <2>1. Validators(w) \subseteq UNION {Validators(x) : x \in Version \cup {Outcome}}
    OBVIOUS
  <2> QED
    BY <2>1 DEF Headers
<1> HIDE DEF u
<1>2. ASSUME NEW code \in {200, 304, 500}, NEW ps \in Headers, NEW of \in {None, Outcome},
             r = Response(code, ps, u, of)
      PROVE  AnswerTo(u, r)
  <2>1. r \in Responses
    BY <1>1, <1>2 DEF Responses
  <2>2. r.url = u /\ r.of \notin Version
    BY <1>1, <1>2 DEF Response, Outcome
  <2> QED
    BY <2>1, <2>2 DEF AnswerTo, Shows
<1>3. CASE r = Response(500, <<>>, u, None)
  <2>1. r.code = 500 /\ <<>> \in Headers
    BY <1>3, <1>8 DEF Response, Validators
  <2> QED
    BY <1>1, <1>2, <1>3, <2>1 DEF u
<1>4. CASE r = Response(200, <<Property("etag", Outcome)>>, u, Outcome)
  <2>1. r.code = 200
    BY <1>4 DEF Response
  <2>2. <<Property("etag", Outcome)>> \in Headers
    BY <1>8 DEF Validators
  <2> QED
    BY <1>2, <1>4, <2>1, <2>2 DEF u
<1>5. ASSUME Meets(asked.properties, v), NEW ps \in {<<Property("etag", v)>>, <<>>},
             r = Response(304, ps, u, None)
      PROVE  AnswerTo(u, r)
  <2>1. ps \in Headers
    BY <1>8 DEF Validators
  <2> QED
    BY <1>2, <1>5, <2>1
<1>6. ASSUME NEW vs \in Validators(v), NEW ms \in Marks, r = Response(200, vs \o ms, u, v)
      PROVE  AnswerTo(u, r) /\ r.code = 200
  <2>1. vs \o ms \in Headers
    <3>1. vs \in UNION {Validators(w) : w \in Version}
      OBVIOUS
    <3> DEFINE V == UNION {Validators(w) : w \in Version}
               H == {x \o y : x \in V, y \in Marks}
               U == UNION {Validators(w) : w \in Version \cup {Outcome}}
    <3>2. vs \o ms \in H
      BY <3>1
    <3>3. Headers = U \cup H
      BY DEF Headers
    <3> HIDE DEF H, U
    <3> QED
      BY <3>2, <3>3
  <2>2. r \in Responses
    BY <1>1, <1>6, <2>1 DEF Responses
  <2>3. r.url = u /\ r.of = v /\ r.code = 200 /\ r.properties = vs \o ms
    BY <1>6 DEF Response
  <2>4. ms \in Seq({ms[i] : i \in DOMAIN ms}) /\ ~Has(ms, "etag") /\ ~Has(ms, "last-modified")
    BY MarksAssumption DEF ListOfProperties
  <2> DEFINE S == {ms[i] : i \in DOMAIN ms} \cup {Property("etag", v), Property("last-modified", v)}
  <2>5. ms \in Seq(S)
    BY <2>4, SeqMonotonic
  <2>6. /\ vs \in Seq(S)
        /\ \A i \in 1 .. Len(vs) : vs[i].value = v
    <3>1. /\ Property("etag", v) \in S /\ Property("etag", v).value = v
          /\ Property("last-modified", v) \in S /\ Property("last-modified", v).value = v
      BY DEF Property
    <3> HIDE DEF S
    <3>2. CASE vs = <<>>
      BY <3>2
    <3>3. CASE vs = <<Property("etag", v)>>
      BY <3>1, <3>3
    <3>4. CASE vs = <<Property("last-modified", v)>>
      BY <3>1, <3>4
    <3> QED
      BY <3>2, <3>3, <3>4 DEF Validators
  <2> HIDE DEF S
  <2>7. ASSUME NEW n \in {"etag", "last-modified"}, Has(vs \o ms, n)
        PROVE  Get(vs \o ms, n) = v
    <3>1. ~Has(ms, n)
      BY <2>4
    <3>2. Has(vs, n) /\ Get(vs \o ms, n) = Get(vs, n)
      BY <2>5, <2>6, <2>7, <3>1, GetOfConcat
    <3>3. First(vs, n) \in Positions(vs, n)
      BY <2>6, <3>2, FirstIsLeast
    <3> QED
      BY <2>6, <3>2, <3>3 DEF Get, Positions
  <2> QED
    BY <2>2, <2>3, <2>7 DEF AnswerTo, Shows
<1>7. \/ r = Response(500, <<>>, u, None)
      \/ r = Response(200, <<Property("etag", Outcome)>>, u, Outcome)
      \/ Meets(asked.properties, v)
           /\ \E ps \in {<<Property("etag", v)>>, <<>>} : r = Response(304, ps, u, None)
      \/ \E vs \in Validators(v), ms \in Marks : r = Response(200, vs \o ms, u, v)
  BY DEF Answers, u
<1> QED
  BY <1>3, <1>4, <1>5, <1>6, <1>7 DEF u

\* The current version meets the condition of a copy only if the copy shows it.
LEMMA ConditionIsOfCopy ==
  ASSUME NEW u, NEW copy, CopyOf(u, copy), copy.of \in Version, NEW ps, NEW v,
         Meets(MakeValidateHeader(ps, copy.properties), v)
  PROVE  copy.of = v
BY ValidationAsks DEF CopyOf, AnswerTo, Shows, Meets

\* A validated request is for the same URL, and says the same of the connection.
LEMMA AskedIs ==
  ASSUME NEW x, Asks(x)
  PROVE  /\ Target(x.asked) = Target(x.rqst) /\ Target(x.rqst) \in Url
         /\ Get(x.asked.properties, "connection") = Said(x.sent.properties)
         /\ ~Has(x.asked.properties, "proxy-connection")
         /\ x.copy # None =>
              x.asked.properties = MakeValidateHeader(x.rqst.properties, x.copy.properties)
<1> DEFINE r == x.rqst
<1>1. /\ r = [type |-> r.type, path |-> r.path, properties |-> r.properties]
      /\ Target(r) \in Url /\ Get(r.properties, "connection") = Said(x.sent.properties)
      /\ ~Has(r.properties, "proxy-connection")
  BY RequestIs DEF Asks
<1>2. CASE x.copy = None
  BY <1>1, <1>2 DEF Asks
<1>3. CASE x.copy # None
  <2> DEFINE ps == MakeValidateHeader(r.properties, x.copy.properties)
  <2>1. x.asked = [r EXCEPT !.properties = ps]
    BY <1>3 DEF Asks
  <2>2. /\ Get(ps, "host") = Get(r.properties, "host")
        /\ Get(ps, "connection") = Get(r.properties, "connection")
        /\ ~Has(ps, "proxy-connection")
    BY ValidationAsks
  <2> HIDE DEF ps, r
  <2>3. x.asked = [type |-> r.type, path |-> r.path, properties |-> ps]
    BY <1>1, <2>1
  <2>4. x.asked.path = r.path /\ x.asked.properties = ps
    BY <2>3
  <2> QED
    BY <1>1, <2>2, <2>4 DEF Target, r, ps
<1> QED
  BY <1>2, <1>3

-----------------------------------------------------------------------------
(***************************************************************************)
(* One lemma per action.                                                   *)
(***************************************************************************)
\* A step of one connection leaves the others where they are.
LEMMA OneConnection ==
  ASSUME IInv, NEW c \in Conn, NEW y, conn' = [conn EXCEPT ![c] = y], UNCHANGED origin,
         Connection(y, origin), Kept(cache')
  PROVE  IInv'
<1>1. /\ conn' = [d \in Conn |-> conn'[d]]
      /\ \A d \in Conn : conn'[d] = IF d = c THEN y ELSE conn[d]
  BY DEF IInv
<1>2. \A d \in Conn : Connection(conn'[d], origin')
  BY <1>1 DEF IInv
<1>3. Kept(cache)'
  BY DEF Kept, Store!ToSet
<1>4. \A d \in Conn : Connection(conn[d], origin)'
  BY <1>2 DEF Connection, Asks, Serves, Sees, Idle
<1> QED
  BY <1>1, <1>3, <1>4 DEF IInv

\* A connection that is serving a request.
LEMMA ServingIs ==
  ASSUME IInv, NEW c \in Conn, conn[c].phase # "idle"
  PROVE  LET x == conn[c] IN
         /\ x = [phase |-> x.phase, sent |-> x.sent, rqst |-> x.rqst, asked |-> x.asked,
                 copy |-> x.copy, resp |-> x.resp, shown |-> x.shown]
         /\ x.phase \in {"validating", "transferring", "answered"}
         /\ Asks(x) /\ Serves(x) /\ Sees(x, origin)
BY DEF IInv, Connection

\* handle_client_request() starts from a copy of what is at the URL, or none.
LEMMA HandlesKeeps == ASSUME IInv, NEW c \in Conn, Handles(c) PROVE IInv'
<1>1. PICK sent \in Requests :
        LET r    == [sent EXCEPT !.properties = Parsed(@)]
            now  == origin[Target(r)]
            copy == IF GetType(r) = "GET" /\ Store!Has(cache, ToUrl(r))
                      THEN cache.stored[ToUrl(r)] ELSE None
        IN  conn' = [conn EXCEPT ![c] = [Started(r, copy) EXCEPT !.sent = sent, !.shown = {now}]]
  BY DEF Handles
<1> DEFINE r    == [sent EXCEPT !.properties = Parsed(@)]
           now  == origin[Target(r)]
           copy == IF GetType(r) = "GET" /\ Store!Has(cache, ToUrl(r))
                     THEN cache.stored[ToUrl(r)] ELSE None
           asked == IF copy = None THEN r
                    ELSE [r EXCEPT !.properties = MakeValidateHeader(@, copy.properties)]
           y    == [Started(r, copy) EXCEPT !.sent = sent, !.shown = {now}]
<1>2. conn' = [conn EXCEPT ![c] = y] /\ UNCHANGED <<cache, origin>>
  BY <1>1 DEF Handles
<1>3. Target(r) \in Url
  BY RequestIs
<1>4. copy # None => CopyOf(Target(r), copy)
  BY DEF IInv, Kept, Store!Has, ToUrl, Target
<1>5. now \in Version
  BY <1>3 DEF IInv
<1>8. r = [sent EXCEPT !.properties = Parsed(@)]
  OBVIOUS
<1>9. now = origin[Target(r)]
  OBVIOUS
<1> HIDE DEF r, now, copy
<1>6. y = [phase |-> IF copy = None THEN "transferring" ELSE "validating", sent |-> sent,
           rqst |-> r, asked |-> asked, copy |-> copy, resp |-> None, shown |-> {now}]
  <2> DEFINE s == Started(r, copy)
  <2>1. CASE copy = None
    <3>1. s = [Idle EXCEPT !.phase = "transferring", !.rqst = r, !.asked = r] /\ asked = r
      BY <2>1 DEF Started
    <3>2. y = [s EXCEPT !.sent = sent, !.shown = {now}]
      OBVIOUS
    <3> HIDE DEF s, asked, y
    <3> QED
      BY <2>1, <3>1, <3>2 DEF Idle
  <2>2. CASE copy # None
    <3>1. s = [Idle EXCEPT !.phase = "validating", !.rqst = r, !.copy = copy, !.asked = asked]
      BY <2>2 DEF Started
    <3>2. y = [s EXCEPT !.sent = sent, !.shown = {now}]
      OBVIOUS
    <3> HIDE DEF s, asked, y
    <3> QED
      BY <2>2, <3>1, <3>2 DEF Idle
  <2> QED
    BY <2>1, <2>2
<1> HIDE DEF asked, y
<1>7. /\ y.phase = (IF copy = None THEN "transferring" ELSE "validating") /\ y.sent = sent
      /\ y.rqst = r /\ y.asked = asked /\ y.copy = copy /\ y.resp = None /\ y.shown = {now}
  BY <1>6
<1>10. Asks(y)
  BY <1>7, <1>8 DEF Asks, asked
<1>11. Serves(y)
  BY <1>4, <1>7 DEF Serves
<1>12. Sees(y, origin)
  BY <1>5, <1>7, <1>9 DEF Sees
<1>13. Connection(y, origin)
  BY <1>6, <1>7, <1>10, <1>11, <1>12 DEF Connection
<1>14. Kept(cache')
  BY <1>2 DEF IInv
<1> QED
  BY <1>2, <1>13, <1>14, OneConnection

\* The copy is sent: it is what was validated.
LEMMA ConfirmedKeeps == ASSUME IInv, NEW c \in Conn, Confirmed(c) PROVE IInv'
<1> DEFINE x == conn[c]
           y == [x EXCEPT !.phase = "answered"]
<1>1. conn' = [conn EXCEPT ![c] = y] /\ UNCHANGED <<cache, origin>>
  BY DEF Confirmed
<1>2. /\ x.phase = "validating" /\ x.resp # None
      /\ x = [phase |-> x.phase, sent |-> x.sent, rqst |-> x.rqst, asked |-> x.asked,
              copy |-> x.copy, resp |-> x.resp, shown |-> x.shown]
      /\ Asks(x) /\ Serves(x) /\ Sees(x, origin)
  BY ServingIs DEF Confirmed
<1> HIDE DEF x
<1>3. y = [phase |-> "answered", sent |-> x.sent, rqst |-> x.rqst, asked |-> x.asked,
           copy |-> x.copy, resp |-> x.resp, shown |-> x.shown]
  BY <1>2
<1> HIDE DEF y
<1>4. Connection(y, origin)
  BY <1>2, <1>3 DEF Connection, Asks, Serves, Sees
<1>5. Kept(cache')
  BY <1>1 DEF IInv
<1> QED
  BY <1>1, <1>4, <1>5, OneConnection

\* The copy is given up and what the client sent is asked for.
LEMMA RejectedKeeps == ASSUME IInv, NEW c \in Conn, Rejected(c) PROVE IInv'
<1> DEFINE x == conn[c]
           y == [x EXCEPT !.phase = "transferring", !.asked = x.rqst, !.copy = None, !.resp = None]
<1>1. /\ conn' = [conn EXCEPT ![c] = y] /\ UNCHANGED origin
      /\ cache' = Store!Erased(cache, ToUrl(x.rqst))
  BY DEF Rejected, IInv
<1>2. /\ x.phase = "validating" /\ x.resp # None
      /\ x = [phase |-> x.phase, sent |-> x.sent, rqst |-> x.rqst, asked |-> x.asked,
              copy |-> x.copy, resp |-> x.resp, shown |-> x.shown]
      /\ Asks(x) /\ Serves(x) /\ Sees(x, origin)
  BY ServingIs DEF Rejected
<1>3. y = [phase |-> "transferring", sent |-> x.sent, rqst |-> x.rqst, asked |-> x.rqst,
           copy |-> None, resp |-> None, shown |-> x.shown]
  <2> DEFINE rqst == x.rqst
  <2>1. y = [x EXCEPT !.phase = "transferring", !.asked = rqst, !.copy = None, !.resp = None]
    OBVIOUS
  <2> HIDE DEF x, y, rqst
  <2>2. y = [phase |-> "transferring", sent |-> x.sent, rqst |-> x.rqst, asked |-> rqst,
             copy |-> None, resp |-> None, shown |-> x.shown]
    BY <1>2, <2>1
  <2> QED
    BY <2>2 DEF rqst
<1> HIDE DEF x
<1> HIDE DEF y
<1>4. Connection(y, origin)
  BY <1>2, <1>3 DEF Connection, Asks, Serves, Sees
<1>5. Kept(cache')
  BY <1>1, ErasedKept DEF IInv
<1> QED
  BY <1>1, <1>4, <1>5, OneConnection

\* The response is sent, and kept if it has a validator.
LEMMA TransferredKeeps == ASSUME IInv, NEW c \in Conn, Transferred(c) PROVE IInv'
<1> DEFINE x == conn[c]
           y == [x EXCEPT !.phase = "answered"]
<1>1. /\ conn' = [conn EXCEPT ![c] = y] /\ UNCHANGED origin
      /\ cache' = IF ShouldCache(x.resp.properties)
                    THEN Store!Inserted(cache, ToUrl(x.rqst), x.resp) ELSE cache
  BY DEF Transferred
<1>2. /\ x.phase = "transferring" /\ x.resp # None
      /\ x = [phase |-> x.phase, sent |-> x.sent, rqst |-> x.rqst, asked |-> x.asked,
              copy |-> x.copy, resp |-> x.resp, shown |-> x.shown]
      /\ Asks(x) /\ Serves(x) /\ Sees(x, origin)
  BY ServingIs DEF Transferred
<1> HIDE DEF x
<1>3. y = [phase |-> "answered", sent |-> x.sent, rqst |-> x.rqst, asked |-> x.asked,
           copy |-> x.copy, resp |-> x.resp, shown |-> x.shown]
  BY <1>2
<1> HIDE DEF y
<1>4. Connection(y, origin)
  BY <1>2, <1>3 DEF Connection, Asks, Serves, Sees
<1>5. Kept(cache')
  <2>1. ToUrl(x.rqst) \in Url /\ ToUrl(x.rqst) = Target(x.rqst)
    BY <1>2, AskedIs DEF ToUrl, Target
  <2>2. CASE ShouldCache(x.resp.properties)
    <3>1. Has(x.resp.properties, "etag") \/ Has(x.resp.properties, "last-modified")
      BY <2>2 DEF ShouldCache
    <3>2. CopyOf(ToUrl(x.rqst), x.resp)
      BY <1>2, <2>1, <3>1 DEF Serves, CopyOf
    <3> QED
      BY <1>1, <2>1, <2>2, <3>2, InsertedKept DEF IInv
  <2>3. CASE ~ShouldCache(x.resp.properties)
    BY <1>1, <2>3 DEF IInv
  <2> QED
    BY <2>2, <2>3
<1> QED
  BY <1>1, <1>4, <1>5, OneConnection

\* The connection is idle again.
LEMMA EndsKeeps == ASSUME IInv, NEW c \in Conn, Ends(c) PROVE IInv'
<1>1. Connection(Idle, origin)
  BY DEF Connection, Idle
<1>2. Kept(cache')
  BY DEF IInv, Ends
<1> QED
  BY <1>1, <1>2, OneConnection DEF Ends

\* The answer of a server is for the URL of the request, and confirms a copy
\* only if that is current.
LEMMA AnswerKeeps == ASSUME IInv, NEW c \in Conn, Answer(c) PROVE IInv'
<1> DEFINE x == conn[c]
           v == origin[Target(x.asked)]
<1>1. PICK r \in Answers(x.asked, v) : conn' = [conn EXCEPT ![c].resp = r]
  BY DEF Answer
<1> DEFINE y == [x EXCEPT !.resp = r]
<1>2. conn' = [conn EXCEPT ![c] = y] /\ UNCHANGED <<cache, origin>>
  BY <1>1 DEF Answer
<1>3. /\ x.phase \in {"validating", "transferring"}
      /\ x = [phase |-> x.phase, sent |-> x.sent, rqst |-> x.rqst, asked |-> x.asked,
              copy |-> x.copy, resp |-> x.resp, shown |-> x.shown]
      /\ Asks(x) /\ Serves(x) /\ Sees(x, origin)
  BY ServingIs DEF Answer
<1>10. v = origin[Target(x.asked)]
  OBVIOUS
<1> HIDE DEF x, v
<1>4. /\ Target(x.asked) = Target(x.rqst) /\ Target(x.rqst) \in Url
      /\ x.copy # None =>
           x.asked.properties = MakeValidateHeader(x.rqst.properties, x.copy.properties)
  BY <1>3, AskedIs
<1>5. v \in Version /\ v \in x.shown
  BY <1>3, <1>4, <1>10 DEF IInv, Sees
<1>6. AnswerTo(Target(x.rqst), r) /\ (r.code = 304 => Meets(x.asked.properties, v))
  BY <1>1, <1>4, <1>5, AnswerIs
<1>7. ASSUME x.copy # None, r.code = 304, x.copy.of \in Version PROVE x.copy.of \in x.shown
  <2>1. CopyOf(Target(x.rqst), x.copy)
    BY <1>3, <1>7 DEF Serves
  <2>2. Meets(MakeValidateHeader(x.rqst.properties, x.copy.properties), v)
    BY <1>4, <1>6, <1>7
  <2>3. x.copy.of = v
    BY <1>7, <2>1, <2>2, ConditionIsOfCopy
  <2> QED
    BY <1>5, <2>3
<1>8. y = [phase |-> x.phase, sent |-> x.sent, rqst |-> x.rqst, asked |-> x.asked,
           copy |-> x.copy, resp |-> r, shown |-> x.shown]
  BY <1>3
<1> HIDE DEF y
<1>9. Connection(y, origin)
  BY <1>3, <1>6, <1>7, <1>8 DEF Connection, Asks, Serves, Sees
<1>11. Kept(cache')
  BY <1>2 DEF IInv
<1> QED
  BY <1>2, <1>9, <1>11, OneConnection

\* A connection sees every version that is published at its URL meanwhile.
LEMMA PublishKeeps == ASSUME IInv, NEW u \in Url, Publish(u) PROVE IInv'
<1>1. /\ origin' = [origin EXCEPT ![u] = @ + 1] /\ UNCHANGED cache
      /\ origin[u] \in Version /\ origin[u] + 1 \in Version
  BY CacheAssumption DEF Publish, IInv, Version
<1>2. origin' \in [Url -> Version] /\ origin'[u] = origin[u] + 1
      /\ \A w \in Url \ {u} : origin'[w] = origin[w]
  BY <1>1 DEF IInv
<1>3. ASSUME NEW c \in Conn PROVE Connection(conn'[c], origin')
  <2> DEFINE x == conn[c]
             y == conn'[c]
  <2>1. y = IF x.phase # "idle" /\ u = Target(x.rqst)
              THEN [x EXCEPT !.shown = @ \cup {origin[u] + 1}] ELSE x
    BY DEF Publish
  <2>2. Connection(x, origin)
    BY DEF IInv
  <2> HIDE DEF x, y
  <2>3. CASE x.phase = "idle"
    BY <2>1, <2>2, <2>3 DEF Connection, Idle, y
  <2>4. CASE x.phase # "idle"
    <3>1. Asks(x) /\ Serves(x) /\ Sees(x, origin) /\ Target(x.rqst) \in Url
      BY <2>2, <2>4, AskedIs DEF Connection
    <3>2. CASE u # Target(x.rqst)
      <4>1. y = x /\ origin'[Target(x.rqst)] = origin[Target(x.rqst)]
        BY <1>2, <2>1, <3>1, <3>2
      <4>2. Sees(x, origin')
        BY <3>1, <4>1 DEF Sees
      <4> QED
        BY <2>2, <2>4, <3>1, <4>1, <4>2 DEF Connection, y
    <3>3. CASE u = Target(x.rqst)
      <4>1. y = [phase |-> x.phase, sent |-> x.sent, rqst |-> x.rqst, asked |-> x.asked,
                 copy |-> x.copy, resp |-> x.resp, shown |-> x.shown \cup {origin[u] + 1}]
        BY <2>1, <2>2, <2>4, <3>3 DEF Connection
      <4>2. Asks(y) /\ Serves(y)
        BY <3>1, <4>1 DEF Asks, Serves
      <4>3. Sees(y, origin')
        BY <1>1, <1>2, <3>1, <3>3, <4>1 DEF Sees
      <4> QED
        BY <2>2, <2>4, <4>1, <4>2, <4>3 DEF Connection, y
    <3> QED
      BY <3>2, <3>3
  <2> QED
    BY <2>3, <2>4
<1>4. \A c \in Conn : Connection(conn[c], origin)'
  BY <1>3 DEF Connection, Asks, Serves, Sees, Idle
<1>5. conn' = [c \in Conn |-> conn'[c]]
  BY DEF Publish
<1>6. Kept(cache)'
  BY <1>1 DEF IInv, Kept, Store!ToSet
<1> QED
  BY <1>2, <1>4, <1>5, <1>6 DEF IInv

-----------------------------------------------------------------------------
\* Nothing is cached and nobody is served before the first request.
LEMMA InvInit == Init => IInv
<1> SUFFICES ASSUME Init PROVE IInv
  OBVIOUS
<1>1. Kept(cache)
  <2>1. cache.order = <<>> /\ cache.stored = <<>> /\ DOMAIN cache.stored = {}
    BY DEF Init, Store!Empty
  <2>2. Store!ToSet(cache.order) = {}
    BY <2>1 DEF Store!ToSet
  <2>3. cache.order \in Seq(Url) /\ Len(cache.order) = 0
    BY <2>1
  <2> QED
    BY <2>1, <2>2, <2>3, CacheAssumption DEF Kept
<1>2. origin \in [Url -> Version]
  BY CacheAssumption DEF Init, Version
<1>3. \A c \in Conn : Connection(conn[c], origin)
  BY DEF Init, Connection, Idle
<1>4. conn = [c \in Conn |-> conn[c]]
  BY DEF Init
<1> QED
  BY <1>1, <1>2, <1>3, <1>4 DEF IInv

\* Every step keeps the invariant.
LEMMA InvNext == IInv /\ [Next]_vars => IInv'
<1> SUFFICES ASSUME IInv, [Next]_vars PROVE IInv'
  OBVIOUS
<1>1. CASE UNCHANGED vars
  BY <1>1 DEF vars, IInv, Kept, Store!ToSet, Connection, Asks, Serves, Sees, Idle
<1>2. CASE Next
  BY <1>2, HandlesKeeps, EndsKeeps, AnswerKeeps, ConfirmedKeeps, RejectedKeeps,
     TransferredKeeps, PublishKeeps DEF Next
<1> QED
  BY <1>1, <1>2

-----------------------------------------------------------------------------
\* The map stays within its size, its copies, the requests and the answers are
\* of their types, and whoever is answered has something to be sent.
THEOREM TypeCorrect == Spec => []TypeOK
<1>1. ASSUME IInv PROVE TypeOK
  <2>1. Len(cache.order) <= MaxSize /\ DOMAIN cache.stored \subseteq Url
    BY <1>1, LenProperties DEF IInv, Kept, Store!ToSet
  <2>2. \A u \in DOMAIN cache.stored : cache.stored[u] \in Responses
    BY <1>1 DEF IInv, Kept, CopyOf, AnswerTo
  <2>3. ASSUME NEW c \in Conn
        PROVE  /\ conn[c].phase \in {"idle", "validating", "transferring", "answered"}
               /\ conn[c].phase # "idle" => conn[c].sent \in Requests
               /\ {conn[c].copy, conn[c].resp} \subseteq Responses \cup {None}
               /\ conn[c].phase = "answered" => Reply(conn[c]) # None
               /\ conn[c].shown \subseteq Version
    <3> DEFINE x == conn[c]
    <3>1. Connection(x, origin)
      BY <1>1 DEF IInv
    <3> HIDE DEF x
    <3>2. CASE x.phase = "idle"
      BY <3>1, <3>2 DEF Connection, Idle, x
    <3>3. CASE x.phase # "idle"
      BY <3>1, <3>3 DEF Connection, Asks, Serves, Sees, CopyOf, AnswerTo, Reply, x
    <3> QED
      BY <3>2, <3>3
  <2> QED
    BY <1>1, <2>1, <2>2, <2>3 DEF TypeOK, IInv
<1> QED
  BY InvInit, InvNext, <1>1, PTL DEF Spec

\* handle_client_request() and what follows never send the response of another
\* URL, whatever the other connections store and delete meanwhile.
THEOREM AnswersAreForTheUrl == Spec => []AnswersTheUrl
<1>1. ASSUME IInv PROVE AnswersTheUrl
  BY <1>1 DEF IInv, Connection, Serves, CopyOf, AnswerTo, AnswersTheUrl, Reply
<1> QED
  BY InvInit, InvNext, <1>1, PTL DEF Spec

\* A copy that handle_validation_response() sends after 304 was the current version
\* at some time since the request was read, also if the cache lost it meanwhile.
THEOREM ConfirmedCopiesAreCurrent == Spec => []ConfirmedIsCurrent
<1>1. ASSUME IInv PROVE ConfirmedIsCurrent
  BY <1>1 DEF IInv, Connection, Serves, Sees, ConfirmedIsCurrent
<1> QED
  BY InvInit, InvNext, <1>1, PTL DEF Spec

\* The header constructor and make_validate_header() tell the origin of the
\* connection what the client said, and never send it Proxy-Connection.
THEOREM ConnectionIsAsMeant == Spec => []ConnectionAsMeant
<1>1. ASSUME IInv PROVE ConnectionAsMeant
  <2> SUFFICES ASSUME NEW c \in Conn, conn[c].asked # None
               PROVE  /\ Get(conn[c].asked.properties, "connection") = Said(conn[c].sent.properties)
                      /\ ~Has(conn[c].asked.properties, "proxy-connection")
    BY DEF ConnectionAsMeant
  <2>1. Asks(conn[c])
    BY <1>1 DEF IInv, Connection, Idle
  <2> QED
    BY <2>1, AskedIs
<1> QED
  BY InvInit, InvNext, <1>1, PTL DEF Spec
==============================================================================
