-------------------------- MODULE SimpleCacheProofs --------------------------
(***************************************************************************)
(* simple_cache keeps its nodes in one list, whatever its capacity and the *)
(* keys: each operation is given the order of the nodes before it and the  *)
(* order after it is built from that.  That order is what the iterators    *)
(* visit, so each operation is the one of the first-in first-out map.      *)
(***************************************************************************)
EXTENDS SimpleCache, FiniteSetTheorems, SequenceTheorems, WellFoundedInduction, TLAPS

Sound(c) == Typed(c) /\ Listed(c)

\* The nodes of c are linked in this order.
Ordered(c, order) == order \in [1 .. Size(c) -> DOMAIN c.values] /\ Linked(c, order)

\* The nodes of d are nodes of c, with the values they had there.
Keeps(c, d) ==
  \A x \in DOMAIN d.values : x \in DOMAIN c.values /\ d.values[x].value = c.values[x].value

\* The map in use is sound, and so is what an operation starts from.
LEMMA SizeFacts ==
  ASSUME NEW c, Typed(c)
  PROVE  Size(c) \in Nat /\ (Size(c) = 0 <=> DOMAIN c.values = {})
BY FS_CardinalityType, FS_EmptySet DEF Typed, Size

\* The nodes of a sound map are linked in some order.
LEMMA SoundIsOrdered ==
  ASSUME NEW c, Sound(c)
  PROVE  \E order : Ordered(c, order)
BY DEF Sound, Listed, Ordered

-----------------------------------------------------------------------------
\* The first node of a full map is dropped, the second becomes the first.
LEMMA MakeRoomShifts ==
  ASSUME NEW c, Sound(c), Size(c) = MaxSize, NEW order, Ordered(c, order)
  PROVE  LET d == MakeRoom(c) IN
         /\ Sound(d) /\ Size(d) = MaxSize - 1 /\ Keeps(c, d)
         /\ Ordered(d, [i \in 1 .. MaxSize - 1 |-> order[i + 1]])
<1>0. /\ Typed(c) /\ Size(c) \in Nat /\ Size(c) <= MaxSize
      /\ MaxSize \in Nat /\ MaxSize >= 2
  BY SizeFacts, MaxSizeIsAtLeastTwo DEF Sound, Listed
<1>2. Size(c) = MaxSize
  OBVIOUS
<1> QED
  <2> DEFINE n == Size(c)
             d == MakeRoom(c)
  <2>1. order \in [1 .. n -> DOMAIN c.values] /\ Linked(c, order)
    BY DEF Ordered
  <2> DEFINE one  == order[1]
             two  == order[2]
             next == [i \in 1 .. n - 1 |-> order[i + 1]]
  <2>2. /\ c.first = one /\ one \in DOMAIN c.values /\ c.values[one].next = two
        /\ two \in DOMAIN c.values /\ two # one /\ c.last = order[n] /\ c.last # one
    BY <1>0, <1>2, <2>1 DEF Linked, IsInjective
  <2> DEFINE e == EraseNode(c, one)
  <2>3. d = [e EXCEPT !.first = two, !.values[two].prev = two]
    BY <1>0, <1>2, <2>2 DEF MakeRoom
  <2>4. /\ e = [values |-> e.values, first |-> e.first, last |-> e.last]
        /\ DOMAIN e.values = DOMAIN c.values \ {one} /\ e.last = c.last
        /\ \A x \in DOMAIN e.values :
             e.values[x] = [c.values[x] EXCEPT !.next = Left(@, one), !.prev = Left(@, one)]
    BY <2>2 DEF EraseNode, Left
  <2>5. \A x \in DOMAIN c.values : c.values[x] \in Node
    BY <1>0 DEF Typed
  <2>6. \A x \in DOMAIN e.values :
             e.values[x] = [value |-> c.values[x].value,
                            next  |-> Left(c.values[x].next, one),
                            prev  |-> Left(c.values[x].prev, one)]
    BY <2>4, <2>5 DEF Node
  <2> HIDE DEF d, e, one, two
  <2>7. /\ d = [values |-> d.values, first |-> d.first, last |-> d.last]
        /\ d.first = two /\ d.last = c.last
        /\ d.values = [e.values EXCEPT ![two] = [e.values[two] EXCEPT !.prev = two]]
    BY <2>3, <2>4
  <2>8. DOMAIN d.values = DOMAIN c.values \ {one}
    BY <2>4, <2>7
  <2>9. ASSUME NEW x \in DOMAIN d.values
        PROVE  d.values[x] = [value |-> c.values[x].value,
                              next  |-> Left(c.values[x].next, one),
                              prev  |-> IF x = two THEN two ELSE Left(c.values[x].prev, one)]
    <3>1. x \in DOMAIN e.values
      BY <2>4, <2>8
    <3>2. CASE x = two
      <4>1. d.values[two] = [e.values[two] EXCEPT !.prev = two]
        BY <2>7, <3>1, <3>2
      <4>2. e.values[two] = [value |-> c.values[two].value,
                             next  |-> Left(c.values[two].next, one),
                             prev  |-> Left(c.values[two].prev, one)]
        BY <2>6, <3>1, <3>2
      <4> QED
        BY <3>2, <4>1, <4>2
    <3>3. CASE x # two
      BY <2>6, <2>7, <3>1, <3>3
    <3> QED
      BY <3>2, <3>3
  <2>10. Size(d) = n - 1 /\ IsFiniteSet(DOMAIN d.values)
    BY <1>0, <2>2, <2>8, FS_RemoveElement DEF Size, Typed
  <2>11. Typed(d)
    <3>1. \A x \in DOMAIN d.values : d.values[x] \in Node
      <4> SUFFICES ASSUME NEW x \in DOMAIN d.values PROVE d.values[x] \in Node
        OBVIOUS
      <4> DEFINE prev == IF x = two THEN two ELSE Left(c.values[x].prev, one)
      <4>1. /\ c.values[x].value \in Value
            /\ Left(c.values[x].next, one) \in Iterator
            /\ prev \in Iterator
        BY <1>0, <2>2, <2>5, <2>8 DEF Typed, Node, Iterator, Left
      <4>2. d.values[x] = [value |-> c.values[x].value,
                           next |-> Left(c.values[x].next, one), prev |-> prev]
        BY <2>9
      <4> HIDE DEF prev
      <4> QED
        BY <4>1, <4>2 DEF Node
    <3>2. d.values = [x \in DOMAIN d.values |-> d.values[x]]
      BY <2>4, <2>7 DEF EraseNode, e
    <3> QED
      BY <1>0, <2>2, <2>7, <2>8, <2>10, <3>1, <3>2 DEF Typed, Iterator
  <2>12. next \in [1 .. n - 1 -> DOMAIN d.values] /\ DOMAIN next = 1 .. Size(d)
    <3>1. ASSUME NEW i \in 1 .. n - 1 PROVE order[i + 1] \in DOMAIN d.values
      <4>1. i + 1 \in 1 .. n /\ 1 \in 1 .. n /\ i + 1 # 1
        BY <1>0
      <4> QED
        BY <2>1, <2>8, <4>1 DEF Linked, IsInjective, one
    <3> QED
      BY <2>10, <3>1
  <2>13. Linked(d, next)
    <3>1. /\ order \in [1 .. n -> DOMAIN c.values]
          /\ \A i, j \in 1 .. n : order[i] = order[j] => i = j
          /\ \A k \in DOMAIN c.values : \E i \in 1 .. n : order[i] = k
          /\ \A i \in 1 .. n - 1 : /\ c.values[order[i]].next = order[i + 1]
                                /\ c.values[order[i + 1]].prev = order[i]
      BY <2>1 DEF Linked, IsInjective
    <3>2. /\ one = order[1] /\ two = order[2] /\ n >= 2 /\ n \in Nat
      BY <1>0, <1>2 DEF one, two
    <3>3. \A i \in 1 .. n - 1 : next[i] = order[i + 1] /\ i + 1 \in 1 .. n
      BY <1>0
    <3> HIDE DEF next, n
    <3>4. IsInjective(next)
      <4>1. DOMAIN next = 1 .. n - 1
        BY <2>10, <2>12
      <4> SUFFICES ASSUME NEW i \in 1 .. n - 1, NEW j \in 1 .. n - 1, next[i] = next[j]
                   PROVE  i = j
        BY <4>1 DEF IsInjective
      <4>2. i + 1 = j + 1
        BY <3>1, <3>3
      <4> QED
        BY <3>2, <4>2
    <3>5. ASSUME NEW k \in DOMAIN d.values PROVE \E i \in DOMAIN next : next[i] = k
      <4>1. PICK i \in 1 .. n : order[i] = k
        BY <2>8, <3>1
      <4>2. i # 1
        BY <2>8, <3>2, <4>1
      <4>3. i - 1 \in 1 .. n - 1 /\ (i - 1) + 1 = i
        BY <3>2, <4>2
      <4>4. i - 1 \in DOMAIN next /\ next[i - 1] = k
        BY <2>10, <2>12, <3>3, <4>1, <4>3
      <4> QED
        BY <4>4
    <3>6. d.first = next[1] /\ d.last = next[n - 1]
      BY <2>2, <2>7, <3>2, <3>3 DEF n
    <3>7. ASSUME NEW i \in 1 .. n - 2
          PROVE  d.values[next[i]].next = next[i + 1] /\ d.values[next[i + 1]].prev = next[i]
      <4>1. next[i] = order[i + 1] /\ next[i + 1] = order[i + 2]
        BY <3>2, <3>3
      <4>2. order[i + 1] # one /\ order[i + 2] # one /\ order[i + 2] # two
        <5>1. i + 1 \in 1 .. n /\ i + 2 \in 1 .. n /\ i + 1 # 1 /\ i + 2 # 1 /\ i + 2 # 2
          BY <3>2
        <5> QED
          BY <3>1, <3>2, <5>1
      <4>3. next[i] \in DOMAIN d.values /\ next[i + 1] \in DOMAIN d.values
        BY <2>12, <2>10, <3>2
      <4>4. c.values[order[i + 1]].next = order[i + 2] /\ c.values[order[i + 2]].prev = order[i + 1]
        <5>1. i + 1 \in 1 .. n - 1 /\ (i + 1) + 1 = i + 2
          BY <3>2
        <5> QED
          BY <3>1, <5>1
      <4>5. ASSUME NEW x \in DOMAIN d.values
            PROVE  /\ d.values[x].next = Left(c.values[x].next, one)
                   /\ x # two => d.values[x].prev = Left(c.values[x].prev, one)
        <5> DEFINE prev == IF x = two THEN two ELSE Left(c.values[x].prev, one)
        <5>1. x # two => prev = Left(c.values[x].prev, one)
          OBVIOUS
        <5>2. d.values[x] = [value |-> c.values[x].value,
                             next |-> Left(c.values[x].next, one), prev |-> prev]
          BY <2>9
        <5> HIDE DEF prev
        <5> QED
          BY <5>1, <5>2
      <4>6. /\ d.values[next[i]].next = Left(order[i + 2], one)
            /\ d.values[next[i + 1]].prev = Left(order[i + 1], one)
        BY <4>1, <4>2, <4>3, <4>4, <4>5
      <4> QED
        BY <4>1, <4>2, <4>6 DEF Left
    <3> QED
      BY <1>0, <1>2, <2>1, <2>10, <2>12, <3>2, <3>4, <3>5, <3>6, <3>7 DEF Linked
  <2>14. Keeps(c, d)
    <3> SUFFICES ASSUME NEW x \in DOMAIN d.values
                 PROVE  x \in DOMAIN c.values /\ d.values[x].value = c.values[x].value
      BY DEF Keeps
    <3> DEFINE prev == IF x = two THEN two ELSE Left(c.values[x].prev, one)
    <3>1. d.values[x] = [value |-> c.values[x].value,
                         next |-> Left(c.values[x].next, one), prev |-> prev]
      BY <2>9
    <3> HIDE DEF prev
    <3> QED
      BY <2>8, <3>1
  <2>15. Sound(d) /\ Size(d) = MaxSize - 1 /\ Ordered(d, next)
    BY <1>0, <1>2, <2>10, <2>11, <2>12, <2>13 DEF Sound, Listed, Ordered
  <2> QED
    BY <1>2, <2>14, <2>15 DEF d

\* ... and so there is room in every sound map after that.
LEMMA MakeRoomSound ==
  ASSUME NEW c, Sound(c)
  PROVE  Sound(MakeRoom(c)) /\ Size(MakeRoom(c)) < MaxSize
<1>1. /\ Size(c) \in Nat /\ Size(c) <= MaxSize /\ MaxSize \in Nat
  BY SizeFacts, MaxSizeIsAtLeastTwo DEF Sound, Listed
<1>2. CASE Size(c) # MaxSize
  BY <1>1, <1>2 DEF MakeRoom
<1>3. CASE Size(c) = MaxSize
  <2>1. PICK order : Ordered(c, order)
    BY SoundIsOrdered
  <2>2. Sound(MakeRoom(c)) /\ Size(MakeRoom(c)) = MaxSize - 1
    BY <1>3, <2>1, MakeRoomShifts
  <2> QED
    BY <1>1, <2>2
<1> QED
  BY <1>2, <1>3

-----------------------------------------------------------------------------
\* A node of the map m, field by field.
Fields(m, x) == m[x] = [value |-> m[x].value, next |-> m[x].next, prev |-> m[x].prev]

\* What erase() makes of every member and of every node that stays.
Unlinked(c, k, d) ==
  LET prev == c.values[k].prev
      next == c.values[k].next
  IN  /\ d = [values |-> d.values, first |-> d.first, last |-> d.last]
      /\ d.first = Left(IF k = c.first THEN next ELSE c.first, k)
      /\ d.last  = Left(IF k = c.last THEN prev ELSE c.last, k)
      /\ d.values = [x \in DOMAIN c.values \ {k} |-> d.values[x]]
      /\ \A x \in DOMAIN c.values \ {k} :
           /\ Fields(d.values, x)
           /\ d.values[x].value = c.values[x].value
           /\ d.values[x].next = Left(IF k # c.first /\ x = prev THEN next
                                      ELSE c.values[x].next, k)
           /\ d.values[x].prev = Left(IF k # c.last /\ x = next THEN prev
                                      ELSE c.values[x].prev, k)

LEMMA ErasedUnlinks ==
  ASSUME NEW c, Typed(c), NEW k \in DOMAIN c.values,
         k # c.first => c.values[k].prev \in DOMAIN c.values,
         k # c.last  => c.values[k].next \in DOMAIN c.values
  PROVE  Unlinked(c, k, Erased(c, k))
<1> DEFINE prev   == c.values[k].prev
           next   == c.values[k].next
           before == IF k = c.first THEN [c EXCEPT !.first = next]
                                    ELSE [c EXCEPT !.values[prev].next = next]
           after  == IF k = c.last THEN [before EXCEPT !.last = prev]
                                   ELSE [before EXCEPT !.values[next].prev = prev]
           d      == Erased(c, k)
<1>0. /\ c = [values |-> c.values, first |-> c.first, last |-> c.last]
      /\ \A x \in DOMAIN c.values : Fields(c.values, x)
      /\ c.values = [x \in DOMAIN c.values |-> c.values[x]]
  BY DEF Typed, Node, Fields
<1>1. d = EraseNode(after, k)
  BY DEF Erased, Has
<1> HIDE DEF next, prev, d
<1>2. /\ before = [values |-> before.values, first |-> before.first, last |-> before.last]
      /\ before.first = IF k = c.first THEN next ELSE c.first
      /\ before.last = c.last
      /\ DOMAIN before.values = DOMAIN c.values
      /\ \A x \in DOMAIN c.values :
           /\ Fields(before.values, x)
           /\ before.values[x].value = c.values[x].value
           /\ before.values[x].next = IF k # c.first /\ x = prev THEN next ELSE c.values[x].next
           /\ before.values[x].prev = c.values[x].prev
  <2>1. CASE k = c.first
    BY <1>0, <2>1 DEF Fields
  <2>2. CASE k # c.first
    <3>1. before = [c EXCEPT !.values[prev].next = next]
      BY <2>2
    <3>2. /\ before = [values |-> before.values, first |-> c.first, last |-> c.last]
          /\ before.values = [c.values EXCEPT ![prev] = [c.values[prev] EXCEPT !.next = next]]
      BY <1>0, <3>1
    <3>3. before.first = c.first /\ before.last = c.last
      BY <3>2
    <3> HIDE DEF before
    <3>4. ASSUME NEW x \in DOMAIN c.values
          PROVE  /\ Fields(before.values, x)
                 /\ before.values[x].value = c.values[x].value
                 /\ before.values[x].next = IF x = prev THEN next ELSE c.values[x].next
                 /\ before.values[x].prev = c.values[x].prev
      <4>1. CASE x = prev
        BY <1>0, <3>2, <4>1 DEF Fields
      <4>2. CASE x # prev
        BY <1>0, <3>2, <4>2 DEF Fields
      <4> QED
        BY <4>1, <4>2
    <3> QED
      BY <2>2, <3>2, <3>3, <3>4
  <2> QED
    BY <2>1, <2>2
<1> HIDE DEF before
<1>3. /\ after = [values |-> after.values, first |-> after.first, last |-> after.last]
      /\ after.first = before.first
      /\ after.last = IF k = c.last THEN prev ELSE c.last
      /\ DOMAIN after.values = DOMAIN c.values
      /\ \A x \in DOMAIN c.values :
           /\ Fields(after.values, x)
           /\ after.values[x].value = c.values[x].value
           /\ after.values[x].next = before.values[x].next
           /\ after.values[x].prev = IF k # c.last /\ x = next THEN prev ELSE c.values[x].prev
  <2>1. CASE k = c.last
    BY <1>2, <2>1 DEF Fields
  <2>2. CASE k # c.last
    <3>1. after = [before EXCEPT !.values[next].prev = prev]
      BY <2>2
    <3>2. /\ after = [values |-> after.values, first |-> before.first, last |-> c.last]
          /\ after.values = [before.values EXCEPT ![next] = [before.values[next] EXCEPT !.prev = prev]]
      BY <1>2, <3>1
    <3>3. after.first = before.first /\ after.last = c.last
      BY <3>2
    <3> HIDE DEF after
    <3>4. ASSUME NEW x \in DOMAIN c.values
          PROVE  /\ Fields(after.values, x)
                 /\ after.values[x].value = c.values[x].value
                 /\ after.values[x].next = before.values[x].next
                 /\ after.values[x].prev = IF x = next THEN prev ELSE c.values[x].prev
      <4>1. CASE x = next
        BY <1>2, <3>2, <4>1 DEF Fields
      <4>2. CASE x # next
        BY <1>2, <3>2, <4>2 DEF Fields
      <4> QED
        BY <4>1, <4>2
    <3> QED
      BY <1>2, <2>2, <3>2, <3>3, <3>4
  <2> QED
    BY <2>1, <2>2
<1> HIDE DEF after
<1>4. /\ d = [values |-> d.values, first |-> d.first, last |-> d.last]
      /\ d.first = Left(after.first, k) /\ d.last = Left(after.last, k)
      /\ d.values = [x \in DOMAIN c.values \ {k} |->
                       [after.values[x] EXCEPT !.next = Left(@, k), !.prev = Left(@, k)]]
  BY <1>1, <1>3 DEF EraseNode
<1>5. ASSUME NEW x \in DOMAIN c.values \ {k}
      PROVE  /\ Fields(d.values, x)
             /\ d.values[x].value = after.values[x].value
             /\ d.values[x].next = Left(after.values[x].next, k)
             /\ d.values[x].prev = Left(after.values[x].prev, k)
  <2>1. d.values[x] = [after.values[x] EXCEPT !.next = Left(@, k), !.prev = Left(@, k)]
    BY <1>4
  <2>2. after.values[x] = [value |-> after.values[x].value, next |-> after.values[x].next,
                           prev |-> after.values[x].prev]
    BY <1>3 DEF Fields
  <2>3. d.values[x] = [value |-> after.values[x].value, next |-> Left(after.values[x].next, k),
                       prev |-> Left(after.values[x].prev, k)]
    BY <2>1, <2>2
  <2> QED
    BY <2>3 DEF Fields
<1>6. d.values = [x \in DOMAIN c.values \ {k} |-> d.values[x]]
  BY <1>4
<1>7. /\ d.first = Left(IF k = c.first THEN next ELSE c.first, k)
      /\ d.last  = Left(IF k = c.last THEN prev ELSE c.last, k)
  BY <1>2, <1>3, <1>4
<1>8. ASSUME NEW x \in DOMAIN c.values \ {k}
      PROVE  /\ d.values[x].value = c.values[x].value
             /\ d.values[x].next = Left(IF k # c.first /\ x = prev THEN next
                                        ELSE c.values[x].next, k)
             /\ d.values[x].prev = Left(IF k # c.last /\ x = next THEN prev
                                        ELSE c.values[x].prev, k)
  BY <1>2, <1>3, <1>5
<1> QED
  BY <1>4, <1>5, <1>6, <1>7, <1>8 DEF Unlinked, d, prev, next

\* erase() of any node leaves the others in their order.
LEMMA ErasedShifts ==
  ASSUME NEW c, Sound(c), NEW order, Ordered(c, order), NEW p \in 1 .. Size(c)
  PROVE  LET d == Erased(c, order[p]) IN
         /\ Sound(d) /\ Size(d) = Size(c) - 1 /\ Keeps(c, d)
         /\ Ordered(d, [i \in 1 .. Size(c) - 1 |-> IF i < p THEN order[i] ELSE order[i + 1]])
<1> DEFINE k == order[p]
<1>2. Has(c, k) /\ k = order[p]
  BY DEF Ordered, Linked, Has
<1> HIDE DEF k
<1> QED
  <2> DEFINE n    == Size(c)
             d    == Erased(c, k)
             prev == c.values[k].prev
             next == c.values[k].next
  <2>1. /\ Typed(c) /\ k \in DOMAIN c.values /\ MaxSize \in Nat
        /\ n \in Nat /\ n <= MaxSize /\ n > 0
    BY <1>2, SizeFacts, MaxSizeIsAtLeastTwo DEF Sound, Listed, Has
  <2>2. order \in [1 .. n -> DOMAIN c.values] /\ Linked(c, order)
    BY DEF Ordered
  <2>3. /\ \A i, j \in 1 .. n : order[i] = order[j] => i = j
        /\ \A x \in DOMAIN c.values : \E i \in 1 .. n : order[i] = x
        /\ c.first = order[1] /\ c.last = order[n]
        /\ \A i \in 1 .. n - 1 : /\ c.values[order[i]].next = order[i + 1]
                              /\ c.values[order[i + 1]].prev = order[i]
    BY <2>1, <2>2 DEF Linked, IsInjective
  <2>4. p \in 1 .. n /\ order[p] = k
    BY <1>2
  <2> HIDE DEF n, prev, next
  <2>5. (k = c.first <=> p = 1) /\ (k = c.last <=> p = n)
    BY <2>1, <2>3, <2>4
  <2>6. p # 1 => prev = order[p - 1] /\ prev \in DOMAIN c.values
    <3> SUFFICES ASSUME p # 1 PROVE prev = order[p - 1] /\ prev \in DOMAIN c.values
      OBVIOUS
    <3>1. p - 1 \in 1 .. n - 1 /\ p - 1 \in 1 .. n /\ (p - 1) + 1 = p
      BY <2>1, <2>4
    <3> QED
      BY <2>2, <2>3, <2>4, <3>1 DEF prev
  <2>7. p # n => next = order[p + 1] /\ next \in DOMAIN c.values
    <3> SUFFICES ASSUME p # n PROVE next = order[p + 1] /\ next \in DOMAIN c.values
      OBVIOUS
    <3>1. p \in 1 .. n - 1 /\ p + 1 \in 1 .. n
      BY <2>1, <2>4
    <3> QED
      BY <2>2, <2>3, <2>4, <3>1 DEF next
  <2>8. /\ d = [values |-> d.values, first |-> d.first, last |-> d.last]
        /\ d.first = Left(IF k = c.first THEN next ELSE c.first, k)
        /\ d.last  = Left(IF k = c.last THEN prev ELSE c.last, k)
        /\ d.values = [x \in DOMAIN c.values \ {k} |-> d.values[x]]
        /\ \A x \in DOMAIN c.values \ {k} :
             /\ Fields(d.values, x)
             /\ d.values[x].value = c.values[x].value
             /\ d.values[x].next = Left(IF k # c.first /\ x = prev THEN next
                                        ELSE c.values[x].next, k)
             /\ d.values[x].prev = Left(IF k # c.last /\ x = next THEN prev
                                        ELSE c.values[x].prev, k)
    <3>1. Unlinked(c, k, d)
      BY <2>1, <2>5, <2>6, <2>7, ErasedUnlinks DEF prev, next
    <3> HIDE DEF d
    <3> QED
      BY <3>1 DEF Unlinked, prev, next
  <2> HIDE DEF d
  <2>9. DOMAIN d.values = DOMAIN c.values \ {k}
    BY <2>8
  <2>10. Size(d) = n - 1 /\ IsFiniteSet(DOMAIN d.values)
    BY <2>1, <2>9, FS_RemoveElement DEF Size, Typed, n
  <2>11. Typed(d)
    <3>1. prev \in Iterator /\ next \in Iterator /\ c.first \in Iterator /\ c.last \in Iterator
      BY <2>1 DEF Typed, Node, prev, next
    <3>2. ASSUME NEW x \in DOMAIN d.values PROVE d.values[x] \in Node
      <4>1. c.values[x] \in Node
        BY <2>1, <2>9 DEF Typed
      <4>2. /\ d.values[x].value \in Value /\ d.values[x].next \in Iterator
            /\ d.values[x].prev \in Iterator
        BY <2>8, <2>9, <3>1, <4>1 DEF Left, Iterator, Node
      <4> QED
        <5> DEFINE m == d.values[x]
        <5>1. m = [value |-> m.value, next |-> m.next, prev |-> m.prev]
          BY <2>8, <2>9 DEF Fields
        <5> HIDE DEF m
        <5>2. m \in Node
          BY <4>2, <5>1 DEF Node, m
        <5> QED
          BY <5>2 DEF m
    <3>3. d.values \in [DOMAIN d.values -> Node]
      BY <2>8, <2>9, <3>2
    <3>4. d.first \in Iterator /\ d.last \in Iterator
      BY <2>8, <3>1 DEF Left, Iterator
    <3> QED
      BY <2>1, <2>8, <2>9, <2>10, <3>3, <3>4 DEF Typed
  <2> DEFINE rest == [i \in 1 .. n - 1 |-> IF i < p THEN order[i] ELSE order[i + 1]]
             at(i) == IF i < p THEN i ELSE i + 1
  <2>12. ASSUME NEW i \in 1 .. n - 1
         PROVE  /\ rest[i] = order[at(i)] /\ at(i) \in 1 .. n /\ at(i) # p
                /\ rest[i] \in DOMAIN d.values
    <3>1. rest[i] = order[at(i)] /\ at(i) \in 1 .. n /\ at(i) # p
      BY <2>1
    <3>2. order[at(i)] # order[p] /\ order[at(i)] \in DOMAIN c.values
      BY <2>2, <2>3, <2>4, <3>1
    <3> QED
      BY <2>4, <2>9, <3>1, <3>2
  <2>13. rest \in [1 .. n - 1 -> DOMAIN d.values] /\ DOMAIN rest = 1 .. n - 1
    BY <2>12
  <2> HIDE DEF rest
  <2>14. IsInjective(rest)
    <3> SUFFICES ASSUME NEW i \in 1 .. n - 1, NEW j \in 1 .. n - 1, rest[i] = rest[j]
                 PROVE  i = j
      BY <2>13 DEF IsInjective
    <3>1. at(i) = at(j)
      BY <2>3, <2>12
    <3> QED
      BY <2>1, <3>1
  <2>15. ASSUME NEW x \in DOMAIN d.values PROVE \E i \in 1 .. n - 1 : rest[i] = x
    <3>1. PICK j \in 1 .. n : order[j] = x /\ j # p
      BY <2>3, <2>4, <2>9
    <3> DEFINE i == IF j < p THEN j ELSE j - 1
    <3>2. i \in 1 .. n - 1 /\ at(i) = j
      BY <2>1, <2>4, <3>1
    <3> QED
      BY <2>12, <3>1, <3>2
  <2>16. n - 1 > 0 => d.first = rest[1] /\ d.last = rest[n - 1]
    <3> SUFFICES ASSUME n - 1 > 0 PROVE d.first = rest[1] /\ d.last = rest[n - 1]
      OBVIOUS
    <3>1. /\ 1 \in 1 .. n - 1 /\ n - 1 \in 1 .. n - 1
          /\ at(1) = (IF p = 1 THEN 2 ELSE 1)
          /\ at(n - 1) = (IF p = n THEN n - 1 ELSE n)
      BY <2>1, <2>4
    <3>2. rest[1] = order[at(1)] /\ rest[n - 1] = order[at(n - 1)]
      BY <2>12, <3>1
    <3>3. rest[1] # k /\ rest[n - 1] # k
      BY <2>9, <2>12, <3>1
    <3>4. rest[1] = IF p = 1 THEN next ELSE c.first
      BY <2>1, <2>3, <2>7, <3>1, <3>2
    <3>5. rest[n - 1] = IF p = n THEN prev ELSE c.last
      BY <2>1, <2>3, <2>6, <3>1, <3>2
    <3> QED
      BY <2>5, <2>8, <3>3, <3>4, <3>5 DEF Left
  <2>17. ASSUME NEW i \in 1 .. n - 2
         PROVE  d.values[rest[i]].next = rest[i + 1] /\ d.values[rest[i + 1]].prev = rest[i]
    <3>1. i \in 1 .. n - 1 /\ i + 1 \in 1 .. n - 1
      BY <2>1
    <3> DEFINE x == rest[i]
               y == rest[i + 1]
    <3>2. /\ x = order[at(i)] /\ y = order[at(i + 1)] /\ at(i) \in 1 .. n /\ at(i + 1) \in 1 .. n
          /\ x \in DOMAIN c.values \ {k} /\ y \in DOMAIN c.values \ {k}
      BY <2>9, <2>12, <3>1
    <3> HIDE DEF x, y
    <3>3. CASE i + 1 = p
      <4>1. at(i) = p - 1 /\ at(i + 1) = p + 1 /\ p # 1 /\ p # n
        BY <2>1, <3>3
      <4>2. x = prev /\ y = next
        BY <2>6, <2>7, <3>2, <4>1
      <4>3. d.values[x].next = Left(y, k) /\ d.values[y].prev = Left(x, k)
        BY <2>5, <2>8, <3>2, <4>1, <4>2
      <4> QED
        BY <3>2, <4>3 DEF Left, x, y
    <3>4. CASE i + 1 # p
      <4>1. at(i + 1) = at(i) + 1 /\ at(i) \in 1 .. n - 1
        BY <2>1, <3>4
      <4>2. c.values[x].next = y /\ c.values[y].prev = x
        BY <2>3, <3>2, <4>1
      <4>3. p # 1 => x # prev
        <5> SUFFICES ASSUME p # 1 PROVE x # prev
          OBVIOUS
        <5>1. at(i) # p - 1 /\ p - 1 \in 1 .. n
          BY <2>1, <2>4, <3>4
        <5> QED
          BY <2>3, <2>6, <3>2, <5>1
      <4>4. p # n => y # next
        <5> SUFFICES ASSUME p # n PROVE y # next
          OBVIOUS
        <5>1. at(i + 1) # p + 1 /\ p + 1 \in 1 .. n
          BY <2>1, <2>4, <3>4
        <5> QED
          BY <2>3, <2>7, <3>2, <5>1
      <4>5. d.values[x].next = Left(y, k) /\ d.values[y].prev = Left(x, k)
        BY <2>5, <2>8, <3>2, <4>2, <4>3, <4>4
      <4> QED
        BY <3>2, <4>5 DEF Left, x, y
    <3> QED
      BY <3>3, <3>4
  <2>18. Linked(d, rest)
    <3>1. \A i \in DOMAIN rest : rest[i] \in DOMAIN d.values
      BY <2>13
    <3>2. (n - 1) - 1 = n - 2
      BY <2>1
    <3> QED
      BY <2>10, <2>13, <2>14, <2>15, <2>16, <2>17, <3>1, <3>2 DEF Linked
  <2>19. n - 1 <= MaxSize
    BY <2>1
  <2>20. Keeps(c, d)
    BY <2>8, <2>9 DEF Keeps
  <2>21. Sound(d) /\ Size(d) = n - 1 /\ Ordered(d, rest)
    BY <2>10, <2>11, <2>13, <2>18, <2>19 DEF Sound, Listed, Ordered
  <2> QED
    BY <2>20, <2>21 DEF d, n, rest, k

\* ... so that a sound map stays one.
LEMMA ErasedSound ==
  ASSUME NEW c, Sound(c), NEW k
  PROVE  Sound(Erased(c, k))
<1>1. CASE ~Has(c, k)
  BY <1>1 DEF Erased
<1>2. CASE Has(c, k)
  <2>1. PICK order : Ordered(c, order)
    BY SoundIsOrdered
  <2>2. PICK p \in 1 .. Size(c) : order[p] = k
    BY <1>2, <2>1 DEF Ordered, Linked, Has
  <2> QED
    BY <2>1, <2>2, ErasedShifts
<1> QED
  BY <1>1, <1>2

-----------------------------------------------------------------------------
\* A new node becomes the last of the list.
LEMMA LinkAppends ==
  ASSUME NEW c, Sound(c), Size(c) < MaxSize, NEW k \in Key, ~Has(c, k), NEW v \in Value,
         NEW order, Ordered(c, order)
  PROVE  LET d == Link(c, k, v) IN
         /\ Sound(d) /\ Size(d) = Size(c) + 1
         /\ Ordered(d, [i \in 1 .. Size(c) + 1 |-> IF i = Size(c) + 1 THEN k ELSE order[i]])
         /\ DOMAIN d.values = DOMAIN c.values \cup {k} /\ d.values[k].value = v
         /\ \A x \in DOMAIN c.values : d.values[x].value = c.values[x].value
<1> DEFINE n     == Size(c)
           d     == Link(c, k, v)
           alone == DOMAIN c.values = {}
           node  == [value |-> v, next |-> k, prev |-> IF alone THEN k ELSE c.last]
<1>1. /\ Typed(c) /\ k \notin DOMAIN c.values /\ MaxSize \in Nat
      /\ n \in Nat /\ n < MaxSize /\ (alone <=> n = 0)
  BY SizeFacts, MaxSizeIsAtLeastTwo DEF Sound, Has
<1>2. order \in [1 .. n -> DOMAIN c.values] /\ Linked(c, order)
  BY DEF Ordered
<1>3. /\ \A i, j \in 1 .. n : order[i] = order[j] => i = j
      /\ \A x \in DOMAIN c.values : \E i \in 1 .. n : order[i] = x
      /\ n > 0 => c.first = order[1] /\ c.last = order[n]
      /\ \A i \in 1 .. n - 1 : /\ c.values[order[i]].next = order[i + 1]
                            /\ c.values[order[i + 1]].prev = order[i]
  BY <1>1, <1>2 DEF Linked, IsInjective
<1>4. /\ d = [values |-> d.values, first |-> IF alone THEN k ELSE c.first, last |-> k]
      /\ d.values = [x \in DOMAIN c.values \cup {k} |->
                       IF x = k THEN node
                       ELSE IF x = c.last THEN [c.values[x] EXCEPT !.next = k]
                       ELSE c.values[x]]
  BY DEF Link
<1>5. d.first = (IF alone THEN k ELSE c.first) /\ d.last = k
  BY <1>4
<1> HIDE DEF d, n, node
<1>6. DOMAIN d.values = DOMAIN c.values \cup {k}
  BY <1>4
<1>7. \A x \in DOMAIN c.values : c.values[x] \in Node
  BY <1>1 DEF Typed
<1>8. /\ d.values[k] = node
      /\ d.values[k].prev = IF alone THEN k ELSE c.last
      /\ d.values[k].value = v
      /\ node \in Node
  BY <1>1, <1>4 DEF node, Node, Iterator, Typed
<1>9. ASSUME NEW x \in DOMAIN c.values
      PROVE  /\ d.values[x] \in Node
             /\ d.values[x].next = IF x = c.last THEN k ELSE c.values[x].next
             /\ d.values[x].prev = c.values[x].prev
             /\ d.values[x].value = c.values[x].value
  <2>1. d.values[x] = IF x = c.last THEN [c.values[x] EXCEPT !.next = k] ELSE c.values[x]
    BY <1>1, <1>4
  <2>2. k \in Iterator
    BY DEF Iterator
  <2>3. CASE x = c.last
    BY <1>7, <2>1, <2>2, <2>3 DEF Node
  <2>4. CASE x # c.last
    BY <1>7, <2>1, <2>4
  <2> QED
    BY <2>3, <2>4
<1>10. Size(d) = n + 1 /\ IsFiniteSet(DOMAIN d.values)
  BY <1>1, <1>6, FS_AddElement DEF Size, Typed, n
<1>11. Typed(d)
  <2>1. d.values \in [DOMAIN d.values -> Node]
    BY <1>4, <1>6, <1>8, <1>9
  <2> QED
    BY <1>1, <1>4, <1>5, <1>6, <1>10, <2>1 DEF Typed, Iterator
<1> DEFINE longer == [i \in 1 .. n + 1 |-> IF i = n + 1 THEN k ELSE order[i]]
<1>12. /\ longer \in [1 .. n + 1 -> DOMAIN d.values] /\ DOMAIN longer = 1 .. n + 1
       /\ longer[n + 1] = k
       /\ \A i \in 1 .. n : longer[i] = order[i] /\ order[i] \in DOMAIN c.values /\ order[i] # k
  BY <1>1, <1>2, <1>6
<1> HIDE DEF longer
<1>13. IsInjective(longer)
  <2> SUFFICES ASSUME NEW i \in 1 .. n + 1, NEW j \in 1 .. n + 1, longer[i] = longer[j]
               PROVE  i = j
    BY <1>12 DEF IsInjective
  <2> QED
    BY <1>1, <1>3, <1>12
<1>14. ASSUME NEW x \in DOMAIN d.values PROVE \E i \in 1 .. n + 1 : longer[i] = x
  <2>1. CASE x = k
    BY <1>1, <1>12, <2>1
  <2>2. CASE x # k
    <3>1. PICK i \in 1 .. n : order[i] = x
      BY <1>3, <1>6, <2>2
    <3> QED
      BY <1>1, <1>12, <3>1
  <2> QED
    BY <2>1, <2>2
<1>15. d.first = longer[1] /\ d.last = longer[n + 1]
  BY <1>1, <1>3, <1>5, <1>12
<1>16. ASSUME NEW i \in 1 .. n
       PROVE  d.values[longer[i]].next = longer[i + 1] /\ d.values[longer[i + 1]].prev = longer[i]
  <2>1. CASE i = n
    BY <1>1, <1>3, <1>8, <1>9, <1>12, <2>1
  <2>2. CASE i # n
    <3>1. i \in 1 .. n - 1 /\ i + 1 \in 1 .. n /\ n \in 1 .. n
      BY <1>1, <2>2
    <3>2. longer[i] = order[i] /\ longer[i + 1] = order[i + 1] /\ order[i] # c.last
      BY <1>2, <1>1, <1>3, <1>12, <2>2, <3>1
    <3> QED
      BY <1>2, <1>3, <1>9, <1>12, <3>1, <3>2
  <2> QED
    BY <2>1, <2>2
<1>17. Linked(d, longer)
  <2>1. (n + 1) - 1 = n /\ \A i \in DOMAIN longer : longer[i] \in DOMAIN d.values
    BY <1>1, <1>12
  <2> QED
    BY <1>10, <1>12, <1>13, <1>14, <1>15, <1>16, <2>1 DEF Linked
<1>18. n + 1 <= MaxSize
  BY <1>1
<1>19. Sound(d) /\ Size(d) = n + 1 /\ Ordered(d, longer)
  BY <1>10, <1>11, <1>12, <1>17, <1>18 DEF Sound, Listed, Ordered
<1> QED
  BY <1>6, <1>8, <1>9, <1>19 DEF d, n, longer

\* ... and is still a sound map.
LEMMA LinkSound ==
  ASSUME NEW c, Sound(c), Size(c) < MaxSize, NEW k \in Key, ~Has(c, k), NEW v \in Value
  PROVE  Sound(Link(c, k, v))
<1>1. PICK order : Ordered(c, order)
  BY SoundIsOrdered
<1> QED
  BY <1>1, LinkAppends

-----------------------------------------------------------------------------
\* The constructor (simple_cache.h:65) makes an empty list.
LEMMA SoundInit == Init => Sound(cache)
<1> SUFFICES ASSUME Init PROVE Sound(cache)
  OBVIOUS
<1>1. cache.values = [k \in {} |-> Freed] /\ DOMAIN cache.values = {} /\ Size(cache) = 0
  BY FS_EmptySet DEF Init, Size
<1>2. Typed(cache)
  BY <1>1, FS_EmptySet DEF Init, Typed, Iterator
<1>3. cache.values \in [1 .. 0 -> DOMAIN cache.values] /\ Linked(cache, cache.values)
  BY <1>1 DEF Linked, IsInjective
<1>4. Size(cache) <= MaxSize
  BY <1>1, MaxSizeIsAtLeastTwo
<1>5. \E order \in [1 .. Size(cache) -> DOMAIN cache.values] : Linked(cache, order)
  BY <1>1, <1>3
<1> QED
  BY <1>2, <1>4, <1>5 DEF Sound, Listed

\* insert() and erase() keep the map within its capacity and its nodes listed.
LEMMA SoundNext == Sound(cache) /\ [Next]_cache => Sound(cache)'
<1> SUFFICES ASSUME Sound(cache), [Next]_cache PROVE Sound(cache')
  BY DEF Sound, Typed, Listed, Size, Linked
<1>1. ASSUME NEW k \in Key, Erase(k) PROVE Sound(cache')
  BY <1>1, ErasedSound DEF Erase
<1>2. ASSUME NEW k \in Key, NEW v \in Value, Insert(k, v) PROVE Sound(cache')
  BY <1>2, MakeRoomSound, LinkSound DEF Insert, Inserted
<1>3. CASE UNCHANGED cache
  BY <1>3
<1> QED
  BY <1>1, <1>2, <1>3 DEF Next

\* The members keep their types through every sequence of insert() and erase().
THEOREM TypeCorrect == Spec => []TypeOK
<1>1. Sound(cache) => TypeOK
  BY DEF Sound, TypeOK
<1> QED
  BY SoundInit, SoundNext, <1>1, PTL DEF Spec

\* The map stays within its capacity and its nodes form one list.
THEOREM OneListAlways == Spec => []OneList
<1>1. Sound(cache) => OneList
  BY DEF Sound, OneList
<1> QED
  BY SoundInit, SoundNext, <1>1, PTL DEF Spec

\* insert() and erase() never follow a dangling iterator.
THEOREM LinksAreLive == Spec => []LinksLive
<1>1. ASSUME Sound(cache) PROVE LinksLive
  <2> DEFINE n == Size(cache)
  <2>1. /\ n \in Nat /\ (n = 0 <=> DOMAIN cache.values = {})
    BY <1>1, SizeFacts DEF Sound
  <2>2. PICK order \in [1 .. n -> DOMAIN cache.values] : Linked(cache, order)
    BY <1>1 DEF Sound, Listed
  <2> SUFFICES ASSUME n > 0
               PROVE  /\ Has(cache, cache.first) /\ Has(cache, cache.last)
                      /\ \A k \in DOMAIN cache.values \ {cache.last}  : Has(cache, cache.values[k].next)
                      /\ \A k \in DOMAIN cache.values \ {cache.first} : Has(cache, cache.values[k].prev)
    BY <2>1 DEF LinksLive
  <2>3. /\ 1 \in 1 .. n /\ n \in 1 .. n /\ cache.first = order[1] /\ cache.last = order[n]
        /\ \A k \in DOMAIN cache.values : \E i \in 1 .. n : order[i] = k
        /\ \A i \in 1 .. n - 1 : /\ cache.values[order[i]].next = order[i + 1]
                              /\ cache.values[order[i + 1]].prev = order[i]
    BY <2>1, <2>2 DEF Linked
  <2>4. ASSUME NEW k \in DOMAIN cache.values \ {cache.last} PROVE Has(cache, cache.values[k].next)
    <3>1. PICK i \in 1 .. n : order[i] = k
      BY <2>3
    <3>2. i \in 1 .. n - 1 /\ i + 1 \in 1 .. n
      BY <2>1, <2>3, <3>1
    <3> QED
      BY <2>2, <2>3, <3>1, <3>2 DEF Has
  <2>5. ASSUME NEW k \in DOMAIN cache.values \ {cache.first} PROVE Has(cache, cache.values[k].prev)
    <3>1. PICK i \in 1 .. n : order[i] = k
      BY <2>3
    <3>2. i - 1 \in 1 .. n - 1 /\ i - 1 \in 1 .. n /\ (i - 1) + 1 = i
      BY <2>1, <2>3, <3>1
    <3> QED
      BY <2>2, <2>3, <3>1, <3>2 DEF Has
  <2> QED
    BY <2>2, <2>3, <2>4, <2>5 DEF Has
<1> QED
  BY SoundInit, SoundNext, <1>1, PTL DEF Spec
-----------------------------------------------------------------------------
\* Every nonempty set of numbers has a least one ...
LEMMA Least ==
  ASSUME NEW T, T \subseteq Nat, T # {}
  PROVE  \E x \in T : \A y \in T : x <= y
<1>1. \A x, y \in Nat : <<x, y>> \in OpToRel(<, Nat) <=> x < y
  BY DEF OpToRel
<1>2. PICK R : IsWellFoundedOn(R, Nat) /\ \A x, y \in Nat : <<x, y>> \in R <=> x < y
  BY <1>1, NatLessThanWellFounded
<1>3. IsWellFoundedOn(R, Nat)
  BY <1>2
<1>4. \E x \in T : \A y \in T : ~(<<y, x>> \in R)
  BY <1>3, WFMin
<1>5. PICK x \in T : \A y \in T : ~(<<y, x>> \in R)
  BY <1>4
<1>6. \A y \in T : ~(y < x)
  BY <1>2, <1>5
<1> QED
  BY <1>6

\* ... so that a set of numbers with 0 and every successor has them all.
LEMMA Induct ==
  ASSUME NEW T, T \subseteq Nat, 0 \in T, \A n \in T : n + 1 \in T
  PROVE  T = Nat
<1> SUFFICES ASSUME Nat \ T # {} PROVE FALSE
  OBVIOUS
<1>1. \E x \in Nat \ T : \A y \in Nat \ T : x <= y
  BY Least
<1>2. PICK x \in Nat \ T : \A y \in Nat \ T : x <= y
  BY <1>1
<1>3. x # 0 /\ x - 1 \in Nat
  BY <1>2
<1>4. x - 1 \in T
  BY <1>2, <1>3
<1> QED
  BY <1>2, <1>3, <1>4

-----------------------------------------------------------------------------
\* Following next from first visits the nodes in the order they are linked in.
LEMMA WalkIsOrder ==
  ASSUME NEW c, Sound(c), NEW order, Ordered(c, order)
  PROVE  Walk(c) = order
<1> DEFINE n       == Size(c)
           Step(g) == [i \in 1 .. n |-> IF i = 1 THEN c.first ELSE c.values[g[i - 1]].next]
<1>1. n \in Nat /\ order \in [1 .. n -> DOMAIN c.values] /\ Linked(c, order)
  BY SizeFacts DEF Sound, Ordered
<1>2. ASSUME NEW i \in 1 .. n
      PROVE  order[i] = IF i = 1 THEN c.first ELSE c.values[order[i - 1]].next
  <2>1. CASE i = 1
    BY <1>1, <2>1 DEF Linked
  <2>2. CASE i # 1
    <3>1. i - 1 \in 1 .. n - 1 /\ (i - 1) + 1 = i
      BY <1>1, <2>2
    <3> QED
      BY <1>1, <2>2, <3>1 DEF Linked
  <2> QED
    BY <2>1, <2>2
<1>3. order = Step(order)
  BY <1>1, <1>2
<1>4. Walk(c) = CHOOSE visit : visit = Step(visit)
  BY DEF Walk
<1>5. Walk(c) = Step(Walk(c))
  BY <1>3, <1>4
<1> DEFINE w == Walk(c)
           T == {m \in Nat : \A i \in 1 .. n : i <= m => w[i] = order[i]}
<1> HIDE DEF w, n, T
<1>6. /\ w = [i \in 1 .. n |-> w[i]]
      /\ \A i \in 1 .. n : w[i] = IF i = 1 THEN c.first ELSE c.values[w[i - 1]].next
  BY <1>5 DEF w
<1>7. T = Nat
  <2>1. 0 \in T
    BY <1>1 DEF T
  <2>2. ASSUME NEW m \in T PROVE m + 1 \in T
    <3>0. m \in Nat /\ \A i \in 1 .. n : i <= m => w[i] = order[i]
      BY DEF T
    <3> SUFFICES ASSUME m + 1 \in 1 .. n PROVE w[m + 1] = order[m + 1]
      BY <1>1, <3>0 DEF T
    <3>1. CASE m = 0
      BY <1>2, <1>6, <3>1
    <3>2. CASE m # 0
      <4>1. (m + 1) - 1 = m /\ m \in 1 .. n /\ w[m] = order[m]
        BY <1>1, <3>0, <3>2
      <4>2. w[m + 1] = c.values[w[m]].next /\ order[m + 1] = c.values[order[m]].next
        <5>1. /\ w[m + 1] = IF m + 1 = 1 THEN c.first ELSE c.values[w[(m + 1) - 1]].next
              /\ order[m + 1] = IF m + 1 = 1 THEN c.first ELSE c.values[order[(m + 1) - 1]].next
          BY <1>2, <1>6
        <5> QED
          BY <3>0, <3>2, <4>1, <5>1
      <4> QED
        BY <4>1, <4>2
    <3> QED
      BY <3>1, <3>2
  <2>3. T \subseteq Nat
    BY DEF T
  <2> QED
    BY <2>1, <2>2, <2>3, Induct
<1>8. \A i \in 1 .. n : w[i] = order[i]
  <2>1. n \in T
    BY <1>1, <1>7
  <2> QED
    BY <1>1, <2>1 DEF T
<1>9. w = order
  BY <1>1, <1>6, <1>8
<1> QED
  BY <1>9 DEF w

-----------------------------------------------------------------------------
\* What a caller sees of a map whose nodes are linked in this order.
LEMMA ListingIs ==
  ASSUME NEW c, Sound(c), NEW order, Ordered(c, order)
  PROVE  /\ Listing(c) = [order |-> order, stored |-> [x \in DOMAIN c.values |-> c.values[x].value]]
         /\ order \in Seq(Key) /\ Len(order) = Size(c) /\ Size(c) \in Nat
         /\ Fifo!ToSet(order) = DOMAIN c.values
<1>1. Size(c) \in Nat /\ order \in [1 .. Size(c) -> DOMAIN c.values] /\ Linked(c, order)
      /\ DOMAIN c.values \subseteq Key
  BY SizeFacts DEF Sound, Ordered, Typed
<1>2. order \in [1 .. Size(c) -> Key]
  BY <1>1
<1>3. order \in Seq(Key) /\ Len(order) = Size(c)
  BY <1>1, <1>2, SeqDef
<1>4. Fifo!ToSet(order) = DOMAIN c.values
  BY <1>1 DEF Fifo!ToSet, Linked
<1> QED
  BY <1>1, <1>3, <1>4, WalkIsOrder DEF Listing

\* A map that keeps some of another's nodes, in the order `rest', shows the
\* caller what keeping those keys of the first-in first-out map leaves.
LEMMA KeepsIsKeeping ==
  ASSUME NEW c, Sound(c), NEW d, Sound(d), Keeps(c, d), NEW rest, Ordered(d, rest)
  PROVE  Listing(d) = Fifo!Keeping(Listing(c), rest)
<1>1. PICK order : Ordered(c, order)
  BY SoundIsOrdered
<1>2. Listing(c).stored = [x \in DOMAIN c.values |-> c.values[x].value]
  BY DEF Listing
<1>3. /\ Listing(d) = [order |-> rest, stored |-> [x \in DOMAIN d.values |-> d.values[x].value]]
      /\ Fifo!ToSet(rest) = DOMAIN d.values
  BY ListingIs
<1>4. [x \in DOMAIN d.values |-> Listing(c).stored[x]] = [x \in DOMAIN d.values |-> d.values[x].value]
  BY <1>2 DEF Keeps
<1> QED
  BY <1>3, <1>4 DEF Fifo!Keeping, Fifo!Restrict

\* A full map forgets the key stored longest ago, and no other.
LEMMA MakeRoomForgetsOldest ==
  ASSUME NEW c, Sound(c)
  PROVE  Listing(MakeRoom(c)) = Fifo!MakeRoom(Listing(c))
<1>1. PICK order : Ordered(c, order)
  BY SoundIsOrdered
<1>2. /\ Listing(c).order = order
      /\ order \in Seq(Key) /\ Len(order) = Size(c) /\ Size(c) \in Nat
  BY <1>1, ListingIs
<1>3. MaxSize \in Nat /\ MaxSize >= 2
  BY MaxSizeIsAtLeastTwo
<1>4. CASE Size(c) # MaxSize
  BY <1>2, <1>4 DEF MakeRoom, Fifo!MakeRoom
<1>5. CASE Size(c) = MaxSize
  <2> DEFINE d    == MakeRoom(c)
             rest == [i \in 1 .. MaxSize - 1 |-> order[i + 1]]
  <2>1. Sound(d) /\ Keeps(c, d) /\ Ordered(d, rest)
    BY <1>1, <1>5, MakeRoomShifts
  <2>2. Tail(order) = rest
    <3>1. /\ Tail(order) \in Seq(Key) /\ Len(Tail(order)) = MaxSize - 1
          /\ \A i \in 1 .. MaxSize - 1 : Tail(order)[i] = order[i + 1]
      BY <1>2, <1>3, <1>5, HeadTailProperties, EmptySeq
    <3>2. rest \in Seq(Key) /\ Len(rest) = MaxSize - 1
      BY <1>5, <2>1, MakeRoomShifts, <1>1, ListingIs
    <3> QED
      BY <3>1, <3>2, SeqEqual
  <2> HIDE DEF d, rest
  <2>3. Listing(d) = Fifo!Keeping(Listing(c), rest)
    BY <2>1, KeepsIsKeeping
  <2>4. Fifo!MakeRoom(Listing(c)) = Fifo!Keeping(Listing(c), rest)
    BY <1>2, <1>5, <2>2 DEF Fifo!MakeRoom
  <2> QED
    BY <2>3, <2>4 DEF d
<1> QED
  BY <1>4, <1>5

\* erase() forgets its key and leaves the order of the others alone.
LEMMA ErasedForgetsKey ==
  ASSUME NEW c, Sound(c), NEW k
  PROVE  Listing(Erased(c, k)) = Fifo!Erased(Listing(c), k)
<1>1. PICK order : Ordered(c, order)
  BY SoundIsOrdered
<1> DEFINE n == Size(c)
<1>2. /\ Listing(c) = [order |-> order, stored |-> [x \in DOMAIN c.values |-> c.values[x].value]]
      /\ order \in Seq(Key) /\ Len(order) = n /\ n \in Nat
      /\ Fifo!ToSet(order) = DOMAIN c.values
  BY <1>1, ListingIs
<1>3. order \in [1 .. n -> DOMAIN c.values] /\ Linked(c, order)
  BY <1>1 DEF Ordered
<1>4. CASE ~Has(c, k)
  <2>1. Erased(c, k) = c
    BY <1>4 DEF Erased
  <2>2. Fifo!RemoveFirst(order, k) = order
    BY <1>2, <1>3, <1>4 DEF Has, Fifo!RemoveFirst
  <2>3. Keeps(c, c)
    BY DEF Keeps
  <2>4. Listing(c) = Fifo!Keeping(Listing(c), order)
    BY <1>1, <2>3, KeepsIsKeeping
  <2> QED
    BY <1>2, <2>1, <2>2, <2>4 DEF Fifo!Erased
<1>5. CASE Has(c, k)
  <2>1. PICK p \in 1 .. n : order[p] = k
    BY <1>3, <1>5 DEF Linked, Has
  <2>2. \A i \in 1 .. n : order[i] = k => i = p
    BY <1>3, <2>1 DEF Linked, IsInjective
  <2> DEFINE d    == Erased(c, k)
             rest == [i \in 1 .. n - 1 |-> IF i < p THEN order[i] ELSE order[i + 1]]
  <2>3. Sound(d) /\ Keeps(c, d) /\ Ordered(d, rest) /\ Size(d) = n - 1
    BY <1>1, <2>1, ErasedShifts
  <2>4. rest \in Seq(Key) /\ Len(rest) = n - 1
    BY <2>3, ListingIs
  <2> HIDE DEF d, n
  <2>5. Fifo!RemoveFirst(order, k) = rest
    <3>1. {i \in 1 .. Len(order) : order[i] = k} = {p}
      BY <1>2, <2>1, <2>2
    <3>2. Fifo!Min({p}) = p
      BY DEF Fifo!Min
    <3>3. Fifo!SelectInSeq(order, LAMBDA v : v = k) = p
      BY <3>1, <3>2 DEF Fifo!SelectInSeq
    <3>4. Fifo!RemoveFirst(order, k) = SubSeq(order, 1, p - 1) \o SubSeq(order, p + 1, n)
      BY <1>2, <2>1, <3>3 DEF Fifo!RemoveFirst, Fifo!RemoveAt
    <3> DEFINE low  == SubSeq(order, 1, p - 1)
               high == SubSeq(order, p + 1, n)
    <3>5. /\ p \in Int /\ p - 1 \in Int /\ p + 1 \in Int /\ n \in Int /\ 1 \in Int
          /\ \A i \in 1 .. p - 1 : order[i] \in Key
          /\ \A i \in p + 1 .. n : order[i] \in Key
      BY <1>2, <2>1
    <3>6. /\ low \in Seq(Key) /\ Len(low) = (IF 1 <= p - 1 THEN (p - 1) - 1 + 1 ELSE 0)
          /\ \A i \in 1 .. (p - 1) - 1 + 1 : low[i] = order[1 + i - 1]
      BY <3>5, SubSeqProperties
    <3>7. /\ high \in Seq(Key) /\ Len(high) = (IF p + 1 <= n THEN n - (p + 1) + 1 ELSE 0)
          /\ \A i \in 1 .. n - (p + 1) + 1 : high[i] = order[(p + 1) + i - 1]
      BY <3>5, SubSeqProperties
    <3> HIDE DEF low, high
    <3>8. /\ Len(low) = p - 1 /\ \A i \in 1 .. p - 1 : low[i] = order[i]
      BY <2>1, <3>6
    <3>9. /\ Len(high) = n - p /\ \A i \in 1 .. n - p : high[i] = order[p + i]
      BY <1>2, <2>1, <3>7
    <3>12. /\ low \o high \in Seq(Key) /\ Len(low \o high) = Len(low) + Len(high)
           /\ \A i \in 1 .. Len(low) + Len(high) :
                (low \o high)[i] = IF i <= Len(low) THEN low[i] ELSE high[i - Len(low)]
      BY <3>6, <3>7, ConcatProperties
    <3>13. Len(low) + Len(high) = n - 1
      BY <1>2, <2>1, <3>8, <3>9
    <3>10. /\ low \o high \in Seq(Key) /\ Len(low \o high) = n - 1
           /\ \A i \in 1 .. n - 1 : (low \o high)[i] = IF i <= p - 1 THEN low[i] ELSE high[i - (p - 1)]
      BY <3>8, <3>12, <3>13
    <3>11. \A i \in 1 .. n - 1 : (low \o high)[i] = rest[i]
      <4> SUFFICES ASSUME NEW i \in 1 .. n - 1 PROVE (low \o high)[i] = rest[i]
        OBVIOUS
      <4>1. CASE i < p
        BY <1>2, <2>1, <3>8, <3>10, <4>1
      <4>2. CASE ~(i < p)
        <5>1. i - (p - 1) \in 1 .. n - p /\ p + (i - (p - 1)) = i + 1
          BY <1>2, <2>1, <4>2
        <5> QED
          BY <1>2, <2>1, <3>9, <3>10, <4>2, <5>1
      <4> QED
        BY <4>1, <4>2
    <3> HIDE DEF rest
    <3> QED
      BY <2>4, <3>4, <3>10, <3>11, SeqEqual DEF low, high
  <2> HIDE DEF rest
  <2>6. Listing(d) = Fifo!Keeping(Listing(c), rest)
    BY <2>3, KeepsIsKeeping
  <2> QED
    BY <1>2, <2>5, <2>6 DEF Fifo!Erased, d
<1> QED
  BY <1>4, <1>5

\* insert() of a new key appends it, with its value.
LEMMA LinkPuts ==
  ASSUME NEW c, Sound(c), Size(c) < MaxSize, NEW k \in Key, NEW v \in Value, ~Has(c, k)
  PROVE  Listing(Link(c, k, v)) = Fifo!Put(Listing(c), k, v)
<1>1. PICK order : Ordered(c, order)
  BY SoundIsOrdered
<1> DEFINE n      == Size(c)
           d      == Link(c, k, v)
           longer == [i \in 1 .. n + 1 |-> IF i = n + 1 THEN k ELSE order[i]]
<1>2. /\ Listing(c) = [order |-> order, stored |-> [x \in DOMAIN c.values |-> c.values[x].value]]
      /\ order \in Seq(Key) /\ Len(order) = n /\ n \in Nat
      /\ Fifo!ToSet(order) = DOMAIN c.values
  BY <1>1, ListingIs
<1>3. /\ Sound(d) /\ Ordered(d, longer)
      /\ DOMAIN d.values = DOMAIN c.values \cup {k} /\ d.values[k].value = v
      /\ \A x \in DOMAIN c.values : d.values[x].value = c.values[x].value
  BY <1>1, LinkAppends
<1>4. Append(order, k) = longer
  <2>1. /\ Append(order, k) \in Seq(Key) /\ Len(Append(order, k)) = n + 1
        /\ \A i \in 1 .. n + 1 : Append(order, k)[i] = IF i = n + 1 THEN k ELSE order[i]
    BY <1>2, AppendProperties
  <2>2. longer \in Seq(Key) /\ Len(longer) = n + 1
    BY <1>2, <1>3, ListingIs
  <2> QED
    BY <2>1, <2>2, SeqEqual
<1> HIDE DEF d, longer, n
<1>5. Listing(d) = [order |-> longer, stored |-> [x \in DOMAIN d.values |-> d.values[x].value]]
  BY <1>3, ListingIs
<1>6. [x \in DOMAIN d.values |-> d.values[x].value]
        = [x \in DOMAIN c.values \cup {k} |-> IF x = k THEN v ELSE c.values[x].value]
  BY <1>3
<1>7. ~Fifo!Has(Listing(c), k)
  BY <1>2 DEF Has, Fifo!Has
<1>8. Fifo!Put(Listing(c), k, v)
        = [order  |-> Append(order, k),
           stored |-> [x \in DOMAIN c.values \cup {k} |-> IF x = k THEN v ELSE c.values[x].value]]
  <2> DEFINE stored == [x \in DOMAIN c.values |-> c.values[x].value]
  <2>1. /\ DOMAIN stored = DOMAIN c.values
        /\ \A x \in DOMAIN c.values : stored[x] = c.values[x].value
    OBVIOUS
  <2>2. Listing(c).order = order /\ Listing(c).stored = stored
    BY <1>2
  <2> HIDE DEF stored
  <2>3. Fifo!Put(Listing(c), k, v)
          = [order  |-> Append(order, k),
             stored |-> [x \in DOMAIN stored \cup {k} |-> IF x = k THEN v ELSE stored[x]]]
    BY <1>7, <2>2 DEF Fifo!Put
  <2>4. [x \in DOMAIN stored \cup {k} |-> IF x = k THEN v ELSE stored[x]]
          = [x \in DOMAIN c.values \cup {k} |-> IF x = k THEN v ELSE c.values[x].value]
    BY <2>1
  <2> QED
    BY <2>3, <2>4
<1> QED
  BY <1>4, <1>5, <1>6, <1>8 DEF d

\* insert(): a full map makes room, then a key that is not there is appended.
LEMMA InsertedIsInserted ==
  ASSUME NEW c, Sound(c), NEW k \in Key, NEW v \in Value
  PROVE  Listing(Inserted(c, k, v)) = Fifo!Inserted(Listing(c), k, v)
<1> DEFINE room == MakeRoom(c)
<1>1. Sound(room) /\ Size(room) < MaxSize /\ Listing(room) = Fifo!MakeRoom(Listing(c))
  BY MakeRoomSound, MakeRoomForgetsOldest
<1>2. Fifo!Inserted(Listing(c), k, v) = Fifo!Put(Listing(room), k, v)
  BY <1>1 DEF Fifo!Inserted
<1>3. Inserted(c, k, v) = IF Has(room, k) THEN room ELSE Link(room, k, v)
  BY DEF Inserted
<1> HIDE DEF room
<1>4. CASE Has(room, k)
  <2>1. PICK order : Ordered(room, order)
    BY <1>1, SoundIsOrdered
  <2>2. Listing(room).order = order /\ Fifo!ToSet(order) = DOMAIN room.values
    BY <1>1, <2>1, ListingIs
  <2>3. Fifo!Put(Listing(room), k, v) = Listing(room)
    BY <1>4, <2>2 DEF Has, Fifo!Put, Fifo!Has
  <2> QED
    BY <1>2, <1>3, <1>4, <2>3
<1>5. CASE ~Has(room, k)
  BY <1>1, <1>2, <1>3, <1>5, LinkPuts
<1> QED
  BY <1>4, <1>5

-----------------------------------------------------------------------------
\* The constructor makes what the caller sees as an empty map.
LEMMA FifoInit == Init => Fifo!Init
<1> SUFFICES ASSUME Init PROVE Listing(cache) = Fifo!Empty
  BY DEF Fifo!Init
<1>1. Sound(cache) /\ DOMAIN cache.values = {}
  BY SoundInit DEF Init
<1>2. PICK order : Ordered(cache, order)
  BY <1>1, SoundIsOrdered
<1>3. /\ Listing(cache) = [order |-> order, stored |-> [x \in DOMAIN cache.values |-> cache.values[x].value]]
      /\ order \in Seq(Key) /\ Len(order) = 0
  BY <1>1, <1>2, ListingIs, SizeFacts DEF Sound
<1>4. order = <<>>
  BY <1>3, EmptySeq
<1>5. [x \in DOMAIN cache.values |-> cache.values[x].value] = <<>>
  BY <1>1
<1> QED
  BY <1>3, <1>4, <1>5 DEF Fifo!Empty

\* Each operation on the nodes is the operation of the first-in first-out map.
LEMMA FifoNext == Sound(cache) /\ [Next]_cache => [Fifo!Next]_(Listing(cache))
<1> SUFFICES ASSUME Sound(cache), [Next]_cache
             PROVE  Fifo!Next \/ Listing(cache)' = Listing(cache)
  OBVIOUS
<1>1. ASSUME NEW k \in Key, Erase(k) PROVE Fifo!Erase(k)
  BY <1>1, ErasedForgetsKey DEF Erase, Fifo!Erase
<1>2. ASSUME NEW k \in Key, NEW v \in Value, Insert(k, v) PROVE Fifo!Insert(k, v)
  BY <1>2, InsertedIsInserted DEF Insert, Fifo!Insert
<1>3. CASE UNCHANGED cache
  BY <1>3
<1> QED
  BY <1>1, <1>2, <1>3 DEF Next, Fifo!Next

\* The linked nodes implement the first-in first-out map, for every capacity and
\* all keys: an insertion into a full map evicts the key inserted longest ago
\* and no other, a key that is there keeps its value and its place, an erased
\* key leaves the order of the others alone.
THEOREM RefinesFifo == Spec => ImplementsFifo
BY SoundInit, SoundNext, FifoInit, FifoNext, PTL DEF Spec, ImplementsFifo, Fifo!Spec
==============================================================================
