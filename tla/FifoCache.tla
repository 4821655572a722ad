------------------------------ MODULE FifoCache ------------------------------
(***************************************************************************)
(* What simple_cache promises its callers: a map of at most MaxSize keys   *)
(* that forgets the key stored longest ago.  `order' lists the keys, the   *)
(* oldest first, and `stored' gives each its value.  A key that is present *)
(* keeps its value and its place when it is inserted again, and a full map *)
(* makes room before it looks whether the key is there.                    *)
(***************************************************************************)
EXTENDS Naturals, Sequences, SequencesExt

CONSTANTS Key, Value,
          MaxSize      \* the template argument MAX_SIZE: 20000 and 500

VARIABLE fifo          \* [order : Seq(Key), stored : [ToSet(order) -> Value]]

Empty == [order |-> <<>>, stored |-> <<>>]

Has(f, k) == k \in ToSet(f.order)

Keeping(f, keys) == [order |-> keys, stored |-> Restrict(f.stored, ToSet(keys))]

\* Mutant: room is made only when there are too many already.
MakeRoom_Late(f) == IF Len(f.order) > MaxSize THEN Keeping(f, Tail(f.order)) ELSE f

MakeRoom(f) == IF Len(f.order) = MaxSize THEN Keeping(f, Tail(f.order)) ELSE f

Put(f, k, v) ==
  IF Has(f, k) THEN f
  ELSE [order  |-> Append(f.order, k),
        stored |-> [x \in DOMAIN f.stored \cup {k} |-> IF x = k THEN v ELSE f.stored[x]]]

Inserted(f, k, v) == Put(MakeRoom(f), k, v)

Erased(f, k) == Keeping(f, RemoveFirst(f.order, k))

Init == fifo = Empty

Insert(k, v) == fifo' = Inserted(fifo, k, v)

Erase(k) == fifo' = Erased(fifo, k)

Next == \E k \in Key : Erase(k) \/ \E v \in Value : Insert(k, v)

Spec == Init /\ [][Next]_fifo
==============================================================================
