----------------------------- MODULE SimpleCache -----------------------------
(***************************************************************************)
(* request_processing/simple_cache.h: the map from keys to nodes, each     *)
(* node linked by iterators to the one inserted before and after it, and   *)
(* the iterators `first' and `last'.  An iterator to the node of key k is  *)
(* k itself.  An iterator to a node that was erased becomes Freed wherever *)
(* it is left behind, so that a later node with the same key is not        *)
(* mistaken for the erased one; End is values.end().                       *)
(***************************************************************************)
EXTENDS Naturals, FiniteSets, Functions

CONSTANTS Key, Value,
          MaxSize,     \* the template argument MAX_SIZE
          End, Freed   \* iterators that may not be dereferenced

ASSUME MaxSizeIsAtLeastTwo == MaxSize \in Nat /\ MaxSize >= 2
ASSUME IteratorsDiffer     == End \notin Key /\ Freed \notin Key

VARIABLE cache         \* the members: [values, first, last]

Iterator == Key \cup {End, Freed}
Node     == [value : Value, next : Iterator, prev : Iterator]

Size(c)   == Cardinality(DOMAIN c.values)
Has(c, k) == k \in DOMAIN c.values

Init == cache = [values |-> [k \in {} |-> Freed], first |-> End, last |-> End]

-----------------------------------------------------------------------------
\* What is left of the iterator `it' once the node of key k is gone.
Left(it, k) == IF it = k THEN Freed ELSE it

\* values.erase(k)
EraseNode(c, k) ==
  [values |-> [x \in DOMAIN c.values \ {k} |->
                 [c.values[x] EXCEPT !.next = Left(@, k), !.prev = Left(@, k)]],
   first  |-> Left(c.first, k),
   last   |-> Left(c.last, k)]

\* Mutants: one node too many fits, and the newest node is dropped.
MakeRoom_OffByOne(c) ==
  IF Size(c) > MaxSize
    THEN LET next == c.values[c.first].next
         IN  [EraseNode(c, c.first) EXCEPT !.first = next,
                                           !.values[next].prev = next]
    ELSE c

MakeRoom_DropsLast(c) ==
  IF Size(c) = MaxSize
    THEN LET prev == c.values[c.last].prev
         IN  [EraseNode(c, c.last) EXCEPT !.last = prev]
    ELSE c

\* The first three statements of insert(): a full map drops its first node.
MakeRoom(c) ==
  IF Size(c) = MaxSize
    THEN LET next == c.values[c.first].next
         IN  [EraseNode(c, c.first) EXCEPT !.first = next,
                                           !.values[next].prev = next]
    ELSE c

\* Mutant: the new node's prev is not set.
Link_NoPrev(c, k, v) ==
  LET alone == DOMAIN c.values = {}
      node  == [value |-> v, next |-> k]
  IN  [values |-> [x \in DOMAIN c.values \cup {k} |->
                     IF x = k THEN node
                     ELSE IF x = c.last THEN [c.values[x] EXCEPT !.next = k]
                     ELSE c.values[x]],
       first  |-> IF alone THEN k ELSE c.first,
       last   |-> k]

\* values.insert() of a node that was not there, and its links.
Link(c, k, v) ==
  LET alone == DOMAIN c.values = {}
      node  == [value |-> v, next |-> k, prev |-> IF alone THEN k ELSE c.last]
  IN  [values |-> [x \in DOMAIN c.values \cup {k} |->
                     IF x = k THEN node
                     ELSE IF x = c.last THEN [c.values[x] EXCEPT !.next = k]
                     ELSE c.values[x]],
       first  |-> IF alone THEN k ELSE c.first,
       last   |-> k]

\* insert(): values.insert() leaves a key that is already present alone.
Inserted(c, k, v) ==
  LET room == MakeRoom(c)
  IN  IF Has(room, k) THEN room ELSE Link(room, k, v)

\* Mutant: last still leads to the node that is erased.
Erased_KeepsLast(c, k) ==
  LET prev   == c.values[k].prev
      next   == c.values[k].next
      before == IF k = c.first THEN [c EXCEPT !.first = next]
                               ELSE [c EXCEPT !.values[prev].next = next]
      after  == IF k = c.last THEN before ELSE [before EXCEPT !.values[next].prev = prev]
  IN  IF Has(c, k) THEN EraseNode(after, k) ELSE c

\* erase(): unlinks the node from its neighbours, then frees it.
Erased(c, k) ==
  LET prev   == c.values[k].prev
      next   == c.values[k].next
      before == IF k = c.first THEN [c EXCEPT !.first = next]
                               ELSE [c EXCEPT !.values[prev].next = next]
      after  == IF k = c.last THEN [before EXCEPT !.last = prev]
                              ELSE [before EXCEPT !.values[next].prev = prev]
  IN  IF Has(c, k) THEN EraseNode(after, k) ELSE c

-----------------------------------------------------------------------------
Insert(k, v) == cache' = Inserted(cache, k, v)

Erase(k) == cache' = Erased(cache, k)

Next == \E k \in Key : Erase(k) \/ \E v \in Value : Insert(k, v)

Spec == Init /\ [][Next]_cache

-----------------------------------------------------------------------------
Typed(c) ==
  /\ c = [values |-> c.values, first |-> c.first, last |-> c.last]
  /\ DOMAIN c.values \subseteq Key /\ IsFiniteSet(DOMAIN c.values)
  /\ c.values \in [DOMAIN c.values -> Node]
  /\ c.first \in Iterator /\ c.last \in Iterator

\* The members hold what their declarations say.
TypeOK == Typed(cache)

\* Every iterator that insert() or erase() may dereference in this state leads
\* to a node of the map: first and last of a map that is not empty, next of
\* every node but the last, prev of every node but the first.  (The others are
\* left dangling by erase() and must never be followed.)
LinksLive ==
  DOMAIN cache.values # {} =>
    /\ Has(cache, cache.first)
    /\ Has(cache, cache.last)
    /\ \A k \in DOMAIN cache.values \ {cache.last}  : Has(cache, cache.values[k].next)
    /\ \A k \in DOMAIN cache.values \ {cache.first} : Has(cache, cache.values[k].prev)

\* The nodes form one list: `order' visits every node once, from first to last,
\* and next and prev agree with it.
Linked(c, order) ==
  /\ DOMAIN order = 1 .. Size(c)
  /\ \A i \in DOMAIN order : order[i] \in DOMAIN c.values
  /\ IsInjective(order)
  /\ \A k \in DOMAIN c.values : \E i \in DOMAIN order : order[i] = k
  /\ Size(c) > 0 => c.first = order[1] /\ c.last = order[Size(c)]
  /\ \A i \in 1 .. Size(c) - 1 : /\ c.values[order[i]].next = order[i + 1]
                                 /\ c.values[order[i + 1]].prev = order[i]

Listed(c) ==
  /\ Size(c) <= MaxSize
  /\ \E order \in [1 .. Size(c) -> DOMAIN c.values] : Linked(c, order)

\* The inductive invariant behind LinksLive: the map never exceeds its
\* capacity and its nodes are linked in some order.
OneList == Listed(cache)

-----------------------------------------------------------------------------
\* The keys in the order in which the iterators visit them.
Walk(c) ==
  LET visit[i \in 1 .. Size(c)] == IF i = 1 THEN c.first ELSE c.values[visit[i - 1]].next
  IN  visit

\* What a caller sees of the map.
Listing(c) == [order |-> Walk(c), stored |-> [k \in DOMAIN c.values |-> c.values[k].value]]

Fifo == INSTANCE FifoCache WITH fifo <- Listing(cache)

\* The linked nodes implement the first-in first-out map: an insertion into a
\* full map evicts the key inserted longest ago and no other, an erased key
\* leaves the order of the others alone.
ImplementsFifo == Fifo!Spec
==============================================================================
