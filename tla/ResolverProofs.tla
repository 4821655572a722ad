--------------------------- MODULE ResolverProofs ----------------------------
(***************************************************************************)
(* The resolver's safety for any number of threads, calls and hosts, and   *)
(* any size of its cache of addresses.  Inv is inductive; each of its      *)
(* parts is preserved by a theorem of its own, under the parts it needs.   *)
(***************************************************************************)
EXTENDS Resolver, FiniteSetTheorems, SequenceTheorems, TLAPS

-----------------------------------------------------------------------------
(***************************************************************************)
(* The cache of addresses.                                                 *)
(***************************************************************************)
\* Eviction (simple_cache.h:70-75) leaves the other names their addresses.
LEMMA MakeRoomAddressed ==
  ASSUME NEW f, Addressed(f) PROVE Addressed(Cache!MakeRoom(f))
<1>1. CASE Len(f.order) # CacheSize
  BY <1>1 DEF Cache!MakeRoom
<1>2. CASE Len(f.order) = CacheSize
  <2> DEFINE keys == Tail(f.order)
             g    == Cache!MakeRoom(f)
  <2>1. g = Cache!Keeping(f, keys)
    BY <1>2 DEF Cache!MakeRoom
  <2>2. g.order = keys /\ g.stored = Cache!Restrict(f.stored, Cache!ToSet(keys))
    BY <2>1 DEF Cache!Keeping
  <2>3. f.order # <<>> /\ f.order \in Seq(Name)
    BY <1>2, CacheAssumption DEF Addressed
  <2>4. keys \in Seq(Name) /\ \A i \in DOMAIN keys : i + 1 \in DOMAIN f.order /\ keys[i] = f.order[i + 1]
    BY <2>3
  <2>5. \A i \in DOMAIN keys : keys[i] \in DOMAIN f.stored /\ f.stored[keys[i]] = keys[i]
    BY <2>4 DEF Addressed
  <2>6. \A i \in DOMAIN keys : keys[i] \in Cache!ToSet(keys)
    BY DEF Cache!ToSet
  <2> QED
    BY <2>2, <2>4, <2>5, <2>6 DEF Addressed, Cache!Restrict
<1> QED
  BY <1>1, <1>2

\* insert() of a name with its own addresses (cache_ip, resolver.cpp:116).
LEMMA InsertedAddressed ==
  ASSUME NEW f, Addressed(f), NEW n \in Name
  PROVE  Addressed(Cache!Inserted(f, n, n))
<1> DEFINE g == Cache!MakeRoom(f)
           h == Cache!Inserted(f, n, n)
<1>1. Addressed(g)
  BY MakeRoomAddressed
<1> HIDE DEF g
<1>2. h = Cache!Put(g, n, n)
  BY DEF Cache!Inserted, g
<1>3. CASE Cache!Has(g, n)
  BY <1>1, <1>2, <1>3 DEF Cache!Put
<1>4. CASE ~Cache!Has(g, n)
  <2>1. /\ h.order = Append(g.order, n)
        /\ h.stored = [x \in DOMAIN g.stored \cup {n} |-> IF x = n THEN n ELSE g.stored[x]]
    BY <1>2, <1>4 DEF Cache!Put
  <2> HIDE DEF h
  <2>2. g.order \in Seq(Name) /\ h.order \in Seq(Name)
    BY <1>1, <2>1 DEF Addressed
  <2>3. ASSUME NEW i \in DOMAIN h.order
        PROVE  h.order[i] = n \/ (i \in DOMAIN g.order /\ h.order[i] = g.order[i])
    BY <2>1, <2>2
  <2>4. ASSUME NEW i \in DOMAIN h.order
        PROVE  h.order[i] \in DOMAIN h.stored /\ h.stored[h.order[i]] = h.order[i]
    BY <1>1, <2>1, <2>3 DEF Addressed
  <2> QED
    BY <2>2, <2>4 DEF Addressed, h
<1> QED
  BY <1>3, <1>4

\* find_cached() returns the addresses of the name it is asked for.
LEMMA CachedIsRight ==
  ASSUME NEW f, Addressed(f), NEW n, Cache!Has(f, n)
  PROVE  f.stored[n] = n
BY DEF Cache!Has, Cache!ToSet, Addressed

-----------------------------------------------------------------------------
(***************************************************************************)
(* Types.                                                                  *)
(***************************************************************************)
\* The constructor (resolver.cpp:65) leaves every member of its type.
LEMMA TypeInit == Init => TypeOK
<1> SUFFICES ASSUME Init PROVE TypeOK
  OBVIOUS
<1>1. in_queue \in Seq(Call) /\ out_queue \in Seq(Reply) /\ cache.order \in Seq(Name)
  BY DEF Init, Cache!Init, Cache!Empty
<1> QED
  BY <1>1 DEF Init, TypeOK, Label

\* So does every step: no thread is ever in a state the code does not have.
LEMMA TypeNext == Inv /\ [Next]_vars => TypeOK'
<1> SUFFICES ASSUME Inv, [Next]_vars PROVE TypeOK'
  OBVIOUS
<1> USE CallAssumption DEF TypeOK, Label, Inv
<1>1. CASE UNCHANGED vars
  BY <1>1 DEF vars
<1>2. ASSUME NEW c \in Call, ResolveHost(c) PROVE TypeOK'
  BY <1>2 DEF ResolveHost, ToLoop, Pool
<1>3. CASE NotifyOne
  <2>1. pc' \in [Worker -> Label]
    BY <1>3 DEF NotifyOne
  <2> QED
    BY <1>3, <2>1 DEF NotifyOne, ToWorkers, ToLoop
<1>4. CASE ReadNotifier
  BY <1>4 DEF ReadNotifier, ToWorkers, Pool
<1>5. CASE GetIp
  <2>1. out_queue # <<>>
    BY <1>5, FS_CardinalityType, FS_Subset, WorkerAssumption DEF GetIp, CounterBacked, Noticed, Writing
  <2>2. Head(out_queue) \in Reply /\ Tail(out_queue) \in Seq(Reply)
    BY <2>1
  <2> QED
    BY <1>5, <2>2 DEF GetIp, ToWorkers, Pool
<1>6. CASE NotifyAll
  BY <1>6 DEF NotifyAll, ToWorkers, ToLoop
<1>7. CASE Join
  BY <1>7 DEF Join, ToWorkers, ToLoop, Pool
<1>8. CASE Stop
  BY <1>8 DEF Stop, ToWorkers, ToLoop, Pool
<1>9. ASSUME NEW w \in Worker, WorkerStep(w) \/ WakeSpuriously(w) PROVE TypeOK'
  <2> USE DEF Goto, Shared
  <2>1. CASE Check(w)
    BY <2>1 DEF Check
  <2>2. CASE Look(w)
    BY <2>2 DEF Look
  <2>3. CASE TakeNothing(w)
    BY <2>3 DEF TakeNothing
  <2>4. CASE Take(w)
    <3>1. Head(in_queue) \in Call /\ Tail(in_queue) \in Seq(Call)
      BY <2>4 DEF Take
    <3> QED
      BY <2>4, <3>1 DEF Take
  <2>5. CASE FindCached(w)
    <3>1. found' \in [Worker -> Name \cup {None}]
      BY <2>5, CachedIsRight DEF FindCached, EachCallInOnePlace, AnswersRight, Busy
    <3> QED
      BY <2>5, <3>1 DEF FindCached
  <2>6. CASE Resolve(w)
    <3>1. NameOf[job[w]] \in Name
      BY <2>6 DEF Resolve, EachCallInOnePlace, Busy
    <3>2. cache'.order \in Seq(Name)
      BY <2>6, <3>1, InsertedAddressed DEF Resolve, Cache!Insert, AnswersRight, Addressed
    <3> QED
      BY <2>6, <3>1, <3>2 DEF Resolve
  <2>7. CASE FailToResolve(w)
    BY <2>7 DEF FailToResolve
  <2>8. CASE PushAnswer(w)
    <3>1. [call |-> job[w], ips |-> found[w]] \in Reply
      BY <2>8 DEF PushAnswer, EachCallInOnePlace, Busy, Reply
    <3> QED
      BY <2>8, <3>1 DEF PushAnswer
  <2>9. CASE Terminate(w)
    BY <2>9 DEF Terminate, ToWorkers, ToLoop
  <2>10. CASE WriteNotifier(w)
    BY <2>10 DEF WriteNotifier
  <2>11. CASE WakeSpuriously(w)
    BY <2>11 DEF WakeSpuriously
  <2> QED
    BY <1>9, <2>1, <2>2, <2>3, <2>4, <2>5, <2>6, <2>7, <2>8, <2>9, <2>10, <2>11 DEF WorkerStep
<1> QED
  BY <1>1, <1>2, <1>3, <1>4, <1>5, <1>6, <1>7, <1>8, <1>9 DEF Next, LoopStep

-----------------------------------------------------------------------------
(***************************************************************************)
(* The eventfd's counter and the queue of answers.                         *)
(***************************************************************************)
\* The threads between push (resolver.cpp:192) and write (:195) can be counted.
LEMMA WritingIsFinite == IsFiniteSet(Writing) /\ Cardinality(Writing) \in Nat
BY WorkerAssumption, FS_Subset, FS_CardinalityType DEF Writing

\* A unit of the eventfd is written after the push of its answer and read before
\* the answer is popped, so that no step leaves the counter ahead of the queue.
LEMMA CounterNext == Inv /\ [Next]_vars => CounterBacked'
<1> SUFFICES ASSUME Inv, [Next]_vars PROVE CounterBacked'
  OBVIOUS
<1> USE WritingIsFinite DEF CounterBacked, Noticed
<1>0. /\ TypeOK /\ CounterBacked
      /\ Len(out_queue) \in Nat /\ counter \in Nat /\ pc \in [Worker -> Label]
  BY DEF Inv, TypeOK
<1>q. ASSUME out_queue' = out_queue, counter' = counter, Writing' = Writing, Noticed' <= Noticed
      PROVE  CounterBacked'
  BY <1>0, <1>q
<1>1. CASE UNCHANGED vars
  BY <1>1, <1>q DEF vars, Writing
<1>2. ASSUME NEW c \in Call, ResolveHost(c) PROVE CounterBacked'
  BY <1>2, <1>q DEF ResolveHost, ToLoop, Pool, Writing
<1>3. CASE NotifyOne
  <2>1. Writing' = Writing
    BY <1>0, <1>3 DEF NotifyOne, Writing
  <2> QED
    BY <1>3, <1>q, <2>1 DEF NotifyOne, ToLoop
<1>4. CASE ReadNotifier
  <2>1. Writing' = Writing /\ Noticed = 0 /\ Noticed' = 1
    BY <1>4 DEF ReadNotifier, Pool, Writing
  <2> QED
    BY <1>0, <1>4, <2>1 DEF ReadNotifier
<1>5. CASE GetIp
  <2>1. Writing' = Writing /\ Noticed = 1 /\ Noticed' = 0 /\ counter' = counter
    BY <1>5 DEF GetIp, Pool, Writing
  <2>2. out_queue # <<>> /\ out_queue \in Seq(Reply)
    BY <1>0, <2>1 DEF TypeOK
  <2>3. Len(out_queue') = Len(out_queue) - 1
    BY <1>5, <2>2 DEF GetIp
  <2> QED
    BY <1>0, <2>1, <2>3
<1>6. CASE NotifyAll
  <2>1. Writing' = Writing
    BY <1>0, <1>6 DEF NotifyAll, Writing
  <2> QED
    BY <1>6, <1>q, <2>1 DEF NotifyAll, ToLoop
<1>7. CASE Join \/ Stop
  BY <1>7, <1>q DEF Join, Stop, ToLoop, Pool, Writing
<1>8. ASSUME NEW w \in Worker, PushAnswer(w) PROVE CounterBacked'
  <2>1. Writing' = Writing \cup {w} /\ w \notin Writing
    BY <1>0, <1>8 DEF PushAnswer, Goto, Writing
  <2>2. Cardinality(Writing') = Cardinality(Writing) + 1
    BY <2>1, FS_AddElement
  <2>3. out_queue \in Seq(Reply) /\ [call |-> job[w], ips |-> found[w]] \in Reply
    BY <1>8 DEF PushAnswer, Inv, TypeOK, EachCallInOnePlace, Busy, Reply
  <2>4. Len(out_queue') = Len(out_queue) + 1
    BY <1>8, <2>3 DEF PushAnswer
  <2> QED
    BY <1>0, <1>8, <2>2, <2>4 DEF PushAnswer, Shared
<1>9. ASSUME NEW w \in Worker, WriteNotifier(w) PROVE CounterBacked'
  <2>1. Writing' = Writing \ {w} /\ w \in Writing
    BY <1>0, <1>9 DEF WriteNotifier, Goto, Writing
  <2>2. Cardinality(Writing') = Cardinality(Writing) - 1
    BY <2>1, FS_RemoveElement
  <2> QED
    BY <1>0, <1>9, <2>2 DEF WriteNotifier, Shared
<1>10. ASSUME NEW w \in Worker, Terminate(w) PROVE CounterBacked'
  <2>1. Writing' = {}
    BY <1>10 DEF Terminate, Writing
  <2>2. Cardinality(Writing') = 0 /\ Noticed' = 0
    BY <1>10, <2>1, FS_EmptySet DEF Terminate
  <2> QED
    BY <1>0, <1>10, <2>2 DEF Terminate, ToLoop
<1>11. ASSUME NEW w \in Worker,
              \/ Check(w) \/ Look(w) \/ TakeNothing(w) \/ Take(w) \/ FindCached(w)
              \/ Resolve(w) \/ FailToResolve(w) \/ WakeSpuriously(w)
       PROVE  CounterBacked'
  <2>1. Writing' = Writing
    BY <1>0, <1>11 DEF Check, Look, TakeNothing, Take, FindCached, Resolve, FailToResolve,
                       WakeSpuriously, Goto, Writing
  <2>2. out_queue' = out_queue /\ counter' = counter /\ main' = main
    BY <1>11 DEF Check, Look, TakeNothing, Take, FindCached, Resolve, FailToResolve,
                 WakeSpuriously, Shared
  <2> QED
    BY <1>q, <2>1, <2>2
<1> QED
  BY <1>1, <1>2, <1>3, <1>4, <1>5, <1>6, <1>7, <1>8, <1>9, <1>10, <1>11
     DEF Next, LoopStep, WorkerStep

-----------------------------------------------------------------------------
(***************************************************************************)
(* Sleeping threads.                                                       *)
(***************************************************************************)
\* A thread that goes to sleep saw an empty queue, and each push wakes one.
LEMMA AwakeNext == Inv /\ [Next]_vars => SomeoneIsAwake'
<1> SUFFICES ASSUME Inv, [Next]_vars,
                    in_queue' # <<>>, main' \notin {"pushed", "dead"}, ~should_stop'
             PROVE  \E w \in Worker : pc'[w] # "waiting"
  BY DEF SomeoneIsAwake
<1>0. TypeOK /\ SomeoneIsAwake /\ pc \in [Worker -> Label]
  BY DEF Inv, TypeOK
<1>1. CASE UNCHANGED vars
  BY <1>0, <1>1 DEF vars, SomeoneIsAwake
<1>2. CASE NotifyOne
  <2>1. CASE \E w \in Worker : pc[w] = "waiting"
    BY <1>0, <1>2, <2>1 DEF NotifyOne
  <2>2. CASE ~ \E w \in Worker : pc[w] = "waiting"
    BY <1>2, <2>2, WorkerAssumption DEF NotifyOne
  <2> QED
    BY <2>1, <2>2
<1>3. CASE GetIp \/ ReadNotifier \/ NotifyAll \/ Join
  <2>1. in_queue' = in_queue /\ should_stop' = should_stop /\ main \notin {"pushed", "dead"}
    BY <1>3 DEF GetIp, ReadNotifier, NotifyAll, Join, ToWorkers
  <2>2. PICK w \in Worker : pc[w] # "waiting"
    BY <1>0, <2>1 DEF SomeoneIsAwake
  <2> QED
    BY <1>0, <1>3, <2>2 DEF GetIp, ReadNotifier, NotifyAll, Join, Pool
<1>4. ASSUME NEW w \in Worker, WorkerStep(w) \/ WakeSpuriously(w), ~Terminate(w)
      PROVE  \E x \in Worker : pc'[x] # "waiting"
  <2>1. ASSUME Look(w) PROVE pc'[w] = "take"
    BY <1>0, <2>1 DEF Look, Goto
  <2>2. ASSUME ~Look(w) PROVE pc'[w] # "waiting"
    BY <1>0, <1>4, <2>2 DEF WorkerStep, Check, TakeNothing, Take, FindCached, Resolve,
         FailToResolve, PushAnswer, WriteNotifier, WakeSpuriously, Goto
  <2> QED
    BY <2>1, <2>2
<1> QED
  BY <1>1, <1>2, <1>3, <1>4 DEF Next, LoopStep, ResolveHost, Stop, Terminate

-----------------------------------------------------------------------------
(***************************************************************************)
(* Where the calls are.                                                    *)
(***************************************************************************)
\* What push() and pop() do to the elements of a queue without repetitions.
LEMMA PushElements ==
  ASSUME NEW S, NEW s \in Seq(S), NEW e \in S
  PROVE  LET t == Append(s, e)
         IN  /\ DOMAIN t = 1 .. Len(s) + 1 /\ t[Len(s) + 1] = e
             /\ DOMAIN s = 1 .. Len(s) /\ \A i \in DOMAIN s : t[i] = s[i]
OBVIOUS

\* pop() removes the first element, and no other.
LEMMA PopElements ==
  ASSUME NEW S, NEW s \in Seq(S), s # <<>>
  PROVE  LET t == Tail(s)
         IN  /\ 1 \in DOMAIN s /\ Head(s) = s[1]
             /\ \A i \in DOMAIN t : i + 1 \in DOMAIN s /\ t[i] = s[i + 1] /\ i \in Nat \ {0}
             /\ \A i \in DOMAIN s : i # 1 => i - 1 \in DOMAIN t /\ t[i - 1] = s[i] /\ i \in Nat
OBVIOUS

\* Every step moves a call from one place to the next, or none.
LEMMA PlacesNext == Inv /\ [Next]_vars => EachCallInOnePlace'
<1> SUFFICES ASSUME Inv, [Next]_vars PROVE EachCallInOnePlace'
  OBVIOUS
<1>0. /\ TypeOK /\ EachCallInOnePlace
      /\ pc \in [Worker -> Label] /\ job \in [Worker -> Call \cup {None}]
      /\ in_queue \in Seq(Call) /\ out_queue \in Seq(Reply) /\ None \notin Call
  BY CallAssumption DEF Inv, TypeOK
\* A step that moves no call, and takes no thread in or out of its work.
<1>q. ASSUME UNCHANGED <<in_queue, out_queue, job, fetched, asked>>,
             \A w \in Worker : pc'[w] # "dead" =>
               pc[w] # "dead" /\ (pc'[w] \in Busy <=> pc[w] \in Busy)
      PROVE  EachCallInOnePlace'
  <2>1. Queued' = Queued /\ InHand' = InHand /\ Unfetched' = Unfetched /\ FetchedIds' = FetchedIds
    BY <1>q DEF Queued, InHand, Unfetched, FetchedIds
  <2>2. \A w \in Worker : pc'[w] # "dead" => (job'[w] # None <=> pc'[w] \in Busy)
    BY <1>0, <1>q DEF EachCallInOnePlace
  <2> QED
    BY <1>0, <1>q, <2>1, <2>2 DEF EachCallInOnePlace
<1>1. CASE UNCHANGED vars
  BY <1>1, <1>q DEF vars
<1>2. ASSUME NEW c \in Call, ResolveHost(c) PROVE EachCallInOnePlace'
  <2>1. UNCHANGED <<out_queue, job, fetched, pc>> /\ asked' = asked \cup {c} /\ c \notin asked
    BY <1>2 DEF ResolveHost, ToLoop, Pool
  <2>2. /\ DOMAIN in_queue' = 1 .. Len(in_queue) + 1 /\ in_queue'[Len(in_queue) + 1] = c
        /\ DOMAIN in_queue = 1 .. Len(in_queue) /\ \A i \in DOMAIN in_queue : in_queue'[i] = in_queue[i]
        /\ Len(in_queue) \in Nat
    BY <1>0, <1>2, PushElements DEF ResolveHost
  <2>3. Queued' = Queued \cup {c}
    BY <2>2 DEF Queued
  <2>4. c \notin Queued
    BY <1>0, <2>1 DEF EachCallInOnePlace
  <2>5. \A i, j \in DOMAIN in_queue' : in_queue'[i] = in_queue'[j] => i = j
    BY <1>0, <2>2, <2>4 DEF EachCallInOnePlace, Queued
  <2>6. InHand' = InHand /\ Unfetched' = Unfetched /\ FetchedIds' = FetchedIds
    BY <2>1 DEF InHand, Unfetched, FetchedIds
  <2> QED
    BY <1>0, <2>1, <2>3, <2>5, <2>6 DEF EachCallInOnePlace
<1>3. CASE GetIp
  <2> DEFINE r == Head(out_queue)
  <2>1. out_queue # <<>>
    BY <1>0, <1>3, WritingIsFinite DEF Inv, TypeOK, GetIp, CounterBacked, Noticed
  <2>2. /\ UNCHANGED <<in_queue, job, pc, asked>>
        /\ fetched' = fetched \cup {r} /\ out_queue' = Tail(out_queue)
    BY <1>3 DEF GetIp, ToWorkers, Pool
  <2>3. /\ 1 \in DOMAIN out_queue /\ r = out_queue[1]
        /\ \A i \in DOMAIN out_queue' :
             i + 1 \in DOMAIN out_queue /\ out_queue'[i] = out_queue[i + 1] /\ i \in Nat \ {0}
        /\ \A i \in DOMAIN out_queue : i # 1 =>
             i - 1 \in DOMAIN out_queue' /\ out_queue'[i - 1] = out_queue[i] /\ i \in Nat
    BY <1>0, <2>1, <2>2, PopElements
  <2> HIDE DEF r
  <2>4. Unfetched' = Unfetched \ {r.call} /\ r.call \in Unfetched
    <3>1. ASSUME NEW i \in DOMAIN out_queue'
          PROVE  out_queue'[i].call \in Unfetched /\ out_queue'[i].call # r.call
      BY <1>0, <2>3 DEF EachCallInOnePlace, Unfetched
    <3>2. ASSUME NEW i \in DOMAIN out_queue, out_queue[i].call # r.call
          PROVE  out_queue[i].call \in Unfetched'
      BY <2>3, <3>2 DEF Unfetched
    <3>3. r.call \in Unfetched
      BY <2>3 DEF Unfetched
    <3> QED
      BY <3>1, <3>2, <3>3 DEF Unfetched
  <2>5. FetchedIds' = FetchedIds \cup {r.call} /\ Queued' = Queued /\ InHand' = InHand
    BY <2>2 DEF FetchedIds, Queued, InHand
  <2>6. \A i, j \in DOMAIN out_queue' : out_queue'[i].call = out_queue'[j].call => i = j
    BY <1>0, <2>3 DEF EachCallInOnePlace
  <2>7. \A x, y \in fetched' : x.call = y.call => x = y
    BY <1>0, <2>2, <2>4 DEF EachCallInOnePlace, FetchedIds
  <2> QED
    BY <1>0, <2>2, <2>4, <2>5, <2>6, <2>7 DEF EachCallInOnePlace
<1>4. ASSUME NEW w \in Worker, Take(w) PROVE EachCallInOnePlace'
  <2> DEFINE c == Head(in_queue)
  <2>1. /\ UNCHANGED <<out_queue, fetched, asked>> /\ in_queue # <<>>
        /\ in_queue' = Tail(in_queue)
        /\ job' = [job EXCEPT ![w] = c] /\ pc' = [pc EXCEPT ![w] = "lookup"] /\ pc[w] = "take"
    BY <1>4 DEF Take, Shared, Goto
  <2>2. /\ 1 \in DOMAIN in_queue /\ c = in_queue[1]
        /\ \A i \in DOMAIN in_queue' :
             i + 1 \in DOMAIN in_queue /\ in_queue'[i] = in_queue[i + 1] /\ i \in Nat \ {0}
        /\ \A i \in DOMAIN in_queue : i # 1 =>
             i - 1 \in DOMAIN in_queue' /\ in_queue'[i - 1] = in_queue[i] /\ i \in Nat
    BY <1>0, <2>1, PopElements
  <2>3. c \in Call
    BY <1>0, <2>1, <2>2
  <2> HIDE DEF c
  <2>4. Queued' = Queued \ {c} /\ c \in Queued
    <3>1. ASSUME NEW i \in DOMAIN in_queue'
          PROVE  in_queue'[i] \in Queued /\ in_queue'[i] # c
      <4>1. i + 1 \in DOMAIN in_queue /\ in_queue'[i] = in_queue[i + 1] /\ i + 1 # 1
        BY <2>2
      <4>2. in_queue[i + 1] # in_queue[1]
        BY <1>0, <2>2, <4>1 DEF EachCallInOnePlace
      <4> QED
        BY <2>2, <4>1, <4>2 DEF Queued
    <3>2. ASSUME NEW i \in DOMAIN in_queue, in_queue[i] # c
          PROVE  in_queue[i] \in Queued'
      BY <2>2, <3>2 DEF Queued
    <3>3. c \in Queued
      BY <2>2 DEF Queued
    <3> QED
      BY <3>1, <3>2, <3>3 DEF Queued
  <2>5. job[w] = None
    BY <1>0, <2>1 DEF EachCallInOnePlace, Busy
  <2>6. InHand' = InHand \cup {c} /\ Unfetched' = Unfetched /\ FetchedIds' = FetchedIds
    BY <1>0, <2>1, <2>3, <2>5 DEF InHand, Unfetched, FetchedIds
  <2>7. \A i, j \in DOMAIN in_queue' : in_queue'[i] = in_queue'[j] => i = j
    BY <1>0, <2>2 DEF EachCallInOnePlace
  <2>8. c \notin InHand
    BY <1>0, <2>4 DEF EachCallInOnePlace
  <2>9. \A v, x \in Worker : job'[v] = job'[x] /\ job'[v] # None => v = x
    BY <1>0, <2>1, <2>8 DEF EachCallInOnePlace, InHand
  <2>10. \A x \in Worker : pc'[x] # "dead" => (job'[x] # None <=> pc'[x] \in Busy)
    BY <1>0, <2>1, <2>3 DEF EachCallInOnePlace, Busy
  <2> QED
    BY <1>0, <2>1, <2>4, <2>6, <2>7, <2>9, <2>10 DEF EachCallInOnePlace
<1>5. ASSUME NEW w \in Worker, PushAnswer(w) PROVE EachCallInOnePlace'
  <2> DEFINE e == [call |-> job[w], ips |-> found[w]]
  <2>1. /\ UNCHANGED <<in_queue, fetched, asked>> /\ out_queue' = Append(out_queue, e)
        /\ job' = [job EXCEPT ![w] = None] /\ pc' = [pc EXCEPT ![w] = "write"] /\ pc[w] = "answer"
    BY <1>5 DEF PushAnswer, Shared, Goto
  <2>2. job[w] \in InHand /\ e \in Reply /\ e.call = job[w]
    BY <1>0, <2>1 DEF EachCallInOnePlace, Busy, InHand, Reply, TypeOK
  <2> HIDE DEF e
  <2>3. /\ DOMAIN out_queue' = 1 .. Len(out_queue) + 1 /\ out_queue'[Len(out_queue) + 1] = e
        /\ DOMAIN out_queue = 1 .. Len(out_queue) /\ Len(out_queue) \in Nat
        /\ \A i \in DOMAIN out_queue : out_queue'[i] = out_queue[i]
    BY <1>0, <2>1, <2>2, PushElements
  <2>4. Unfetched' = Unfetched \cup {job[w]} /\ Queued' = Queued /\ FetchedIds' = FetchedIds
    BY <2>1, <2>2, <2>3 DEF Unfetched, Queued, FetchedIds
  <2>5. InHand' = InHand \ {job[w]}
    BY <1>0, <2>1, <2>2 DEF EachCallInOnePlace, InHand
  <2>6. job[w] \notin Unfetched
    BY <1>0, <2>2 DEF EachCallInOnePlace
  <2>7. \A i, j \in DOMAIN out_queue' : out_queue'[i].call = out_queue'[j].call => i = j
    BY <1>0, <2>2, <2>3, <2>6 DEF EachCallInOnePlace, Unfetched
  <2>8. \A v, x \in Worker : job'[v] = job'[x] /\ job'[v] # None => v = x
    BY <1>0, <2>1 DEF EachCallInOnePlace
  <2>9. \A x \in Worker : pc'[x] # "dead" => (job'[x] # None <=> pc'[x] \in Busy)
    BY <1>0, <2>1 DEF EachCallInOnePlace, Busy
  <2> QED
    BY <1>0, <2>1, <2>2, <2>4, <2>5, <2>7, <2>8, <2>9 DEF EachCallInOnePlace
<1>6. CASE NotifyOne \/ ReadNotifier \/ NotifyAll \/ Join \/ Stop
  <2>1. UNCHANGED <<in_queue, out_queue, job, fetched, asked>>
    BY <1>6 DEF NotifyOne, ReadNotifier, NotifyAll, Join, Stop, ToWorkers, ToLoop, Pool
  <2>2. \A w \in Worker : pc'[w] = pc[w] \/ (pc[w] = "waiting" /\ pc'[w] = "check")
    BY <1>0, <1>6 DEF NotifyOne, ReadNotifier, NotifyAll, Join, Stop, Pool
  <2> QED
    BY <1>q, <2>1, <2>2 DEF Busy
<1>7. ASSUME NEW w \in Worker,
             \/ Check(w) \/ Look(w) \/ TakeNothing(w) \/ FindCached(w) \/ Resolve(w)
             \/ FailToResolve(w) \/ Terminate(w) \/ WriteNotifier(w) \/ WakeSpuriously(w)
      PROVE  EachCallInOnePlace'
  <2>1. UNCHANGED <<in_queue, out_queue, job, fetched, asked>>
    BY <1>7 DEF Check, Look, TakeNothing, FindCached, Resolve, FailToResolve, Terminate,
                WriteNotifier, WakeSpuriously, Shared, ToWorkers, ToLoop
  <2>2. ASSUME NEW x \in Worker, pc'[x] # "dead"
        PROVE  pc[x] # "dead" /\ (pc'[x] \in Busy <=> pc[x] \in Busy)
    BY <1>0, <1>7, <2>2 DEF Check, Look, TakeNothing, FindCached, Resolve, FailToResolve,
                            Terminate, WriteNotifier, WakeSpuriously, Goto, Busy
  <2> QED
    BY <1>q, <2>1, <2>2
<1> QED
  BY <1>1, <1>2, <1>3, <1>4, <1>5, <1>6, <1>7 DEF Next, LoopStep, WorkerStep

-----------------------------------------------------------------------------
(***************************************************************************)
(* What the answers say.                                                   *)
(***************************************************************************)
\* A thread pairs a query with the addresses of the query's own host.
LEMMA AnswersNext == Inv /\ [Next]_vars => AnswersRight'
<1> SUFFICES ASSUME Inv, [Next]_vars PROVE AnswersRight'
  OBVIOUS
<1>0. /\ TypeOK /\ EachCallInOnePlace /\ AnswersRight
      /\ job \in [Worker -> Call \cup {None}] /\ found \in [Worker -> Name \cup {None}]
      /\ in_queue \in Seq(Call) /\ out_queue \in Seq(Reply) /\ None \notin Call
  BY CallAssumption DEF Inv, TypeOK
<1>q. ASSUME UNCHANGED <<cache, job, found, out_queue, fetched>>
      PROVE  AnswersRight'
  BY <1>0, <1>q DEF AnswersRight, Addressed, Right
<1>1. CASE UNCHANGED vars
  BY <1>1, <1>q DEF vars
<1>2. CASE GetIp
  <2>1. out_queue # <<>>
    BY <1>0, <1>2, WritingIsFinite DEF Inv, TypeOK, GetIp, CounterBacked, Noticed
  <2>2. /\ UNCHANGED <<cache, job, found>>
        /\ fetched' = fetched \cup {Head(out_queue)} /\ out_queue' = Tail(out_queue)
    BY <1>2 DEF GetIp, Pool
  <2>3. /\ 1 \in DOMAIN out_queue /\ Head(out_queue) = out_queue[1]
        /\ \A i \in DOMAIN out_queue' : i + 1 \in DOMAIN out_queue /\ out_queue'[i] = out_queue[i + 1]
    BY <1>0, <2>1, <2>2, PopElements
  <2>4. \A i \in DOMAIN out_queue' : Right(out_queue'[i].call, out_queue'[i].ips)
    BY <1>0, <2>3 DEF AnswersRight
  <2>5. \A r \in fetched' : Right(r.call, r.ips)
    BY <1>0, <2>2, <2>3 DEF AnswersRight
  <2> QED
    BY <1>0, <2>2, <2>4, <2>5 DEF AnswersRight, Addressed, Right
<1>3. ASSUME NEW w \in Worker, Take(w) PROVE AnswersRight'
  <2>1. /\ UNCHANGED <<cache, found, out_queue, fetched>>
        /\ job' = [job EXCEPT ![w] = Head(in_queue)] /\ job[w] = None
    BY <1>0, <1>3 DEF Take, Shared, EachCallInOnePlace, Busy
  <2>2. Head(in_queue) \in Call
    BY <1>0, <1>3 DEF Take
  <2>3. \A x \in Worker : IF job'[x] = None THEN found'[x] = None ELSE Right(job'[x], found'[x])
    BY <1>0, <2>1, <2>2 DEF AnswersRight, Right
  <2> QED
    BY <1>0, <2>1, <2>3 DEF AnswersRight, Addressed, Right
<1>4. ASSUME NEW w \in Worker, FindCached(w) PROVE AnswersRight'
  <2>1. /\ UNCHANGED <<cache, job, out_queue, fetched>> /\ job[w] \in Call
        /\ found' = [found EXCEPT ![w] = IF Cache!Has(cache, NameOf[job[w]])
                                            THEN cache.stored[NameOf[job[w]]] ELSE None]
    BY <1>0, <1>4 DEF FindCached, Shared, EachCallInOnePlace, Busy
  <2>2. Right(job[w], found'[w])
    BY <1>0, <2>1, CachedIsRight DEF AnswersRight, Right
  <2>3. \A x \in Worker : IF job'[x] = None THEN found'[x] = None ELSE Right(job'[x], found'[x])
    BY <1>0, <2>1, <2>2 DEF AnswersRight
  <2> QED
    BY <1>0, <2>1, <2>3 DEF AnswersRight, Addressed, Right
<1>5. ASSUME NEW w \in Worker, Resolve(w) PROVE AnswersRight'
  <2>1. /\ UNCHANGED <<job, out_queue, fetched>> /\ job[w] \in Call
        /\ found' = [found EXCEPT ![w] = NameOf[job[w]]]
        /\ cache' = Cache!Inserted(cache, NameOf[job[w]], NameOf[job[w]])
    BY <1>0, <1>5 DEF Resolve, Shared, EachCallInOnePlace, Busy, Cache!Insert
  <2>2. Addressed(cache')
    BY <1>0, <2>1, InsertedAddressed, CallAssumption DEF AnswersRight
  <2>3. \A x \in Worker : IF job'[x] = None THEN found'[x] = None ELSE Right(job'[x], found'[x])
    BY <1>0, <2>1 DEF AnswersRight, Right
  <2> QED
    BY <1>0, <2>1, <2>2, <2>3 DEF AnswersRight, Addressed, Right
<1>6. ASSUME NEW w \in Worker, PushAnswer(w) PROVE AnswersRight'
  <2> DEFINE e == [call |-> job[w], ips |-> found[w]]
  <2>1. /\ UNCHANGED <<cache, fetched>> /\ out_queue' = Append(out_queue, e)
        /\ job' = [job EXCEPT ![w] = None] /\ found' = [found EXCEPT ![w] = None]
        /\ job[w] # None /\ e \in Reply
    BY <1>0, <1>6 DEF PushAnswer, Shared, EachCallInOnePlace, Busy, Reply
  <2>2. Right(e.call, e.ips)
    BY <1>0, <2>1 DEF AnswersRight
  <2> HIDE DEF e
  <2>3. \A i \in DOMAIN out_queue' :
           out_queue'[i] = e \/ (i \in DOMAIN out_queue /\ out_queue'[i] = out_queue[i])
    BY <1>0, <2>1
  <2>4. \A i \in DOMAIN out_queue' : Right(out_queue'[i].call, out_queue'[i].ips)
    BY <1>0, <2>2, <2>3 DEF AnswersRight
  <2>5. \A x \in Worker : IF job'[x] = None THEN found'[x] = None ELSE Right(job'[x], found'[x])
    BY <1>0, <2>1 DEF AnswersRight
  <2> QED
    BY <1>0, <2>1, <2>4, <2>5 DEF AnswersRight, Addressed, Right
<1>7. ASSUME NEW c \in Call, ResolveHost(c) PROVE AnswersRight'
  BY <1>7, <1>q DEF ResolveHost, ToLoop, Pool
<1>8. CASE NotifyOne \/ ReadNotifier \/ NotifyAll \/ Join \/ Stop
  BY <1>8, <1>q DEF NotifyOne, ReadNotifier, NotifyAll, Join, Stop, ToLoop, Pool
<1>9. ASSUME NEW w \in Worker,
             \/ Check(w) \/ Look(w) \/ TakeNothing(w) \/ FailToResolve(w)
             \/ Terminate(w) \/ WriteNotifier(w) \/ WakeSpuriously(w)
      PROVE  AnswersRight'
  BY <1>9, <1>q DEF Check, Look, TakeNothing, FailToResolve, Terminate, WriteNotifier,
                    WakeSpuriously, Shared, ToLoop
<1> QED
  BY <1>1, <1>2, <1>3, <1>4, <1>5, <1>6, <1>7, <1>8, <1>9 DEF Next, LoopStep, WorkerStep

\* After stop() (resolver.cpp:85) the loop asks and fetches nothing.
LEMMA LoopNext == Inv /\ [Next]_vars => LoopIsLeft'
BY DEF Inv, LoopIsLeft, Next, vars, LoopStep, WorkerStep, ResolveHost, NotifyOne, ReadNotifier,
       GetIp, Stop, NotifyAll, Join, Check, Look, TakeNothing, Take, FindCached, Resolve,
       FailToResolve, PushAnswer, Terminate, WriteNotifier, WakeSpuriously, Shared, ToWorkers

-----------------------------------------------------------------------------
(***************************************************************************)
(* The theorems.                                                           *)
(***************************************************************************)
\* The inductive invariant holds of the resolver that was just constructed.
LEMMA InvInit == Init => Inv
<1> SUFFICES ASSUME Init PROVE Inv
  OBVIOUS
<1>1. TypeOK
  BY TypeInit
<1>2. Writing = {} /\ Noticed = 0 /\ Len(out_queue) = 0 /\ counter = 0
  BY DEF Init, Writing, Noticed
<1>3. CounterBacked
  BY <1>2, FS_EmptySet DEF CounterBacked
<1>4. SomeoneIsAwake /\ LoopIsLeft
  BY DEF Init, SomeoneIsAwake, LoopIsLeft
<1>5. Queued = {} /\ InHand = {} /\ Unfetched = {} /\ FetchedIds = {}
  BY DEF Init, Queued, InHand, Unfetched, FetchedIds
<1>6. EachCallInOnePlace
  BY <1>5 DEF Init, EachCallInOnePlace, Busy
<1>7. cache.order = <<>>
  BY DEF Init, Cache!Init, Cache!Empty
<1>8. AnswersRight
  BY <1>7 DEF Init, AnswersRight, Addressed
<1> QED
  BY <1>1, <1>3, <1>4, <1>6, <1>8 DEF Inv

\* Inv holds of every reachable state: the eventfd is backed by the queue, no
\* wake-up of resolve_host() is lost, no call is lost or answered twice.
THEOREM InvHolds == Spec => []Inv
<1>1. Inv /\ [Next]_vars => Inv'
  BY TypeNext, CounterNext, AwakeNext, PlacesNext, AnswersNext, LoopNext DEF Inv
<1> QED
  BY InvInit, <1>1, PTL DEF Spec

\* The members have their types.
THEOREM TypeCorrect == Spec => []TypeOK
<1>1. Inv => TypeOK
  BY DEF Inv
<1> QED
  BY <1>1, InvHolds, PTL

\* get_ip() (resolver.cpp:98) never takes from an empty queue.
THEOREM FetchIsSafe == Spec => []FetchFindsAnswer
<1>1. Inv => FetchFindsAnswer
  BY WritingIsFinite DEF Inv, TypeOK, CounterBacked, Noticed, FetchFindsAnswer
<1> QED
  BY <1>1, InvHolds, PTL

\* resolve_host()'s one notify_one() (resolver.cpp:95) is enough.
THEOREM NoLostWakeup == Spec => []SomeoneIsAwake
<1>1. Inv => SomeoneIsAwake
  BY DEF Inv
<1> QED
  BY <1>1, InvHolds, PTL

\* No query is lost between the queues and the threads, and none is duplicated.
THEOREM CallsConserved == Spec => []EachCallInOnePlace
<1>1. Inv => EachCallInOnePlace
  BY DEF Inv
<1> QED
  BY <1>1, InvHolds, PTL

-----------------------------------------------------------------------------
(***************************************************************************)
(* The refinement of ResolverService.                                      *)
(***************************************************************************)
Pending == asked \ FetchedIds
Open    == ~should_stop /\ main # "dead"

\* The answer of a call, as the refinement mapping picks it.
AnswerOf(c) == (CHOOSE r \in fetched : r.call = c).ips

\* The mapping gives a fetched answer the addresses it was fetched with.
LEMMA FetchedAnswer ==
  ASSUME Inv, NEW r \in fetched PROVE AnswerOf(r.call) = r.ips
BY DEF Inv, EachCallInOnePlace, AnswerOf

\* An initial state of the resolver is one of the service.
LEMMA ServiceInit == Init => Service!Init
<1> SUFFICES ASSUME Init PROVE Service!Init
  OBVIOUS
<1>1. FetchedIds = {} /\ Pending = {} /\ Open = TRUE
  BY DEF Init, FetchedIds, Pending, Open
<1>2. [c \in FetchedIds |-> AnswerOf(c)] = [c \in {} |-> None]
  BY <1>1
<1> QED
  BY <1>1, <1>2 DEF Service!Init, Pending, Open, AnswerOf

\* A step of a thread or of the loop is a step of the service, or none.
LEMMA ServiceNext == Inv /\ Inv' /\ [Next]_vars => [Service!Next]_(Service!vars)
<1> SUFFICES ASSUME Inv, Inv', [Next]_vars PROVE Service!Next \/ UNCHANGED Service!vars
  OBVIOUS
<1>0. /\ TypeOK /\ EachCallInOnePlace /\ AnswersRight /\ None \notin Call
      /\ out_queue \in Seq(Reply) /\ fetched \subseteq Reply /\ asked \subseteq Call
  BY CallAssumption DEF Inv, TypeOK
<1> DEFINE Answers == [c \in FetchedIds |-> AnswerOf(c)]
\* A step that neither asks nor fetches.
<1>q. ASSUME UNCHANGED <<asked, fetched>>, Open' = Open
      PROVE  UNCHANGED Service!vars
  BY <1>q DEF Service!vars, FetchedIds, Open
<1>s. ASSUME UNCHANGED <<asked, fetched>>, Open, ~Open'
      PROVE  Service!Stop
  BY <1>s DEF Service!Stop, FetchedIds, Open
<1>1. CASE UNCHANGED vars
  BY <1>1, <1>q DEF vars, Open
<1>2. ASSUME NEW c \in Call, ResolveHost(c) PROVE Service!Ask(c)
  <2>1. /\ Open /\ Open' = Open /\ c \notin asked /\ asked' = asked \cup {c}
        /\ fetched' = fetched
    BY <1>2 DEF ResolveHost, ToLoop, Open, Inv, LoopIsLeft
  <2>2. FetchedIds \subseteq asked /\ FetchedIds' = FetchedIds
    BY <1>0, <2>1 DEF EachCallInOnePlace, FetchedIds
  <2> QED
    BY <2>1, <2>2 DEF Service!Ask, Service!Answered, Open
<1>3. CASE GetIp
  <2> PICK r : r = Head(out_queue)
    OBVIOUS
  <2>1. out_queue # <<>>
    BY <1>3, WritingIsFinite DEF Inv, TypeOK, GetIp, CounterBacked, Noticed
  <2>2. /\ asked' = asked /\ fetched' = fetched \cup {r} /\ Open /\ Open' = Open
    BY <1>3 DEF GetIp, ToWorkers, Open, Inv, LoopIsLeft
  <2>3. 1 \in DOMAIN out_queue /\ r = out_queue[1] /\ r \in Reply
    BY <1>0, <2>1, PopElements
  <2>4. r.call \in Unfetched /\ Right(r.call, r.ips)
    BY <1>0, <2>3 DEF Unfetched, AnswersRight
  <2>5. r.call \in asked /\ r.call \notin FetchedIds /\ FetchedIds' = FetchedIds \cup {r.call}
    BY <1>0, <2>2, <2>4 DEF EachCallInOnePlace, FetchedIds
  <2>6. r.call \in Call /\ r.ips \in Name \cup {None}
    BY <2>3 DEF Reply
  <2>7. \A x \in fetched' : AnswerOf(x.call)' = x.ips
    BY FetchedAnswer DEF Inv, EachCallInOnePlace, AnswerOf
  <2>8. AnswerOf(r.call)' = r.ips
    BY <2>2, <2>7
  <2>9. ASSUME NEW c \in FetchedIds PROVE AnswerOf(c)' = AnswerOf(c)
    <3>1. PICK x \in fetched : x.call = c
      BY DEF FetchedIds
    <3> QED
      BY <2>2, <2>7, <3>1, FetchedAnswer
  <2>10. Answers' = [c \in FetchedIds \cup {r.call} |-> IF c = r.call THEN r.ips ELSE Answers[c]]
    BY <2>5, <2>8, <2>9
  <2>11. Service!Answer(r.call, r.ips)
    BY <2>2, <2>4, <2>5, <2>10 DEF Service!Answer, Service!Answered, Right, Open, AnswerOf
  <2> QED
    BY <2>6, <2>11 DEF Service!Next
<1>4. CASE Stop
  BY <1>4, <1>s DEF Stop, ToWorkers, ToLoop, Open, Inv, LoopIsLeft, Service!Next
<1>5. ASSUME NEW w \in Worker, Terminate(w) PROVE Service!Stop \/ UNCHANGED Service!vars
  <2>1. UNCHANGED <<asked, fetched>> /\ ~Open'
    BY <1>5 DEF Terminate, ToWorkers, ToLoop, Open
  <2>2. CASE Open
    BY <1>s, <2>1, <2>2
  <2>3. CASE ~Open
    BY <1>q, <2>1, <2>3 DEF Open
  <2> QED
    BY <2>2, <2>3
<1>6. CASE NotifyOne \/ ReadNotifier \/ NotifyAll \/ Join
  BY <1>6, <1>q DEF NotifyOne, ReadNotifier, NotifyAll, Join, ToWorkers, ToLoop, Open
<1>7. ASSUME NEW w \in Worker, WorkerStep(w) \/ WakeSpuriously(w), ~Terminate(w)
      PROVE  UNCHANGED Service!vars
  BY <1>7, <1>q DEF WorkerStep, Check, Look, TakeNothing, Take, FindCached, Resolve,
       FailToResolve, PushAnswer, WriteNotifier, WakeSpuriously, Shared, Open
<1> QED
  BY <1>1, <1>2, <1>3, <1>4, <1>5, <1>6, <1>7 DEF Next, LoopStep, Service!Next

\* The resolver implements the service the server relies on: each call is
\* answered at most once, with its own host's addresses or with none.
THEOREM ResolverImplementsService == Spec => ImplementsService
<1>1. Inv /\ Inv' /\ [Next]_vars => [Service!Next]_(Service!vars)
  BY ServiceNext
<1> QED
  BY ServiceInit, <1>1, InvHolds, PTL DEF Spec, ImplementsService, Service!Spec
==============================================================================
