------------------------------ MODULE Resolver -------------------------------
(***************************************************************************)
(* request_processing/resolver.cpp: the pool of threads that resolves host *)
(* names for the server's one event loop.                                  *)
(*                                                                         *)
(* A step is what a thread does between two points where another thread    *)
(* can see or change what it does: the code under in_mutex, out_mutex or   *)
(* cache_mutex is one step each, since every access to the data a mutex    *)
(* guards is made under it; should_stop, the condition variable and the    *)
(* eventfd are accessed with no mutex and have steps of their own.         *)
(***************************************************************************)
EXTENDS Naturals, Sequences, FiniteSets

CONSTANTS Worker,     \* the threads
          Call,       \* the calls of resolve_host(), each made at most once
          Name,       \* the host names, without their ports
          NameOf,     \* the name each call asks about
          BadPort,    \* the calls whose port std::stoi() does not accept
          CacheSize,  \* CACHE_SIZE
          None

ASSUME CallAssumption   == /\ NameOf \in [Call -> Name] /\ BadPort \subseteq Call
                           /\ None \notin Name \cup Call
ASSUME WorkerAssumption == IsFiniteSet(Worker) /\ Worker # {}
ASSUME CacheAssumption  == CacheSize \in Nat /\ CacheSize >= 2

VARIABLES
  in_queue,     \* the calls no thread has taken
  out_queue,    \* the answers the loop has not fetched: [call, ips]
  cache,        \* simple_cache of the addresses found
  should_stop,
  counter,      \* the eventfd `notifier', in semaphore mode
  pc,           \* where each thread is in main_loop()
  job,          \* the call it took (p), or None
  found,        \* the addresses it found (ips): the name stands for them
  main,         \* where the event loop is
  asked,        \* the calls made so far
  fetched       \* the answers fetched so far

vars == <<in_queue, out_queue, cache, should_stop, counter, pc, job, found,
          main, asked, fetched>>

Cache == INSTANCE FifoCache WITH fifo <- cache, Key <- Name, Value <- Name,
                                 MaxSize <- CacheSize

Init ==
  /\ in_queue = <<>> /\ out_queue = <<>>
  /\ Cache!Init
  /\ should_stop = FALSE /\ counter = 0
  /\ pc = [w \in Worker |-> "check"]
  /\ job = [w \in Worker |-> None]
  /\ found = [w \in Worker |-> None]
  /\ main = "loop" /\ asked = {} /\ fetched = {}

-----------------------------------------------------------------------------
(***************************************************************************)
(* The event loop.                                                         *)
(***************************************************************************)
ToWorkers == <<in_queue, asked>>
ToLoop    == <<out_queue, counter, fetched>>
Pool      == <<cache, pc, job, found>>

\* resolve_host(): the query is pushed under in_mutex ...
ResolveHost(c) ==
  /\ main = "loop" /\ c \notin asked
  /\ in_queue' = Append(in_queue, c)
  /\ asked' = asked \cup {c}
  /\ main' = "pushed"
  /\ UNCHANGED <<ToLoop, Pool, should_stop>>

\* Mutant: nobody is woken.
NotifyOne_Forgotten ==
  /\ main = "pushed"
  /\ main' = "loop"
  /\ UNCHANGED <<ToWorkers, ToLoop, Pool, should_stop>>

\* ... and one thread is woken after the mutex is released, if any waits.
NotifyOne ==
  /\ main = "pushed"
  /\ main' = "loop"
  /\ IF \E w \in Worker : pc[w] = "waiting"
       THEN \E w \in Worker : pc[w] = "waiting" /\ pc' = [pc EXCEPT ![w] = "check"]
       ELSE UNCHANGED pc
  /\ UNCHANGED <<ToWorkers, ToLoop, cache, job, found, should_stop>>

\* Mutant: the eventfd is read without a unit in it.
ReadNotifier_Unasked ==
  /\ main = "loop"
  /\ counter' = counter - 1
  /\ main' = "noticed"
  /\ UNCHANGED <<ToWorkers, out_queue, fetched, Pool, should_stop>>

\* The notifier's handler reads the eventfd: one answer is there to be fetched.
ReadNotifier ==
  /\ main = "loop" /\ counter > 0
  /\ counter' = counter - 1
  /\ main' = "noticed"
  /\ UNCHANGED <<ToWorkers, out_queue, fetched, Pool, should_stop>>

\* get_ip() does not look whether the queue is empty.
GetIp ==
  /\ main = "noticed"
  /\ fetched' = fetched \cup {Head(out_queue)}
  /\ out_queue' = Tail(out_queue)
  /\ main' = "loop"
  /\ UNCHANGED <<ToWorkers, counter, Pool, should_stop>>

\* stop() in ~resolver(): the loop was left by a signal, or by the exception
\* of a handler, which may come between the notifier's read and get_ip().
Stop ==
  /\ main \in {"loop", "noticed"}
  /\ should_stop' = TRUE
  /\ main' = "stopping"
  /\ UNCHANGED <<ToWorkers, ToLoop, Pool>>

NotifyAll ==
  /\ main = "stopping"
  /\ main' = "joining"
  /\ pc' = [w \in Worker |-> IF pc[w] = "waiting" THEN "check" ELSE pc[w]]
  /\ UNCHANGED <<ToWorkers, ToLoop, cache, job, found, should_stop>>

\* ~thread_wrap() of every thread.
Join ==
  /\ main = "joining"
  /\ \A w \in Worker : pc[w] = "exited"
  /\ main' = "joined"
  /\ UNCHANGED <<ToWorkers, ToLoop, Pool, should_stop>>

-----------------------------------------------------------------------------
(***************************************************************************)
(* main_loop() of a thread.                                                *)
(***************************************************************************)
Shared == <<should_stop, main, asked, fetched>>
Goto(w, label) == pc' = [pc EXCEPT ![w] = label]

Check(w) ==
  /\ pc[w] = "check"
  /\ Goto(w, IF should_stop THEN "exited" ELSE "look")
  /\ UNCHANGED <<in_queue, out_queue, counter, cache, job, found, Shared>>

\* The first critical section: cv.wait() if there is nothing to do.
Look(w) ==
  /\ pc[w] = "look"
  /\ Goto(w, IF in_queue = <<>> THEN "waiting" ELSE "take")
  /\ UNCHANGED <<in_queue, out_queue, counter, cache, job, found, Shared>>

\* A condition variable may wake a thread that nobody notified.
WakeSpuriously(w) ==
  /\ pc[w] = "waiting"
  /\ Goto(w, "check")
  /\ UNCHANGED <<in_queue, out_queue, counter, cache, job, found, Shared>>

\* The second critical section: in_mutex was released in between, another
\* thread may have taken the query.
TakeNothing(w) ==
  /\ pc[w] = "take" /\ in_queue = <<>>
  /\ Goto(w, "check")
  /\ UNCHANGED <<in_queue, out_queue, counter, cache, job, found, Shared>>

Take(w) ==
  /\ pc[w] = "take" /\ in_queue # <<>>
  /\ job' = [job EXCEPT ![w] = Head(in_queue)]
  /\ in_queue' = Tail(in_queue)
  /\ Goto(w, "lookup")
  /\ UNCHANGED <<out_queue, counter, cache, found, Shared>>

\* Mutant: a hit returns the oldest entry of the cache.
FindCached_Oldest(w) ==
  LET hit == Cache!Has(cache, NameOf[job[w]])
  IN  /\ pc[w] = "lookup"
      /\ found' = [found EXCEPT ![w] = IF hit THEN cache.stored[Head(cache.order)] ELSE None]
      /\ Goto(w, IF hit THEN "answer" ELSE "resolve")
      /\ UNCHANGED <<in_queue, out_queue, counter, cache, job, Shared>>

\* find_cached(): every stored deque has an address, so "empty" is "not there".
FindCached(w) ==
  LET name == NameOf[job[w]]
      hit  == Cache!Has(cache, name)
  IN  /\ pc[w] = "lookup"
      /\ found' = [found EXCEPT ![w] = IF hit THEN cache.stored[name] ELSE None]
      /\ Goto(w, IF hit THEN "answer" ELSE "resolve")
      /\ UNCHANGED <<in_queue, out_queue, counter, cache, job, Shared>>

\* resolve_ip(): getaddrinfo() succeeds and cache_ip() keeps the addresses ...
Resolve(w) ==
  LET name == NameOf[job[w]]
  IN  /\ pc[w] = "resolve"
      /\ Cache!Insert(name, name)
      /\ found' = [found EXCEPT ![w] = name]
      /\ Goto(w, "answer")
      /\ UNCHANGED <<in_queue, out_queue, counter, job, Shared>>

\* ... or fails, and the exception leaves the thread with no addresses.
FailToResolve(w) ==
  /\ pc[w] = "resolve"
  /\ Goto(w, "answer")
  /\ UNCHANGED <<in_queue, out_queue, counter, cache, job, found, Shared>>

\* Mutant: the notifier is written here, and once more afterwards.
PushAnswer_Notifies(w) ==
  /\ pc[w] = "answer" /\ job[w] \notin BadPort
  /\ out_queue' = Append(out_queue, [call |-> job[w], ips |-> found[w]])
  /\ job' = [job EXCEPT ![w] = None]
  /\ found' = [found EXCEPT ![w] = None]
  /\ counter' = counter + 1
  /\ Goto(w, "write")
  /\ UNCHANGED <<in_queue, cache, Shared>>

PushAnswer(w) ==
  /\ pc[w] = "answer" /\ job[w] \notin BadPort
  /\ out_queue' = Append(out_queue, [call |-> job[w], ips |-> found[w]])
  /\ job' = [job EXCEPT ![w] = None]
  /\ found' = [found EXCEPT ![w] = None]
  /\ Goto(w, "write")
  /\ UNCHANGED <<in_queue, counter, cache, Shared>>

\* std::stoi() throws what nobody in the thread catches: std::terminate().
Terminate(w) ==
  /\ pc[w] = "answer" /\ job[w] \in BadPort
  /\ pc' = [x \in Worker |-> "dead"]
  /\ main' = "dead"
  /\ UNCHANGED <<ToWorkers, ToLoop, cache, job, found, should_stop>>

\* Mutant: the notifier is not written.
WriteNotifier_Forgotten(w) ==
  /\ pc[w] = "write"
  /\ Goto(w, "check")
  /\ UNCHANGED <<in_queue, out_queue, counter, cache, job, found, Shared>>

WriteNotifier(w) ==
  /\ pc[w] = "write"
  /\ counter' = counter + 1
  /\ Goto(w, "check")
  /\ UNCHANGED <<in_queue, out_queue, cache, job, found, Shared>>

-----------------------------------------------------------------------------
LoopStep == NotifyOne \/ ReadNotifier \/ GetIp \/ NotifyAll \/ Join

WorkerStep(w) ==
  \/ Check(w) \/ Look(w) \/ TakeNothing(w) \/ Take(w) \/ FindCached(w)
  \/ Resolve(w) \/ FailToResolve(w) \/ PushAnswer(w) \/ Terminate(w)
  \/ WriteNotifier(w)

Next ==
  \/ \E c \in Call : ResolveHost(c)
  \/ Stop
  \/ LoopStep
  \/ \E w \in Worker : WorkerStep(w) \/ WakeSpuriously(w)

Spec == Init /\ [][Next]_vars

\* The kernel runs every thread and getaddrinfo() returns; epoll_wait() keeps
\* reporting the eventfd while its counter is positive.  Nothing obliges the
\* server to ask or to stop, nor a condition variable to wake for no reason.
FairSpec == Spec /\ WF_vars(LoopStep) /\ \A w \in Worker : WF_vars(WorkerStep(w))

-----------------------------------------------------------------------------
Label == {"check", "look", "waiting", "take", "lookup", "resolve", "answer",
          "write", "exited", "dead"}
Busy  == {"lookup", "resolve", "answer"}

Reply == [call : Call, ips : Name \cup {None}]

\* The members hold what their declarations say.
TypeOK ==
  /\ in_queue \in Seq(Call) /\ out_queue \in Seq(Reply)
  /\ cache.order \in Seq(Name)
  /\ should_stop \in BOOLEAN /\ counter \in Nat
  /\ pc \in [Worker -> Label]
  /\ job \in [Worker -> Call \cup {None}]
  /\ found \in [Worker -> Name \cup {None}]
  /\ main \in {"loop", "pushed", "noticed", "stopping", "joining", "joined", "dead"}
  /\ asked \subseteq Call /\ fetched \subseteq Reply

\* get_ip() never takes from an empty queue: a unit of the eventfd's counter
\* is always backed by an answer that nobody else will fetch.
FetchFindsAnswer == main = "noticed" => out_queue # <<>>

\* No wake-up is lost: while a query is queued and the call that queued it has
\* returned, some thread is awake (or dead with the process, or stopped).
SomeoneIsAwake ==
  in_queue # <<>> /\ main \notin {"pushed", "dead"} /\ ~should_stop =>
    \E w \in Worker : pc[w] # "waiting"

\* Where a call may be once it was made.
Queued     == {in_queue[i] : i \in DOMAIN in_queue}
InHand     == {job[w] : w \in Worker} \ {None}
Unfetched  == {out_queue[i].call : i \in DOMAIN out_queue}
FetchedIds == {r.call : r \in fetched}

\* A call that was made is in one place, never lost and never in two, and a
\* thread holds one exactly while it works on it, stop() or not.
EachCallInOnePlace ==
  /\ asked = Queued \cup InHand \cup Unfetched \cup FetchedIds
  /\ Queued \cap (InHand \cup Unfetched \cup FetchedIds) = {}
  /\ InHand \cap (Unfetched \cup FetchedIds) = {}
  /\ Unfetched \cap FetchedIds = {}
  /\ \A i, j \in DOMAIN in_queue : in_queue[i] = in_queue[j] => i = j
  /\ \A v, w \in Worker : job[v] = job[w] /\ job[v] # None => v = w
  /\ \A i, j \in DOMAIN out_queue : out_queue[i].call = out_queue[j].call => i = j
  /\ \A r, s \in fetched : r.call = s.call => r = s
  /\ \A w \in Worker : pc[w] # "dead" => (job[w] # None <=> pc[w] \in Busy)

Writing == {w \in Worker : pc[w] = "write"}
Noticed == IF main = "noticed" THEN 1 ELSE 0

\* Why FetchFindsAnswer holds: an answer is pushed before its unit is written,
\* and a unit is read before its answer is fetched.
CounterBacked == Len(out_queue) >= counter + Cardinality(Writing) + Noticed

\* Addresses stay with their name, in the cache, in a thread and in an answer.
Right(c, ips) == ips \in {NameOf[c], None}

Addressed(f) ==
  /\ f.order \in Seq(Name)
  /\ \A i \in DOMAIN f.order :
       f.order[i] \in DOMAIN f.stored /\ f.stored[f.order[i]] = f.order[i]

AnswersRight ==
  /\ Addressed(cache)
  /\ \A w \in Worker : IF job[w] = None THEN found[w] = None ELSE Right(job[w], found[w])
  /\ \A i \in DOMAIN out_queue : Right(out_queue[i].call, out_queue[i].ips)
  /\ \A r \in fetched : Right(r.call, r.ips)

\* The loop asks and fetches nothing after it called stop().
LoopIsLeft == should_stop => main \notin {"loop", "pushed", "noticed"}

\* The inductive invariant: what the theorems of ResolverProofs rest on.
Inv ==
  /\ TypeOK /\ CounterBacked /\ SomeoneIsAwake /\ EachCallInOnePlace
  /\ AnswersRight /\ LoopIsLeft

\* The service the server sees: a call is pending until get_ip() returned its
\* answer, whichever queue or thread it is in.
Service == INSTANCE ResolverService
  WITH pending <- asked \ FetchedIds,
       answers <- [c \in FetchedIds |->
                     (CHOOSE r \in fetched : r.call = c).ips],
       open    <- ~should_stop /\ main # "dead"

\* Every answer fetched is the answer of a call that was made and not answered
\* yet, with the addresses of that call's own host.
ImplementsService == Service!Spec

\* Every call is answered, unless the server stops or the process dies.
EveryCallAnswered ==
  \A c \in Call :
    c \in asked ~> \/ c \in FetchedIds
                  \/ should_stop \/ main = "dead"
==============================================================================
