# A verification project for proxi

proxi is a caching HTTP proxy in C++: one thread runs an epoll loop with every
socket in it, and a pool of four threads resolves host names. This directory
holds TLA+ models of its parts, the TLC runs that check them and the TLAPS
proofs about them. Line numbers are those of the files under `src/proxy/`.

## Inventory

| Part | State | Operations | What makes it correct |
|---|---|---|---|
| `simple_cache.h` | a `std::map` of nodes linked by iterators, `first`, `last` | insert, erase, has, find | no iterator that is followed dangles; at most `MAX_SIZE` nodes; the oldest goes first |
| `resolver.cpp` | two queues, a cache, an eventfd counter, `should_stop`, a condition variable, 4 threads | `resolve_host`, `get_ip` (loop); `main_loop` (threads); `stop` and the joins (destructor) | every call answered once, with its own host's addresses; no wake-up lost; `get_ip` never finds an empty queue |
| `epoll_core.cpp`, `epoll_elem.cpp` | handlers by descriptor, the events of the last `epoll_wait` | register, update, unregister, dispatch | an event reaches the handler registered for its descriptor at that moment, or none |
| `epoll_queue.cpp` | `sockets`, `connections`, `ticks` | save, close, `set_active`, the timer's handler | what is closed is closed once; what is idle long enough is closed |
| `proxy_server.cpp` | `on_resolve`, the response cache, the closures registered for every descriptor | the listener's and notifier's handlers, `read`, `send`, connect, `fast_transfer`, validation, reuse, 404, CONNECT | closures captured what is alive; a client's request is processed for that client and sent to its host; nobody waits for what cannot come |
| `buffered_message.*` | parts of a message, what was read and written; positions in a tunnel's buffer | `read_from`, `write_to` | the message written is the one read; its end is recognised; no byte of a tunnel is lost or reordered |
| `header_parser.*` | headers | parsing, `should_cache`, `make_validate_header` | a response is stored, and found valid, only when it may be |
| `util/*`, `timer_fd.cpp` | one descriptor each | system calls | errors become exceptions |

**How they interact.** The loop calls `resolve_host`, which pushes a query; a
thread takes it, pushes the answer and writes the eventfd `notifier`, whose
handler in the loop calls `get_ip`, finds the action waiting in `on_resolve`
under (descriptor, host) and opens the connection to the server. Each handler
registers the next one: a protocol step is a closure that captured an iterator
of `queue.sockets` or `queue.connections`, and a client moves between the two.
The timer erases elements of both. An exception that leaves a handler leaves
`main`.

**What is hard.** The threads' interleavings; the match of answers with clients
that may be gone, and with others that have their descriptors since; closures
that must not outlive their iterators; events of a batch that reach a reused
descriptor; the WAIT discipline, in which each step must wake the next; the
timer, which goes behind all of this; messages that arrive in any pieces; copies
of handlers, addresses and responses that are older than what they stand for. `PROJECT.json` lists each hazard at its
line.

## The modules

| Module | Models | Extends / uses |
|---|---|---|
| `FifoCache` | what `simple_cache` promises: a bounded map in order of insertion | |
| `SimpleCache` | `simple_cache.h`, node by node | implements `FifoCache` |
| `SimpleCacheProofs` | theorems about `SimpleCache` | `SimpleCache` |
| `ResolverService` | what the resolver promises the server | |
| `Resolver` | `resolver.cpp`, thread by thread | uses `FifoCache`, implements `ResolverService` |
| `ResolverProofs` | theorems about `Resolver` | `Resolver` |
| `ProxyServer` | `proxy_server.cpp` over `epoll_queue` and `epoll_core` | assumes of the resolver what `ResolverService` says |
| `ProxyServerProofs` | theorems about `ProxyServer` | `ProxyServer` |
| `BytePipe` | what a tunnel promises: a pipe of bytes in each direction | |
| `Tunnel` | `handle_connect`, the handler of a tunnel, `raw_message` | implements `BytePipe` |
| `TunnelProofs` | theorems about `Tunnel` | `Tunnel` |
| `BufferedMessage` | `buffered_message.h` under `read`, `send` and `fast_transfer` | |
| `BufferedMessageProofs` | theorems about `BufferedMessage` | `BufferedMessage` |
| `HeaderParser` | the functions on headers, as operators | |
| `HttpCache` | validation, storing and deletion of responses | `HeaderParser`, `FifoCache` |
| `HttpCacheProofs` | theorems about `HttpCache` and about headers of any length | `HttpCache` |
| `EpollQueue` | `ticks`, `set_active`, the timer | |
| `EpollQueueProofs` | theorems about `EpollQueue` | `EpollQueue` |
| `ServerConnect` | the addresses of a host, the connect handler and its copies | |
| `ServerConnectProofs` | theorems about `ServerConnect` | `ServerConnect` |
| `MC...` | the instances TLC checks | |

### SimpleCache

`cache` is the record of the members `values`, `first`, `last`. An iterator to a
node is its key; erasing a node turns every iterator to it into `Freed`, so that
a dangling iterator is a value of its own and is never taken for a later node
with the same key. `Inserted` and `Erased` are the two operations, statement by
statement (`MakeRoom`, `Link`, `EraseNode`). `has` and `find` change nothing.
Only capacities of at least two are meaningful (`MaxSizeIsAtLeastTwo`): with one,
`insert` would follow the `next` of the node it has just erased; the program
uses 20000 and 500.

### Resolver

A step is what a thread does between two points where others can see it: a
critical section is one step, every access to `should_stop`, the condition
variable and the eventfd is its own. `pc` says where each thread is in
`main_loop`, `main` where the loop is in `resolve_host`, in the notifier's
handler or in the destructor. A name stands for its addresses and a call for the
`resolver_extra` that comes back with its answer; `BadPort` is the set of calls
whose port `std::stoi` rejects, which ends the process. A spurious wake-up is an
action without fairness.

### ProxyServer

`regs[f]` is what there is about descriptor `f`: its *place* (`<<f>>` in
`queue.sockets`, `<<c, s>>` in `queue.connections`, `<<>>` closed), the events it
waits for (`WAIT` is none), its closure, what its reader has buffered, who is at
the other end and whether that end is still there. A closure is a record of the
handler's kind and of what it captured: an iterator, a request, or a host and a
number of addresses. What handlers do is written as operators from server state
to server state with the names of the functions (`Read`, `Send`,
`ConnectToServer`, `FastTransfer`, ...), and an action of `Handler(f)` is one call of
a handler with one outcome. Outcomes the code leaves to the peer or to the data
(how much a read moves, whether a response is cacheable or says `close`, which
error a connect has) are chosen freely. `EpollWait` chooses up to `BatchSize`
events with the bits they had at that moment; a handler that ran before may have
closed the descriptor or handed it to somebody else. That takes three events: no
handler both closes a descriptor and opens it again, and a descriptor is in a batch
once. `Signals` says whether a signal may come, which ends the loop and the batch.

`who`, and the client in a request, are kept for the properties: the code does
not have them. Undefined behaviour and exceptions that leave the loop end a
behaviour with a name in `loop` (`Halt`): `"answer without client"`, `"no entry"`,
`"use after close"`, `"exception"`. What the invariants say is therefore said of
every state in which the program is still defined, and the runs that expect a
violation show how some of these ends are reached.

### Tunnel

`message[x]` is the `raw_message` that the handler of side `x` reads into, with
both positions and the whole buffer, so that bytes of an earlier filling are
there to be mixed up. A step of `Transfers` is one call of the handler: the read
of `n` bytes, the two updates behind it, the write of `k` bytes of the other
message, the two updates behind that. `Toggled` is exclusive or: an event that
is switched "off" when it is off already comes on. `batch` keeps the events that
`epoll_wait` reported before the other handler ran. `BytePipe` has no positions
and no events: a side's bytes are sent, read and delivered, and at most
`BufferLength` are between.

### BufferedMessage

A message is a sequence of tokens (`\r\n`, the digit 0, the line Proxy-Connection,
anything else), enough for the framing: the empty line that ends a header, the
end of a chunked body and the rewriting of one property, which keeps the length.
The handlers that drive the message are part of the module: `Reads` and `Relays` are
the two handlers of `fast_transfer` (with `relaying` off, `Reads` is that of
`read`), `Sends` that of `send`. `SendsRequest` and `SendsCopy` use the other two
constructors: a message made from a header, and one made from the cache.
`ReadsNothing` is the handler called with a full buffer.

### HeaderParser and HttpCache

A header is the sequence of its properties; a value with directives is the set of
those that `should_cache` looks for. `HttpCache` has one request at a time for each
connection, parsed (`rqst`) from what the client sent (`sent`), and what was made
of it for the origin (`asked`): `Handles` is `handle_client_request`, `Confirmed` and `Rejected` the two
branches of `handle_validation_response`, `Transferred` the end of
`fast_transfer`. What an origin server does is external: it changes versions at
any time, answers a condition that its current version meets with 304, and may
fail. `shown` keeps, for the properties, the versions that were current since a
request was read. What the outside says is restricted by named assumptions: a client
says Proxy-Connection at most once (`HopsAssumption`; the constructor of
`http_header` moves one to Connection, a second would reach the origin), and the
further properties of a response are none of its validators (`MarksAssumption`).
`ShouldCache` reads `"cache_control"` under the condition on
`"cache-control"`, as the code does.

### EpollQueue

Time is counted in periods of the timer. An element has `expires_in` and `timeout`
as in the code, and for the properties the period of its last activity
(`touched`), how many expirations had not been read by then (`late`) and the
timeout that was in force (`granted`): `change_timeout` counts from the next
activity. `Tick` is the handler of the timer, which compares sockets between its
two advances of `ticks` and connections after both.

### ServerConnect

The state of a client is what has become of its attempt; `conn[c]` holds the
addresses in the registered connect handler, which `start_wait` copies for every
call, and the address and port the socket was last given. The port of a copy is
nondeterministic (`CopiedPort`), that of the first attempt is the original's.
`refused` and `found` are kept for the properties. A reset that reaches the
connect handler after its entry was erased is not continued: the program is
undefined from there; `QueryFound` is about every other call. The handler's branch on RDHUP is
never taken: the server is not registered for it.

## The runs

| Run | Question | Result |
|---|---|---|
| `cache` | Does the linked list implement a FIFO map and never follow a dangling iterator? 4 keys, 2 values, capacity 3 | holds |
| `resolver` | Is a call, an answer or a wake-up ever lost or answered wrongly, and is every call answered? 2 threads, 4 calls (2 on one name, 1 with a bad port), a cache of 2 | holds, the last under fairness |
| `server` | Do requests go to their own servers and for their own clients, are the entries of `on_resolve` accounted for, does nothing get stuck? 3 descriptors, 2 clients, 2 hosts with up to 2 addresses | holds |
| `server_batch` | Are closures alive and the entries of `on_resolve` accounted for when an event reaches a descriptor that was closed and reused before it in its batch? 3 events per `epoll_wait`, 3 descriptors, 2 clients, 1 host with 1 address | holds |
| `server_timeouts` | Does a waiting client move on, although the timer closes what it likes? 2 descriptors, 2 clients, 1 host | holds, under fairness |
| `server_expired` | With the timer, is a request processed for its own client only? | no |
| `tunnel` | Are the two buffers and their events a pipe of bytes, and does every byte arrive? 2 bytes, a buffer of 2, 3 bytes one way and 1 the other | holds, the last under fairness |
| `message` | Is what is written what was read, its length kept to, and is it relayed and sent? a buffer of 4 tokens, headers of 3, 4 and 5, bodies of up to 7, a next message behind | holds, the last under fairness |
| `http_cache` | Is each client answered for its URL, are copies confirmed by 304 current, does the origin learn what the client said of its connection? 2 connections, 2 URLs, 2 versions, GET, POST and PUT, a cache of 1 | holds |
| `http_cache_stale` | Is any copy that is sent current? | no: a 200 confirms it |
| `queue` | Is what is idle closed, and nothing else? 2 elements, 3 timeouts, up to 2 expirations late | holds |
| `connect` | Does the connect handler find its entry, are all addresses tried before a host is given up, does an attempt end unless its second address keeps refusing? 2 clients, 3 addresses, two of which may refuse | holds, the last under fairness |

**Bounds.** A cache of three holds a first, a middle and a last node, and four
keys overflow it. Two threads are enough for one to take what another saw, to
sleep while the other works, and for two answers to overtake each other; two
calls about one name make a cache hit, three names overflow a cache of two.
Three descriptors hold a connection and a second client that waits, or a client
that got the descriptor of one that left, and run out when that client's answer
comes; two clients are enough for every mix-up between an old and a new owner of
a descriptor. Two pending queries of one descriptor about one host
(`MaxPending`) are what two clients can leave. With `MaxIps = 2` a refused
connection has another address. Client, descriptor and host are symmetric in the
server's safety runs, connection and host in those of the cache of responses:
nothing in the code orders them. Runs that check liveness use no symmetry, and
`server_timeouts` has two descriptors, a client's and a server's, for the same
reason: what it is about, an answer that comes for a client or for the next owner
of its descriptor, needs no third. A tunnel's buffer of two
fills, drains in parts and starts again with a third byte behind it, while a byte
comes back the other way, and two different bytes show any that is lost or moved;
both sides have the same handler. A header of the length of the
message buffer fills it, a longer one blocks it, and a body of five or seven
tokens is read in two parts or more. Two connections and a cache of one response
are enough for a copy to be evicted, deleted or stored anew while another
connection validates it, and two versions for a copy to be stale. Five periods
let an element with a timeout of one period expire, be active and expire again;
two expirations late are enough for the timer to be late by more than one look.
Hosts of up to three addresses have none, one or two that refuse, anywhere among
them: when the first two do, the third is not tried and the attempt need not end
(below), which `EndsUnlessRefused` says.

In `server_batch` stale events do reach reused descriptors. Say f1 is a client's, f2 its
server's and f3 a client's that waits; the event of f1 closes f1 and f2, the
notifier opens one of them as the server of f3 or the listener as a client's, and
the event of f2 reaches the closure that was registered since. A server that is
being connected to does not wait for RDHUP, so that the handler's branch for it is
reached by such an event alone; both mutants of this run are in that branch. The
timer and the signals are left out there: the timer leaves entries
(`server_expired`), a signal ends the batch.

**Deadlock** is checked in `cache` and `http_cache`, and not elsewhere: the resolver ends joined or
dead, the server ends when it is told to stop, a tunnel and a message end closed
or sent, a client ends connected or told 404, and the bounds on bytes
and periods end the rest. The liveness properties say what must not stop before.

**Fairness.** Resolver: the kernel runs every thread, `getaddrinfo` returns, and
`epoll_wait` keeps reporting an eventfd whose counter is positive
(`WF` of the loop's and of each thread's steps). Nothing obliges the server to ask
or to stop, or a condition variable to wake spuriously. Server: handlers return
(`WF` of `Dispatch`); epoll's ready list goes round, so a ready notifier is reported
again and again and is not passed over for ever (`SF` of `Notices`), and every pending
query is answered in the end (`SF` of `Answered(k)`), which is `EveryCallAnswered` of
`Resolver`. Peers owe nothing, nor does the timer. Tunnel: handlers return, and the
ready list passes over no side (`SF` of a report for IN and for OUT of each side):
a peer may take bytes slowly but does take them; nobody has to send. Message: a
handler whose socket is ready runs, and a peer that began a message sends the
rest of it. Connecting:
handlers return (`WF` of `Handles`), and an attempt is settled by the network or
by the timer (`WF` of `Ends`); the timer alone gets no fairness, because every
refusal calls `set_active`. Nothing keeps an address from refusing as often as it is
tried.

## What goes wrong

Two runs expect a violation, and TLC finds it. `server_expired`: the timer erases a
socket whose host is being resolved and leaves its entry in `on_resolve`, so that
the answer is taken for the next client with that descriptor. `http_cache_stale`:
a 200 to the request that validates a copy, which carries the new version, makes
the proxy send the old one and keep it.

The models also contain the following behaviour of the code. No run is about it,
and what the other runs say holds in spite of it; it is listed as hazards in
`PROJECT.json`.

- `insert` of a key that is present keeps the old value and evicts the oldest
  entry of a full map all the same (`FifoCache`, `Inserted`).
- `stop()` sets `should_stop` and notifies without the mutex: a thread that looked
  before sleeps after the only notification, and the join waits for ever
  (`Resolver`, `Stop` between `Check` and `Look`).
- A client that leaves while its host is resolved, and one that gets its
  descriptor and asks for the same host, leave two answers for one entry; the
  second one dereferences `sockets.end()` (`ProxyServer`, `AnswerNoClient`).
- Without a free descriptor for the server, the exception leaves the loop
  (`ProxyServer`, `NoDestination`).
- The end of a chunked body that is split over two reads is not recognised, a
  message without framing ends with its header's read, what follows a message in
  that read is taken for its body, and a Content-Length beyond `int` ends the
  program, and a negative one is a length of nearly 2^64 that is never reached
(`BufferedMessage`, `AtChunkEnd`, `BodyLength`, `ReadHeader`, `ReadThrows`).
- Cache-Control is never read, a 304 and the response to a POST are stored, and a
  PUT is answered with a copy (`HeaderParser`, `ShouldCache`; `HttpCache`,
  `Transferred`, `GetType`).
- When the first two addresses of a host refuse, the second is tried again and again
  and a third never, because `start_wait` calls a copy of the handler and the
  registered one keeps its addresses; and each retry goes to a port that was never
  set (`ServerConnect`, `Retries`, `CopiedPort`). "no relevant ip, closing" is only
  ever logged of a host with one address. `EndsUnlessRefused` names this as the one
  way an attempt goes on for ever.
- `ticks` runs at three for two seconds, and what is active while the timer is late
  may expire early (`EpollQueue`): `Ages` and `NotEarly` speak of those ticks.

## What is proved

All proofs are for any values of the constants, from the assumptions named in the
modules and nothing else. Where a fact is about a list, a fold or a recursive function of
any length, it is proved by induction over the set of lengths for which it fails:
if that is not empty it has a least member (`Least`, from the well-foundedness of `<`
on the natural numbers), which is neither zero nor the successor of a length for which the
fact holds.

`SimpleCacheProofs`: `Spec => []TypeOK`, `Spec => []OneList`, `Spec => []LinksLive`.
`LinksLive` is not inductive: that `next` of a node is in the map after an erase
depends on which nodes point to the erased one. The strengthening is `OneList`: at
most `MaxSize` nodes, and an enumeration `order` of them, without repetitions, with
which `first`, `last`, `next` and `prev` agree. Each operation maps the enumeration
to one of the new map: `MakeRoomSound` drops its head, `ErasedSound` removes one
element and shifts those behind it, `LinkSound` appends. `RefinesFifo` shows
that the list implements `FifoCache`. The mapping is the walk along `next` from `first`
(`Listing`), a recursive function; `WalkIsOrder` shows by induction that it finds the
enumeration of `OneList`, and with it each operation on the nodes is the operation of
`FifoCache` on the sequence (`MakeRoomForgetsOldest`, `ErasedForgetsKey`,
`LinkPuts`).

`ResolverProofs`: `Inv` is inductive and gives `FetchFindsAnswer`, `SomeoneIsAwake`,
`EachCallInOnePlace` and the types. Its parts need each other: the answers fetched are
backed by `CounterBacked` (`Len(out_queue) >= counter` + threads about to write + 1
while the loop has read a unit), which holds because a thread pushes before it
writes; `SomeoneIsAwake` holds because a thread sleeps only on an empty queue and a
push wakes one before `resolve_host` returns; `AnswersRight` carries the addresses
from cache to thread to answer. With it `ResolverImplementsService` shows that the
pool implements `ResolverService`: a call is pending until the loop fetched its
answer, wherever it is.

`TunnelProofs`: `Inv`, the conjunction of the run's invariants and of
`BatchCurrent`, is inductive for any bytes and any length of the buffer. `BufferExact` needs
`write_length < BufferLength`, which `WriteTo` keeps because it starts both
positions again; `EventsFollowBuffers` needs that a reported event is still waited
for (`BatchCurrent`): otherwise exclusive or would switch an event on. The lemmas
`ReadFromHolds` and `WriteToHolds` say what one read and one write do to a message
and its stream, `HandlerMoves` and `HandlerEvents` put the four updates of a call
together. `TunnelIsPipe` maps every step to one of `BytePipe` or none.

`EpollQueueProofs`: `Ages` and `NothingLingers` together are inductive, for any
number of elements, any timeouts and any delay. `Survivor` is the heart: what the
handler of the timer leaves has been idle for less than its timeout plus the
expirations just read, because sockets are compared at two ticks a period, not
three. `NotEarly` follows from `Ages` alone.

`ServerConnectProofs`: for any number of clients, any lists of addresses and any
set that refuses. `Consistent`, of each client, ties what became of it to its
connection, its entry and the addresses found: a client resolved or connected to
has its entry, which is `QueryFound`; the address that is tried is one of those
found, all of which the handler still holds. A host is given up for want of
addresses when nothing is behind the first, so that the one that has just refused
was all there was (`OnlyIp`), which is `TriedThemAll`.

`ProxyServerProofs`: for any descriptors, clients and hosts, any number of addresses
and batches of any size. None of the properties is inductive. `Inv` says of every
descriptor (`Placed`) that it is closed, or alone with a handler of its own
(`LoneAt`), or one of a pair (`PairAt`): the two sockets are in the same place, the
handler of each captured it, is one its side may have (`AtClient`, `AtServer`) and
has a request for the host at the server's side. What the two handlers may be at
the same time is in `Agree`: until the server's socket is connected the client's end
only waits for the client to drop. `Accounted` says that `on_resolve` has an entry
just where a handler is still to take it, with a request of the client that is there now.
Expiry breaks that (run `server_expired`), so it is claimed, as are `OwnRequestOnly` and
`EntriesAccounted`, only without timeouts; `TypeOK`, `ClosuresLive` and
`RightServer` are proved with them. A handler is a composition of operators
from server state to server state, and the proof follows it: for each operator a lemma says
that it keeps a pair a pair (`Pair`) or a lone socket alone (`Alone`), and what it
touches is all that may be wrong (`GoodBut`, `GoodFrom`).

`WaiterHasAnswerComing` and `SomeoneMoves` need a second invariant beside `Inv`, `Live`,
which says what each descriptor waits for: a client to be resolved for its entry and an
answer of the resolver (`Coming`), a lone socket that reads or sends for that (`Keen`),
and of a pair at least one end for the next byte or for room (`Busy`). In a tunnel the
events follow the buffers (`Flows`): a side that does not read is full, and one
that does not write has nothing to write. An event may
be stale when it is handled, and nothing here assumes that it is current: a server
that is relayed from has a client that writes or sends, whatever woke it (`Busy`).
`Live` is proved with timeouts and without. An answer that is taken either finds an entry, also
one that an expired client left (run `server_expired`), and then whoever is at that
descriptor waits no more, or finds none, and then nobody waits there.

`HttpCacheProofs`: for any hosts, paths, lists of properties, versions and connections
and any size of the cache. First what the functions on headers do to a list of any
length: `get_property` reads the first of a name (`GetIsFirst`), `set_property` changes
one and `erase_property` drops one (`SetSets`, `EraseErasesOne`), so that the parser leaves
Connection as the client meant it and `make_validate_header` asks with
the etag of the copy (`ParsedSaysConnection`, `ValidationAsks`). `IInv` then says of
the cache that what is stored under a URL came from it (`Kept`), and of each connection
that it asks for what its client sent (`Asks`), that its copy and its response are for
that URL (`Serves`), and that a version answered or confirmed is among those
shown since the request was read (`Sees`). Of a copy being validated nothing is
assumed to stay in the cache: the others evict, delete and replace it, and the 304
speaks of the condition that was asked.

`BufferedMessageProofs`: for any messages, read and written in pieces of any size, and
any length of the buffer. The assumptions on what comes (`SourceAssumption`) say what a header is,
that it ends where its first blank line does, and that a Content-Length is an
`int` and so below `INF`, in absolute value if it is negative. Three facts carry `WrittenInOrder`. What was written is the parts before
the current one and its beginning (`Told`): one call of `write_to` adds just what it
writes, at the end of a part as in its middle (`WriteTold`), and one part more changes
nothing of it (`AppendTold`). While the header is read the buffer holds all that has come
(`InHeader`), and it is found complete in the read that brings its last token, not
earlier and not later, however the blank line is split (`EndOfSeen`); then the parts, put
together, are the header rewritten and what came behind it (`InBody`, `HeaderIsRead`,
`BodyIsRead`). And the first parts, put together, begin all of them (`FlatCut`, by
induction), so that `Told` is a prefix of the whole and behind the last part all of it.
`LengthExact` is not inductive without `InBody`, which ties `read` to the position in
the stream. `ShouldReadFacts` bounds a read by what the buffer and the body have
left, so that only the header's read passes the end of the message.

**Only model-checked.** The six liveness properties: `EveryCallAnswered`, `WaiterMovesOn`,
`EveryByteArrives`, `RelayedInTime`, `EverythingSent` and `EndsUnlessRefused`. The prover does
not do fairness or `ENABLED`. Every invariant and every refinement that a passing run checks is proved.

## What the models leave out

**In the models.** How a header is split into lines, names and values, and the
second form of its end (two line feeds, which the parser does not take either);
variants of a response (Vary); bytes and URLs in `ProxyServer` (a URL is its
host), and eviction there; the clock in `ProxyServer` (any place may have expired
when `Timeouts` is set; `EpollQueue` has the clock); errors of `epoll_ctl`.

**Not modelled.** `annotated_exception`, logging and `main` are control only: an
exception that leaves the loop ends the program. The descriptor wrappers are one
system call each, and appear as outcomes of the actions that call them. The copy
and swap of a `raw_message` are never called. Copy and move constructors elsewhere
are left out, except that of `resolved_ip`, which forgets a member.

## Plan

1. `ConnectionService`, an abstract life of a client (asking, connecting, served,
   gone) that `ProxyServer` implements; runs with four descriptors.
