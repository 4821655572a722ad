----------------------------- MODULE ProxyServer -----------------------------
(***************************************************************************)
(* proxy_server.cpp over epoll_queue and epoll_core: the one event loop,   *)
(* the sockets and the connections it keeps, and the closures registered   *)
(* for them.                                                               *)
(*                                                                         *)
(* A place is what an iterator points to: <<f>> is the element of          *)
(* queue.sockets with descriptor f, <<c, s>> the connection of client c    *)
(* and server s.  A closure is a record of its kind and of what it         *)
(* captured.  A step of the loop is one call of a handler; what a handler  *)
(* does is a composition of operators from server state to server state.   *)
(* Bytes are not modelled: a read or a write moves some of a message or    *)
(* all of it, and a URL is its host.  The resolver is its queries, in no   *)
(* order (ResolverService), and the cache a set of URLs (FifoCache never   *)
(* full).                                                                  *)
(***************************************************************************)
EXTENDS Naturals, Sequences, FiniteSets

CONSTANTS Fd,          \* the descriptors the process may have for sockets
          Client,      \* the clients, each connecting once
          Host,
          MaxIps,      \* the addresses of a host, at most
          MaxPending,  \* bound: queries of one descriptor about one host
          BatchSize,   \* bound: events one epoll_wait() returns
          Timeouts,    \* whether the timer may find sockets expired
          Signals,     \* whether a signal may stop the loop
          None

ASSUME FdAssumption    == IsFiniteSet(Fd) /\ None \notin Fd \cup Client \cup Host
ASSUME BoundAssumption == /\ {MaxIps, MaxPending, BatchSize} \subseteq Nat \ {0}
                          /\ Timeouts \in BOOLEAN /\ Signals \in BOOLEAN

VARIABLES
  server,     \* what the handlers change: [regs, on_resolve, queries, cached]
  batch,      \* the events of the last epoll_wait() not handled yet
  arrived,    \* the clients that were accepted
  loop        \* "running", or why the loop is over

vars == <<server, batch, arrived, loop>>

Request == [host : Host, type : {"GET", "CONNECT"}, from : Client]
Key     == Fd \X Host

(***************************************************************************)
(* What a descriptor has: its place, the events epoll waits for (WAIT is   *)
(* none), its closure, what was read from it and is not written to the     *)
(* other side yet (raw_message, or the server_response of fast_transfer),  *)
(* who is at its other end and whether that end is open, has shut down its *)
(* side (fin) or is gone (rst).                                            *)
(***************************************************************************)
Free == [place |-> <<>>, interest |-> {}, handler |-> None, buf |-> "empty",
         who |-> None, peer |-> "open"]

Closure(kind, it, rq, next) == [kind |-> kind, it |-> it, rq |-> rq, next |-> next]
Connecting(kind, it, h, n)  == [kind |-> kind, it |-> it, host |-> h, ips |-> n]

Blank == [regs       |-> [f \in Fd |-> Free],
          on_resolve |-> <<>>,
          queries    |-> [k \in Key |-> 0],
          cached     |-> {}]

Init == server = Blank /\ batch = <<>> /\ arrived = {} /\ loop = "running"

-----------------------------------------------------------------------------
(***************************************************************************)
(* Registrations (epoll_elem.cpp, epoll_queue.cpp).                        *)
(***************************************************************************)
regs == server.regs
Closed == {f \in Fd : regs[f].place = <<>>}
Used   == Fd \ Closed
Places == {regs[f].place : f \in Used}

Members(it) == {it[i] : i \in DOMAIN it}

\* A socket becomes an element of queue.sockets, registered with epoll.
Accepted(S, f, c) == [S EXCEPT !.regs[f] = [Free EXCEPT !.place = <<f>>, !.who = c]]

\* make_connection() and save_connection(): a socket of queue.sockets becomes the
\* client of a connection with a socket that was just opened.
Joined(S, c, s, h) ==
  [S EXCEPT !.regs[c].place = <<c, s>>,
            !.regs[s] = [Free EXCEPT !.place = <<c, s>>, !.who = h]]

Watch(S, f, events)   == [S EXCEPT !.regs[f].interest = events]
Install(S, f, c)      == [S EXCEPT !.regs[f].handler = c]
On(S, f, events, c)   == Install(Watch(S, f, events), f, c)
Buffer(S, f, content) == [S EXCEPT !.regs[f].buf = content]

\* queue.close(): the elements of the place unregister and close themselves.
Close(S, it) ==
  [S EXCEPT !.regs = [f \in Fd |-> IF f \in Members(it) THEN Free ELSE S.regs[f]]]

\* escape_client() and the queue.close(conn) that follows it everywhere: the
\* client moves back to queue.sockets, the server is closed.
Escape(S, it) ==
  [S EXCEPT !.regs[it[1]] = [@ EXCEPT !.place = <<it[1]>>, !.buf = "empty"],
            !.regs[it[2]] = Free]

Forget(S, k) ==
  [S EXCEPT !.on_resolve = [x \in DOMAIN S.on_resolve \ {k} |-> S.on_resolve[x]]]

-----------------------------------------------------------------------------
(***************************************************************************)
(* The monadic-like functions.  A message has one reader or writer: f, the *)
(* descriptor its handler is registered for.                               *)
(***************************************************************************)
\* Mutant: read() does not ask for IN.
Read_NoIn(S, f, it, rq, next) == On(S, f, {"RDHUP"}, Closure("read", it, rq, next))

Read(S, f, it, rq, next) == On(S, f, {"IN", "RDHUP"}, Closure("read", it, rq, next))
Send(S, f, it, rq, next) == On(S, f, {"OUT", "RDHUP"}, Closure("send", it, rq, next))

Send404(S, f) == Send(S, f, <<f>>, None, "close")

\* Mutant: nobody calls rt.resolve_host().
ConnectToServer_NoQuery(S, f, rq, next) ==
  LET k     == <<f, rq.host>>
      entry == [rq |-> rq, next |-> next]
      asked == [S EXCEPT !.on_resolve = [x \in DOMAIN @ \cup {k} |->
                                           IF x \in DOMAIN @ THEN @[x] ELSE entry]]
  IN  On(asked, f, {"RDHUP"}, Closure("resolving", <<f>>, rq, next))

\* on_resolve.insert() leaves an entry that is already there alone.
ConnectToServer(S, f, rq, next) ==
  LET k     == <<f, rq.host>>
      entry == [rq |-> rq, next |-> next]
      asked == [S EXCEPT !.queries[k] = @ + 1,
                         !.on_resolve = [x \in DOMAIN @ \cup {k} |->
                                           IF x \in DOMAIN @ THEN @[x] ELSE entry]]
  IN  On(asked, f, {"RDHUP"}, Closure("resolving", <<f>>, rq, next))

Reconnect(S, it, rq, next) == ConnectToServer(Escape(S, it), it[1], rq, next)

FastTransfer(S, it, rq) == Send(S, it[2], it, rq, "transfer")

HandleRequest(S, it, rq) ==
  CASE rq.type = "GET" /\ rq.host \in S.cached -> Send(S, it[2], it, rq, "validate")
    [] rq.type = "CONNECT"                     -> Send(S, it[1], it, rq, "tunnel")
    [] OTHER                                   -> FastTransfer(S, it, rq)

\* The action that was waiting in on_resolve for its connection.
Proceed(S, it, entry) ==
  IF entry.next = "handle" THEN HandleRequest(S, it, entry.rq)
                           ELSE FastTransfer(S, it, entry.rq)

SendServerResponse(S, it, rq, closed) ==
  IF closed THEN Send(Escape(S, it), it[1], <<it[1]>>, rq, "close")
            ELSE Send(Watch(Buffer(S, it[2], "empty"), it[2], {}), it[1], it, rq, "reuse")

\* What send() does `next', when its message was sent: read the response to the
\* validation, ...
StartValidation(S, it, rq) == Read(S, it[2], it, rq, "validation")

\* ... send the response to the client during reading, ...
StartTransfer(S, it, rq) ==
  On(On(S, it[2], {"IN", "RDHUP"}, Closure("relay_in", it, rq, "")),
     it[1], {"RDHUP"}, Closure("relay_out", it, rq, ""))

\* ... wait for the next request of the client ...
ReuseConnection(S, it, rq) ==
  Read(On(S, it[2], {"RDHUP"}, Closure("idle", it, rq, "")), it[1], it, rq, "again")

\* ... or start the raw transfer of CONNECT.
HandleConnect(S, it, rq) ==
  LET tunnel == Closure("tunnel", it, rq, "")
  IN  On(On(S, it[2], {"RDHUP", "IN", "OUT"}, tunnel), it[1], {"RDHUP", "IN", "OUT"}, tunnel)

Sent(S, it, rq, next) ==
  CASE next = "validate" -> StartValidation(S, it, rq)
    [] next = "transfer" -> StartTransfer(S, it, rq)
    [] next = "reuse"    -> ReuseConnection(S, it, rq)
    [] next = "tunnel"   -> HandleConnect(S, it, rq)
    [] next = "close"    -> Close(S, it)

-----------------------------------------------------------------------------
(***************************************************************************)
(* epoll_core.  A peer does something; epoll_wait() returns events; each   *)
(* event finds the handler that is registered for its descriptor then.     *)
(***************************************************************************)
Sources == {"listener", "notifier", "timer", "signal"}

ASSUME SourceAssumption == Fd \cap Sources = {}

\* What epoll may report of f: what f waits for, and HUP (with ERROR, which
\* the handlers do not tell apart) whether f waits for it or not.
Events(f) ==
  LET r == regs[f]
      raw == CASE r.peer = "open" -> SUBSET {"IN", "OUT"}
               [] r.peer = "fin"  -> {{"IN", "RDHUP"}, {"IN", "RDHUP", "OUT"}}
               [] r.peer = "rst"  -> {{"IN", "OUT", "RDHUP", "HUP"}}
  IN  {bits \cap (r.interest \cup {"HUP"}) : bits \in raw} \ {{}}

ReadySources ==
  {s \in Sources : CASE s = "listener" -> arrived # Client
                     [] s = "notifier" -> \E k \in Key : server.queries[k] > 0
                     [] s = "timer"    -> Timeouts /\ Used # {}
                     [] s = "signal"   -> Signals}

Ready == [src : ReadySources, bits : {{"IN"}}] \cup
         UNION {[src : {f}, bits : Events(f)] : f \in Used}

EpollWait ==
  /\ loop = "running" /\ batch = <<>>
  /\ \E n \in 1 .. BatchSize :
       batch' \in {b \in [1 .. n -> Ready] :
                     \A i, j \in 1 .. n : b[i].src = b[j].src => i = j}
  /\ UNCHANGED <<server, arrived, loop>>

PeerCloses(f) ==
  /\ loop = "running" /\ f \in Used
  /\ \E how \in {"fin", "rst"} :
       /\ regs[f].peer = "open" \/ <<regs[f].peer, how>> = <<"fin", "rst">>
       /\ server' = [server EXCEPT !.regs[f].peer = how]
  /\ UNCHANGED <<batch, arrived, loop>>

Event(src) == loop = "running" /\ batch # <<>> /\ Head(batch).src = src
Is(bit)    == bit \in Head(batch).bits

\* The handler returns: the loop goes on with the next event.
Return(S) ==
  /\ \A k \in Key : S.queries[k] <= MaxPending
  /\ server' = S
  /\ batch' = Tail(batch)
  /\ UNCHANGED loop

Returns(S) == Return(S) /\ UNCHANGED arrived

\* The loop is over: it was told to stop, or an exception left it, or the
\* behaviour of the program is undefined from here on.
Halt(why) ==
  /\ loop' = why
  /\ server' = Blank /\ batch' = <<>> /\ UNCHANGED arrived

Interrupt == Event("signal") /\ Halt("stopped")

\* Whatever has expired is closed; entries of on_resolve are not looked at.
Timer ==
  /\ Event("timer")
  /\ \E expired \in SUBSET Places :
       Returns([server EXCEPT !.regs =
                  [f \in Fd |-> IF regs[f].place \in expired THEN Free ELSE regs[f]]])

-----------------------------------------------------------------------------
(***************************************************************************)
(* The handlers of the listener and of the notifier.                       *)
(***************************************************************************)
\* accept() may fail, for want of a descriptor or otherwise: that is logged.
AcceptFails == Event("listener") /\ Returns(server)

Accept(c, f) ==
  /\ Event("listener")
  /\ c \notin arrived /\ f \in Closed
  /\ arrived' = arrived \cup {c}
  /\ Return(Read(Accepted(server, f, c), f, <<f>>, None, "first"))

\* Mutant: get_ip() of an empty queue.
Answer_Unasked(k) == Event("notifier")

Answer(k) == Event("notifier") /\ server.queries[k] > 0
Waits(k)  == k \in DOMAIN server.on_resolve
Taken(k)  == [server EXCEPT !.queries[k] = @ - 1]

\* The socket to the server is opened before anything else, outside the try.
NoDestination == Event("notifier") /\ Closed = {} /\ Halt("exception")

AnswerTooLate(k) == Answer(k) /\ Closed # {} /\ ~Waits(k) /\ Returns(Taken(k))

\* sockets.find() may return end(), which is dereferenced all the same.
AnswerNoClient(k) ==
  /\ Answer(k) /\ Closed # {} /\ Waits(k)
  /\ regs[k[1]].place # <<k[1]>>
  /\ Halt("answer without client")

\* No address, or connect() fails at once.
AnswerNotFound(k) ==
  /\ Answer(k) /\ Closed # {} /\ Waits(k)
  /\ regs[k[1]].place = <<k[1]>>
  /\ Returns(Send404(Forget(Taken(k), k), k[1]))

AnswerFound(k, s, n) ==
  LET c    == k[1]
      it   == <<c, s>>
      conn == Joined(Taken(k), c, s, k[2])
  IN  /\ Answer(k) /\ s \in Closed /\ Waits(k)
      /\ regs[c].place = <<c>>
      /\ Returns(On(On(conn, c, {"RDHUP"}, Connecting("dropping", it, k[2], n)),
                    s, {"OUT"}, Connecting("connect", it, k[2], n)))

-----------------------------------------------------------------------------
(***************************************************************************)
(* The handlers of clients and servers.                                    *)
(***************************************************************************)
Sound == ~Is("RDHUP") /\ ~Is("HUP")
Handles(f, kinds) == Event(f) /\ f \in Used /\ regs[f].handler.kind \in kinds
H(f) == regs[f].handler

\* Mutant: the entry of a client that went is not erased.
ClientLeavesQuery_NoErase(f) ==
  Handles(f, {"resolving"}) /\ Is("RDHUP") /\ Returns(Close(server, H(f).it))

\* The client went while its host was being resolved ...
ClientLeavesQuery(f) ==
  LET k == <<f, H(f).rq.host>>
  IN  /\ Handles(f, {"resolving"}) /\ Is("RDHUP")
      /\ IF Waits(k) THEN Returns(Close(Forget(server, k), H(f).it))
                     ELSE Halt("no entry")

\* Mutant: nor is that of a client whose server was being connected to.
ClientLeavesConnect_NoErase(f) ==
  Handles(f, {"dropping"}) /\ Is("RDHUP") /\ Returns(Close(server, H(f).it))

\* ... or while the server was being connected to.
ClientLeavesConnect(f) ==
  /\ Handles(f, {"dropping"}) /\ Is("RDHUP")
  /\ Returns(Close(Forget(server, <<H(f).it[1], H(f).host>>), H(f).it))

\* The handler of the server's connect().  It waits for OUT alone: RDHUP comes
\* only with an event of the descriptor's former socket, of the same batch.
Query(f) == <<H(f).it[1], H(f).host>>

\* ip.next_ip() moves a copy of the handler on: the registered one keeps its ips.
ConnectNextAddress(f) ==
  /\ Handles(f, {"connect"}) /\ Is("HUP") /\ ~Is("RDHUP")
  /\ "OUT" \in regs[f].interest /\ H(f).ips > 1
  /\ Returns([server EXCEPT !.regs[f].peer = "open"])

\* Mutant: that of a former socket leaves the entry where it is.
ConnectFails_KeepsEntry(f) ==
  /\ Handles(f, {"connect"}) /\ Is("RDHUP")
  /\ Returns(Send404(Escape(server, H(f).it), H(f).it[1]))

\* Mutant: it closes the server's socket, and the client stays in the connection.
ConnectFails_NoEscape(f) ==
  /\ Handles(f, {"connect"}) /\ Is("RDHUP")
  /\ Returns(Close(Forget(server, Query(f)), <<f>>))

ConnectFails(f) ==
  LET it == H(f).it
  IN  /\ Handles(f, {"connect"}) /\ ~Sound
      /\ IF Waits(Query(f))
           THEN Returns(Send404(Escape(Forget(server, Query(f)), it), it[1]))
           ELSE Halt("no entry")

Connected(f) ==
  LET it   == H(f).it
      idle == Watch(Watch(Forget(server, Query(f)), it[1], {}), it[2], {})
  IN  /\ Handles(f, {"connect"}) /\ Sound /\ Is("OUT")
      /\ IF Waits(Query(f))
           THEN Returns(Proceed(idle, it, server.on_resolve[Query(f)]))
           ELSE Halt("no entry")

\* read() and the reading half of fast_transfer(): the peer shut down and left
\* nothing to read, it is gone, or the read fails.
Reads(f) == Handles(f, {"read", "relay_in"}) /\ Is("IN") /\ ~Is("HUP")

InputLost(f) ==
  /\ Handles(f, {"read", "relay_in"})
  /\ Is("RDHUP") \/ (Is("IN") # Is("HUP"))
  /\ Returns(Close(server, H(f).it))

\* The branch of HUP closes and goes on to read.
InputBroken(f) ==
  /\ Handles(f, {"read", "relay_in"}) /\ Is("HUP") /\ Is("IN")
  /\ Halt("use after close")

InputPart(f) == Reads(f) /\ Returns(server)

RelayPart(f) ==
  LET client == H(f).it[1]
  IN  /\ Reads(f) /\ H(f).kind = "relay_in"
      /\ Returns(Watch(Buffer(server, f, "some"), client, {"OUT", "RDHUP"}))

\* The response is complete: it is saved if should_cache() says so.
RelayRead(f) ==
  LET h == H(f)
  IN  /\ Reads(f) /\ h.kind = "relay_in"
      /\ \E saved \in SUBSET {h.rq.host}, closed \in BOOLEAN :
           Returns(SendServerResponse([server EXCEPT !.cached = @ \cup saved],
                                      h.it, h.rq, closed))

Asks(f, rq) == rq.from = regs[f].who

FirstRequestRead(f, rq) ==
  /\ Reads(f) /\ H(f).kind = "read" /\ H(f).next = "first" /\ Asks(f, rq)
  /\ Returns(ConnectToServer(Watch(server, f, {}), f, rq, "handle"))

\* Mutant: the host of the next request is not compared with the old one.
ClientReused_AnyHost(f, rq) ==
  LET h == H(f)
  IN  /\ Reads(f) /\ h.kind = "read" /\ h.next = "again" /\ Asks(f, rq)
      /\ Returns(HandleRequest(Watch(server, f, {}), h.it, rq))

ClientReused(f, rq) ==
  LET h    == H(f)
      idle == Watch(server, f, {})
  IN  /\ Reads(f) /\ h.kind = "read" /\ h.next = "again" /\ Asks(f, rq)
      /\ Returns(IF rq.host = h.rq.host THEN HandleRequest(idle, h.it, rq)
                                        ELSE Reconnect(idle, h.it, rq, "handle"))

\* handle_validation_response(): what the server said is any response.
Validated(f) ==
  LET h     == H(f)
      idle  == Watch(server, f, {})
      stale == [idle EXCEPT !.cached = @ \ {h.rq.host}]
  IN  /\ Reads(f) /\ h.kind = "read" /\ h.next = "validation"
      /\ \E valid, closed \in BOOLEAN :
           Returns(IF valid THEN SendServerResponse(idle, h.it, h.rq, closed)
                   ELSE IF closed THEN Reconnect(stale, h.it, h.rq, "transfer")
                   ELSE FastTransfer(stale, h.it, h.rq))

\* send() and the writing half of fast_transfer().
Writes(f) ==
  /\ Handles(f, {"send", "relay_out"}) /\ Is("OUT")
  /\ H(f).kind = "relay_out" => regs[H(f).it[2]].buf # "empty"

OutputLost(f) ==
  /\ Handles(f, {"send", "relay_out"})
  /\ ~Sound \/ Writes(f)
  /\ IF Writes(f) /\ Is("HUP") /\ ~Is("RDHUP") THEN Halt("use after close")
                                               ELSE Returns(Close(server, H(f).it))

OutputPart(f) == Writes(f) /\ Sound /\ Returns(server)

RelayWritten(f) ==
  LET s == H(f).it[2]
  IN  /\ Writes(f) /\ Sound /\ H(f).kind = "relay_out"
      /\ Returns(Watch(Buffer(server, s, "empty"), f, regs[f].interest \ {"OUT"}))

MessageSent(f) ==
  LET h == H(f)
  IN  /\ Writes(f) /\ Sound /\ h.kind = "send"
      /\ Returns(Sent(Watch(server, f, {}), h.it, h.rq, h.next))

\* reuse_connection(): the server drops the connection while it is not in use.
IdleServerDrops(f) ==
  Handles(f, {"idle"}) /\ Is("RDHUP") /\ Returns(Close(server, H(f).it))

-----------------------------------------------------------------------------
(***************************************************************************)
(* CONNECT: both sides have the same handler.  A raw_message that is full  *)
(* stays so until all of it is written.                                    *)
(***************************************************************************)
Toggled(events, bit) == (events \ {bit}) \cup ({bit} \ events)
Other(f)  == CHOOSE o \in Members(regs[f].place) : o # f
FillsUp(f) == Is("IN") /\ regs[f].buf # "full"
Drains(f)  == Is("OUT") /\ regs[Other(f)].buf # "empty"

TunnelStopped(f) ==
  Handles(f, {"tunnel"}) /\ Is("RDHUP") /\ Returns(Close(server, H(f).it))

TunnelMoves(f) ==
  LET o == Other(f)
      Moved(in, out) ==
        LET here  == regs[f].interest
            full  == IF FillsUp(f) /\ in = "full" THEN Toggled(here, "IN") ELSE here
            mine  == IF Drains(f) /\ out = "empty" THEN Toggled(full, "OUT") ELSE full
            other == regs[o].interest
                       \cup (IF FillsUp(f) THEN {"OUT"} ELSE {})
                       \cup (IF Drains(f) /\ out # "full" THEN {"IN"} ELSE {})
        IN  Watch(Watch(Buffer(Buffer(server, f, in), o, out), f, mine), o, other)
  IN  /\ Handles(f, {"tunnel"}) /\ ~Is("RDHUP")
      /\ \E in  \in IF FillsUp(f) THEN {"some", "full"} ELSE {regs[f].buf},
            out \in {regs[o].buf} \cup IF Drains(f) THEN {"empty"} ELSE {} :
           Returns(Moved(in, out))

\* A failed read or write closes the connection, and the handler goes on: it
\* touches what was closed unless nothing is left for it to do.
TunnelFails(f) ==
  LET Fails(touched) == IF touched THEN Halt("use after close")
                                   ELSE Returns(Close(server, H(f).it))
  IN  /\ Handles(f, {"tunnel"}) /\ ~Is("RDHUP")
      /\ \/ FillsUp(f) /\ Fails(regs[f].buf # "empty" \/ Drains(f))
         \/ Drains(f) /\ Fails(regs[Other(f)].buf # "full")

\* An event nobody is registered for any more, or in which the registered
\* handler finds nothing it looks for.
Ignored(f) ==
  /\ Event(f)
  /\ f \in Used =>
       CASE H(f).kind \in {"resolving", "dropping", "idle"} -> ~Is("RDHUP")
         [] H(f).kind = "connect"                -> Sound /\ ~Is("OUT")
         [] H(f).kind \in {"read", "relay_in"}   -> Sound /\ ~Is("IN")
         [] H(f).kind \in {"send", "relay_out"}  -> Sound /\ ~Writes(f)
         [] H(f).kind = "tunnel"                 -> FALSE
  /\ Returns(server)

-----------------------------------------------------------------------------
Answered(k) ==
  \/ AnswerTooLate(k) \/ AnswerNoClient(k) \/ AnswerNotFound(k)
  \/ \E s \in Fd, n \in 1 .. MaxIps : AnswerFound(k, s, n)

Handler(f) ==
  \/ ClientLeavesQuery(f) \/ ClientLeavesConnect(f)
  \/ ConnectNextAddress(f) \/ ConnectFails(f) \/ Connected(f)
  \/ InputLost(f) \/ InputBroken(f) \/ InputPart(f) \/ RelayPart(f) \/ RelayRead(f)
  \/ \E rq \in Request : FirstRequestRead(f, rq) \/ ClientReused(f, rq)
  \/ Validated(f)
  \/ OutputLost(f) \/ OutputPart(f) \/ RelayWritten(f) \/ MessageSent(f)
  \/ IdleServerDrops(f)
  \/ TunnelStopped(f) \/ TunnelMoves(f) \/ TunnelFails(f)
  \/ Ignored(f)

Dispatch ==
  \/ Interrupt \/ Timer
  \/ AcceptFails \/ \E c \in Client, f \in Fd : Accept(c, f)
  \/ NoDestination \/ \E k \in Key : Answered(k)
  \/ \E f \in Fd : Handler(f)

Next == EpollWait \/ Dispatch \/ \E f \in Fd : PeerCloses(f)

Spec == Init /\ [][Next]_vars

Notices == EpollWait /\ \E i \in DOMAIN batch' : batch'[i].src = "notifier"

\* Handlers return, epoll_wait() goes round the descriptors that are ready, so
\* that none is passed over for ever, and the resolver answers every query
\* (EveryCallAnswered of Resolver).  Peers and the timer owe nothing.
FairSpec ==
  /\ Spec
  /\ WF_vars(Dispatch) /\ SF_vars(Notices)
  /\ \A k \in Key : SF_vars(Answered(k))

-----------------------------------------------------------------------------
SockKinds  == {"read", "send", "resolving"}
ConnKinds  == {"read", "send", "dropping", "connect", "relay_in", "relay_out",
               "idle", "tunnel"}

\* The members hold what their declarations say, and there is no more than the
\* bounds allow.
TypeOK ==
  /\ \A f \in Fd : /\ DOMAIN regs[f] = DOMAIN Free
                   /\ regs[f].interest \subseteq {"IN", "OUT", "RDHUP"}
                   /\ regs[f].buf \in {"empty", "some", "full"}
                   /\ regs[f].who \in Client \cup Host \cup {None}
                   /\ regs[f].peer \in {"open", "fin", "rst"}
  /\ DOMAIN server.on_resolve \subseteq Key
  /\ \A k \in DOMAIN server.on_resolve :
       server.on_resolve[k] \in [rq : Request, next : {"handle", "transfer"}]
  /\ server.queries \in [Key -> 0 .. MaxPending]
  /\ server.cached \subseteq Host
  /\ Len(batch) <= BatchSize /\ arrived \subseteq Client

\* No closure outlives what it captured: whatever is registered for a
\* descriptor captured the iterator of the place the descriptor is in now,
\* through every move between queue.sockets and queue.connections, and a
\* handler of connections is never left on a lone socket.
ClosuresLive ==
  \A f \in Used :
    LET h == H(f)
    IN  /\ f \in Members(h.it)
        /\ \A g \in Members(h.it) : regs[g].place = h.it
        /\ h.kind \in (IF Len(h.it) = 1 THEN SockKinds ELSE ConnKinds)

\* A request is only ever processed for the client that made it: the request
\* that the closures of a place captured is of the client at its other end.
OwnRequestOnly ==
  \A f \in Used :
    "rq" \in DOMAIN H(f) /\ H(f).rq # None => H(f).rq.from = regs[H(f).it[1]].who

\* A request, or the validation of a cached response, is only ever sent to the
\* host it names, however often the connection changed servers.
RightServer ==
  \A f \in Used :
    /\ H(f).kind = "send" /\ H(f).next \in {"validate", "transfer"} =>
         f = H(f).it[2] /\ regs[f].who = H(f).rq.host
    /\ H(f).kind = "relay_in" => regs[f].who = H(f).rq.host

Resolving(f) == f \in Used /\ H(f).kind = "resolving"
InConnect(f) == f \in Used /\ H(f).kind = "connect" /\ "OUT" \in regs[f].interest

\* on_resolve has exactly the queries somebody still waits for, of the clients
\* whose host is being resolved and of the servers being connected to, each with
\* a request of the client it is about and not of one that had its descriptor.
EntriesAccounted ==
  /\ DOMAIN server.on_resolve =
       {<<f, H(f).rq.host>> : f \in {g \in Fd : Resolving(g)}} \cup
       {Query(f) : f \in {g \in Fd : InConnect(g)}}
  /\ \A k \in DOMAIN server.on_resolve :
       server.on_resolve[k].rq.from = regs[k[1]].who

\* A client that waits for its host has an entry in on_resolve, and the resolver
\* still owes the answer that will find it.
WaiterHasAnswerComing ==
  \A f \in Fd : Resolving(f) =>
    LET k == <<f, H(f).rq.host>> IN Waits(k) /\ server.queries[k] > 0

\* A connection never ends up with both sides in WAIT: one of them waits for
\* IN or OUT, so that something other than the timer can still move it.
SomeoneMoves ==
  \A f \in Used : H(f).kind # "resolving" =>
    \E g \in Members(regs[f].place) : regs[g].interest \cap {"IN", "OUT"} # {}

\* A client never waits for ever for its host to be resolved: it is connected,
\* told 404 or closed, if the loop goes on.
WaiterMovesOn == \A f \in Fd : Resolving(f) ~> ~Resolving(f)
==============================================================================
