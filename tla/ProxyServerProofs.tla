-------------------------- MODULE ProxyServerProofs ---------------------------
(***************************************************************************)
(* The event loop, for any number of descriptors, clients, hosts and       *)
(* addresses and batches of any size.  The invariant says of each          *)
(* descriptor that it is closed, or alone with a handler of its own, or    *)
(* one of a pair whose two handlers both know the pair, the side they are  *)
(* on and a request for the host at the other side; and, where no timer    *)
(* closes sockets behind their handlers' backs, that on_resolve has an     *)
(* entry just where a handler is still to take it.  With it goes what each *)
(* descriptor waits for (Live): an answer that is still to come, or IN or  *)
(* OUT at one end at least.                                                *)
(*                                                                         *)
(* A handler is a composition of operators from server state to server     *)
(* state, and so is its proof: there is a lemma for each of them that says *)
(* what it makes of a pair (Pair) or of a socket on its own (Alone), and   *)
(* an action's lemma puts those together.                                  *)
(***************************************************************************)
EXTENDS ProxyServer, SequenceTheorems, TLAPS

\* What the members of proxy_server may hold.
Bit   == {"IN", "OUT", "RDHUP"}
Place == {<<>>} \cup {<<f>> : f \in Fd} \cup Fd \X Fd
Entry == [rq : Request, next : {"handle", "transfer"}]
Msg   == [src : Sources \cup Fd, bits : SUBSET (Bit \cup {"HUP"})]

\* The handlers: those of messages, relays and tunnels, and the two of connecting.
Closures ==
  [kind : {"read", "send", "resolving", "relay_in", "relay_out", "idle", "tunnel"},
   it : Place, rq : Request \cup {None},
   next : {"first", "again", "validation", "close", "validate", "transfer", "reuse",
           "tunnel", "handle", ""}]
ConnectClosures == [kind : {"connect", "dropping"}, it : Place, host : Host, ips : Nat]
Handlers == Closures \cup ConnectClosures \cup {None}

Reg == [place : Place, interest : SUBSET Bit, handler : Handlers,
        buf : {"empty", "some", "full"}, who : Client \cup Host \cup {None},
        peer : {"open", "fin", "rst"}]

\* The server states.
Server == [regs : [Fd -> Reg],
           on_resolve : UNION {[D -> Entry] : D \in SUBSET Key},
           queries : [Key -> Nat],
           cached : SUBSET Host]

\* Requests a client w may have made, and those among them that are for a host.
RequestOf(w)         == {rq \in Request : Timeouts \/ rq.from = w}
RequestTo(w, host)   == {rq \in RequestOf(w) : rq.host = host}

\* A handler that a socket on its own, of client w, may have.
HasLone(h, f, w) ==
  /\ h \in Closures /\ h.it = <<f>>
  /\ \/ h.kind = "read" /\ h.next = "first" /\ h.rq = None
     \/ h.kind = "send" /\ h.next = "close" /\ h.rq \in RequestOf(w) \cup {None}
     \/ h.kind = "resolving" /\ h.rq \in RequestOf(w)

\* The handlers a connected pair may have at each of its ends, and what follows
\* them.
AtClient == {<<"read", "again">>, <<"send", "reuse">>, <<"send", "tunnel">>,
             <<"relay_out", "">>, <<"tunnel", "">>}
AtServer == {<<"read", "validation">>, <<"send", "validate">>, <<"send", "transfer">>,
             <<"relay_in", "">>, <<"idle", "">>, <<"tunnel", "">>}

\* A handler that end f of the pair of client w and a server of host may have.
HasPair(h, f, c, s, w, host) ==
  /\ h.it = <<c, s>>
  /\ \/ /\ h \in ConnectClosures /\ h.host = host
        /\ h.kind = IF f = s THEN "connect" ELSE "dropping"
     \/ /\ h \in Closures /\ h.rq \in RequestTo(w, host)
        /\ <<h.kind, h.next>> \in IF f = s THEN AtServer ELSE AtClient

\* The server's socket waits for its connection no more.  Until then the client's
\* end only waits for the client to drop, and no tunnel starts at the client's end
\* before the server's has left the handler of connecting.
Quiet(S, s)    == ~(S.regs[s].handler.kind = "connect" /\ "OUT" \in S.regs[s].interest)
Agree(S, c, s) ==
  /\ Quiet(S, s) \/ S.regs[c].handler.kind = "dropping"
  /\ S.regs[s].handler.kind = "connect" => S.regs[c].handler.kind # "tunnel"

\* Each descriptor is closed, alone or in a pair.
LoneAt(S, f) == S.regs[f].place = <<f>> /\ HasLone(S.regs[f].handler, f, S.regs[f].who)
PairAt(S, f, c, s) ==
  /\ c # s /\ f \in {c, s}
  /\ S.regs[c].place = <<c, s>> /\ S.regs[s].place = <<c, s>>
  /\ HasPair(S.regs[f].handler, f, c, s, S.regs[c].who, S.regs[s].who)
  /\ Agree(S, c, s)
Placed(S, f) ==
  \/ S.regs[f].place = <<>>
  \/ LoneAt(S, f)
  \/ \E c, s \in Fd : PairAt(S, f, c, s)

\* The queries of a descriptor: those on_resolve has, and those a handler is owed.
Asked(S, c, h) == <<c, h>> \in DOMAIN S.on_resolve
Owes(S, c, h) ==
  \/ /\ S.regs[c].place = <<c>>
     /\ S.regs[c].handler.kind = "resolving" /\ S.regs[c].handler.rq.host = h
  \/ \E s \in Fd : /\ S.regs[c].place = <<c, s>>
                   /\ ~Quiet(S, s) /\ S.regs[s].handler.host = h
Accounted(S, c) ==
  Timeouts \/ \A h \in Host : /\ Asked(S, c, h) <=> Owes(S, c, h)
                              /\ Asked(S, c, h) => S.on_resolve[<<c, h>>].rq.from = S.regs[c].who
NoQuery(S, c) == Timeouts \/ \A h \in Host : ~Asked(S, c, h)
HostsRight(S) == \A c \in Fd, h \in Host : Asked(S, c, h) => S.on_resolve[<<c, h>>].rq.host = h

\* The states that handlers leave behind.
OkAt(S, f) == Placed(S, f) /\ Accounted(S, f)
Good(S) == S \in Server /\ HostsRight(S) /\ \A f \in Fd : OkAt(S, f)

\* A server state in which only what D has may be wrong.
GoodBut(S, D) == S \in Server /\ HostsRight(S) /\ \A f \in Fd \ D : OkAt(S, f)
\* The pair, complete and with nothing asked.
Pair(S, c, s) == /\ GoodBut(S, {c, s}) /\ PairAt(S, c, c, s) /\ PairAt(S, s, c, s)
                 /\ Quiet(S, s) /\ NoQuery(S, c) /\ NoQuery(S, s)
\* The same whatever its handlers are.
Unasked(S, c, s) == /\ GoodBut(S, {c, s}) /\ c # s
                    /\ S.regs[c].place = <<c, s>> /\ S.regs[s].place = <<c, s>>
                    /\ NoQuery(S, c) /\ NoQuery(S, s)
\* A descriptor alone, its handler to be set, with nothing asked.
Alone(S, c) == GoodBut(S, {c}) /\ S.regs[c].place = <<c>> /\ NoQuery(S, c)

\* The same two are at the ends of the pair; they have the same handlers.
SameEnds(S, T, c, s) == T.regs[c].who = S.regs[c].who /\ T.regs[s].who = S.regs[s].who
Has(S, f, h) == S.regs[f].handler = h
SameHandlers(S, T, c, s) ==
  T.regs[c].handler = S.regs[c].handler /\ T.regs[s].handler = S.regs[s].handler

\* T differs from S at D only.
Same(S, T, D) ==
  /\ \A g \in Fd \ D : T.regs[g] = S.regs[g]
  /\ \A g \in Fd \ D, h \in Host : /\ Asked(T, g, h) <=> Asked(S, g, h)
                                   /\ Asked(S, g, h) => T.on_resolve[<<g, h>>] = S.on_resolve[<<g, h>>]
Apart(S, D) == \A x \in D, c, s \in Fd : S.regs[x].place = <<c, s>> => c \in D /\ s \in D

-----------------------------------------------------------------------------
\* A descriptor outside of D is as right as it was when nothing but D has
\* changed and no pair has one end in D and one outside.
LEMMA Elsewhere ==
  ASSUME NEW S, NEW T, NEW D \in SUBSET Fd, Same(S, T, D), Apart(S, D),
         NEW g \in Fd \ D, OkAt(S, g)
  PROVE  OkAt(T, g)
<1>1. T.regs[g] = S.regs[g]
  BY DEF Same
<1>2. ASSUME NEW c \in Fd, NEW s \in Fd, c # s, g \in {c, s},
             S.regs[c].place = <<c, s>>, S.regs[s].place = <<c, s>>
      PROVE  T.regs[c] = S.regs[c] /\ T.regs[s] = S.regs[s]
  BY <1>2 DEF Same, Apart
<1>3. Placed(T, g)
  <2>1. CASE S.regs[g].place = <<>>
    BY <1>1, <2>1 DEF Placed
  <2>2. CASE LoneAt(S, g)
    BY <1>1, <2>2 DEF Placed, LoneAt
  <2>3. ASSUME NEW c \in Fd, NEW s \in Fd, PairAt(S, g, c, s) PROVE PairAt(T, g, c, s)
    BY <1>1, <1>2, <2>3 DEF PairAt, Agree, Quiet
  <2> QED
    BY <2>1, <2>2, <2>3 DEF OkAt, Placed
<1>4. ASSUME NEW h \in Host PROVE Owes(T, g, h) <=> Owes(S, g, h)
  <2>1. ASSUME NEW s \in Fd, S.regs[g].place = <<g, s>>
        PROVE  T.regs[s] = S.regs[s]
    <3>1. S.regs[s].place = <<g, s>> /\ g # s
      BY <2>1 DEF OkAt, Placed, LoneAt, PairAt
    <3> QED
      BY <1>2, <2>1, <3>1
  <2>2. ASSUME NEW s \in Fd, S.regs[g].place = <<g, s>>
        PROVE  Quiet(T, s) <=> Quiet(S, s)
    BY <2>1, <2>2 DEF Quiet
  <2> QED
    BY <1>1, <2>1, <2>2 DEF Owes
<1>5. Accounted(T, g)
  BY <1>1, <1>4 DEF OkAt, Accounted, Same
<1> QED
  BY <1>3, <1>5 DEF OkAt

\* ... so that a change of D leaves at most D wrong.
LEMMA GoodFrom ==
  ASSUME NEW S, NEW T \in Server, NEW D \in SUBSET Fd, GoodBut(S, D), Same(S, T, D), Apart(S, D),
         HostsRight(T)
  PROVE  GoodBut(T, D)
  BY Elsewhere DEF GoodBut

\* set_events() changes the interest of the descriptor, and nothing else that
\* the invariant is about.
LEMMA WatchIs ==
  ASSUME NEW S \in Server, NEW f \in Fd, NEW e \in SUBSET Bit
  PROVE  LET T == Watch(S, f, e) IN
         /\ T \in Server
         /\ T.regs[f].place = S.regs[f].place
         /\ T.regs[f].interest = e
         /\ T.regs[f].handler = S.regs[f].handler
         /\ T.regs[f].who = S.regs[f].who
         /\ \A g \in Fd \ {f} : T.regs[g] = S.regs[g]
         /\ T.on_resolve = S.on_resolve
  BY DEF Watch, Server, Reg

\* set_handler() changes the handler of the descriptor.
LEMMA InstallIs ==
  ASSUME NEW S \in Server, NEW f \in Fd, NEW h \in Handlers
  PROVE  LET T == Install(S, f, h) IN
         /\ T \in Server
         /\ T.regs[f].place = S.regs[f].place
         /\ T.regs[f].interest = S.regs[f].interest
         /\ T.regs[f].handler = h
         /\ T.regs[f].who = S.regs[f].who
         /\ \A g \in Fd \ {f} : T.regs[g] = S.regs[g]
         /\ T.on_resolve = S.on_resolve
  BY DEF Install, Server, Reg

\* set_events() and set_handler() change the two, and leave place and peer.
LEMMA OnIs ==
  ASSUME NEW S \in Server, NEW f \in Fd, NEW e \in SUBSET Bit, NEW h \in Handlers
  PROVE  LET T == On(S, f, e, h) IN
         /\ T \in Server
         /\ T.regs[f].place = S.regs[f].place
         /\ T.regs[f].interest = e
         /\ T.regs[f].handler = h
         /\ T.regs[f].who = S.regs[f].who
         /\ \A g \in Fd \ {f} : T.regs[g] = S.regs[g]
         /\ T.on_resolve = S.on_resolve
<1> DEFINE W == Watch(S, f, e)
<1>1. /\ W \in Server
      /\ W.regs[f].place = S.regs[f].place /\ W.regs[f].interest = e
      /\ W.regs[f].who = S.regs[f].who
      /\ \A g \in Fd \ {f} : W.regs[g] = S.regs[g]
      /\ W.on_resolve = S.on_resolve
  BY WatchIs
<1> HIDE DEF W
<1> QED
  BY <1>1, InstallIs DEF On, W

\* The content of a buffer is of no account to the places, closures and
\* queries.
LEMMA BufferIs ==
  ASSUME NEW S \in Server, NEW f \in Fd, NEW content \in {"empty", "some", "full"}
  PROVE  LET T == Buffer(S, f, content) IN
         /\ T \in Server
         /\ T.regs[f].place = S.regs[f].place
         /\ T.regs[f].interest = S.regs[f].interest
         /\ T.regs[f].handler = S.regs[f].handler
         /\ T.regs[f].who = S.regs[f].who
         /\ \A g \in Fd \ {f} : T.regs[g] = S.regs[g]
         /\ T.on_resolve = S.on_resolve
  BY DEF Buffer, Server, Reg

\* A closed descriptor is in no place and has no handler.
LEMMA FreeIsReg == Free \in Reg /\ Free.place = <<>> /\ Free.handler = None
  BY DEF Free, Reg, Place, Handlers

\* escape_client() leaves the client's socket on its own and closes the
\* server's.
LEMMA EscapeIs ==
  ASSUME NEW S \in Server, NEW c \in Fd, NEW s \in Fd, c # s
  PROVE  LET T == Escape(S, <<c, s>>) IN
         /\ T \in Server
         /\ T.regs[c].place = <<c>>
         /\ T.regs[c].who = S.regs[c].who
         /\ T.regs[s].place = <<>>
         /\ \A g \in Fd \ {c, s} : T.regs[g] = S.regs[g]
         /\ T.on_resolve = S.on_resolve
<1> DEFINE r == [S.regs[c] EXCEPT !.place = <<c>>, !.buf = "empty"]
           T == Escape(S, <<c, s>>)
           R == [[S.regs EXCEPT ![c] = r] EXCEPT ![s] = Free]
<1>1. T = [S EXCEPT !.regs = R]
  BY DEF Escape, Server
<1>2. S.regs[c] \in Reg /\ <<c>> \in Place
  BY DEF Server, Place
<1>3. r \in Reg /\ r.place = <<c>> /\ r.who = S.regs[c].who
  BY <1>2 DEF Reg
<1> HIDE DEF r
<1>4. /\ R \in [Fd -> Reg] /\ R[c] = r /\ R[s] = Free
      /\ \A g \in Fd \ {c, s} : R[g] = S.regs[g]
  BY <1>3, FreeIsReg DEF Server
<1> HIDE DEF R
<1>5. T \in Server /\ T.regs = R /\ T.on_resolve = S.on_resolve
  BY <1>1, <1>4 DEF Server
<1> HIDE DEF T
<1> QED
  BY <1>3, <1>4, <1>5, FreeIsReg DEF T

\* close() frees the sockets of the place, and no other.
LEMMA CloseIs ==
  ASSUME NEW S \in Server, NEW it
  PROVE  LET T == Close(S, it) IN
         /\ T \in Server
         /\ \A g \in Fd \cap Members(it) : T.regs[g].place = <<>>
         /\ \A g \in Fd \ Members(it) : T.regs[g] = S.regs[g]
         /\ T.on_resolve = S.on_resolve
<1> DEFINE R == [f \in Fd |-> IF f \in Members(it) THEN Free ELSE S.regs[f]]
<1>1. R \in [Fd -> Reg]
  BY FreeIsReg DEF Server
<1>2. /\ \A g \in Fd \cap Members(it) : R[g] = Free
      /\ \A g \in Fd \ Members(it) : R[g] = S.regs[g]
  OBVIOUS
<1> HIDE DEF R
<1>3. Close(S, it) = [S EXCEPT !.regs = R]
  BY DEF Close, R
<1> QED
  BY <1>1, <1>2, <1>3, FreeIsReg DEF Server

\* on_resolve.erase() takes one entry out and leaves the others what they are.
LEMMA ForgetIs ==
  ASSUME NEW S \in Server, NEW k
  PROVE  LET T == Forget(S, k) IN
         /\ T \in Server
         /\ T.regs = S.regs
         /\ DOMAIN T.on_resolve = DOMAIN S.on_resolve \ {k}
         /\ \A x \in DOMAIN S.on_resolve \ {k} : T.on_resolve[x] = S.on_resolve[x]
<1> DEFINE D == DOMAIN S.on_resolve \ {k}
           R == [x \in D |-> S.on_resolve[x]]
<1>1. DOMAIN S.on_resolve \in SUBSET Key
      /\ \A x \in DOMAIN S.on_resolve : S.on_resolve[x] \in Entry
  BY DEF Server
<1>2. D \in SUBSET Key /\ R \in [D -> Entry]
  BY <1>1
<1>3. R \in UNION {[E -> Entry] : E \in SUBSET Key}
  BY <1>2
<1>4. DOMAIN R = D /\ \A x \in D : R[x] = S.on_resolve[x]
  OBVIOUS
<1>5. Forget(S, k) = [S EXCEPT !.on_resolve = R]
  BY DEF Forget
<1> HIDE DEF D, R
<1>6. /\ [S EXCEPT !.on_resolve = R] \in Server
      /\ [S EXCEPT !.on_resolve = R].regs = S.regs
      /\ [S EXCEPT !.on_resolve = R].on_resolve = R
  BY <1>3 DEF Server
<1> QED
  BY <1>4, <1>5, <1>6 DEF D

\* get_connection() makes a pair of the client's socket and a new one.
LEMMA JoinedIs ==
  ASSUME NEW S \in Server, NEW c \in Fd, NEW s \in Fd, c # s, NEW h \in Host
  PROVE  LET T == Joined(S, c, s, h) IN
         /\ T \in Server
         /\ T.regs[c].place = <<c, s>> /\ T.regs[s].place = <<c, s>>
         /\ T.regs[c].who = S.regs[c].who /\ T.regs[s].who = h
         /\ \A g \in Fd \ {c, s} : T.regs[g] = S.regs[g]
         /\ T.on_resolve = S.on_resolve
<1> DEFINE r == [S.regs[c] EXCEPT !.place = <<c, s>>]
           q == [Free EXCEPT !.place = <<c, s>>, !.who = h]
           T == Joined(S, c, s, h)
           R == [[S.regs EXCEPT ![c] = r] EXCEPT ![s] = q]
<1>1. T = [S EXCEPT !.regs = R]
  BY DEF Joined, Server
<1>2. S.regs[c] \in Reg /\ <<c, s>> \in Place
  BY DEF Server, Place
<1>3. r \in Reg /\ r.place = <<c, s>> /\ r.who = S.regs[c].who
  BY <1>2 DEF Reg
<1>4. q \in Reg /\ q.place = <<c, s>> /\ q.who = h
  BY <1>2, FreeIsReg DEF Reg
<1> HIDE DEF r, q
<1>5. /\ R \in [Fd -> Reg] /\ R[c] = r /\ R[s] = q
      /\ \A g \in Fd \ {c, s} : R[g] = S.regs[g]
  BY <1>3, <1>4 DEF Server
<1> HIDE DEF R
<1>6. T \in Server /\ T.regs = R /\ T.on_resolve = S.on_resolve
  BY <1>1, <1>5 DEF Server
<1> HIDE DEF T
<1> QED
  BY <1>3, <1>4, <1>5, <1>6 DEF T

\* accept() puts a new socket in a place of its own.
LEMMA AcceptedIs ==
  ASSUME NEW S \in Server, NEW f \in Fd, NEW c \in Client
  PROVE  LET T == Accepted(S, f, c) IN
         /\ T \in Server
         /\ T.regs[f].place = <<f>> /\ T.regs[f].who = c
         /\ \A g \in Fd \ {f} : T.regs[g] = S.regs[g]
         /\ T.on_resolve = S.on_resolve
<1> DEFINE r == [Free EXCEPT !.place = <<f>>, !.who = c]
<1>1. <<f>> \in Place
  BY DEF Place
<1>2. r \in Reg /\ r.place = <<f>> /\ r.who = c
  BY <1>1, FreeIsReg DEF Reg
<1> HIDE DEF r
<1>3. Accepted(S, f, c) = [S EXCEPT !.regs[f] = r]
  BY DEF Accepted, r
<1> QED
  BY <1>2, <1>3 DEF Server

-----------------------------------------------------------------------------
\* What the places <<c>> and <<c, s>> are made of.
LEMMA Places1 ==
  ASSUME NEW x, NEW c, NEW s
  PROVE  /\ Members(<<x>>) = {x} /\ Members(<<c, s>>) = {c, s} /\ Members(<<>>) = {}
         /\ <<x>>[1] = x /\ <<c, s>>[1] = c /\ <<c, s>>[2] = s
         /\ Len(<<x>>) = 1 /\ Len(<<c, s>>) = 2
         /\ <<x>> # <<>> /\ <<c, s>> # <<>> /\ <<x>> # <<c, s>>
  BY DEF Members

\* A pair is told by its two sockets.
LEMMA SamePlace ==
  ASSUME NEW a, NEW b, NEW c, NEW s, <<a, b>> = <<c, s>>
  PROVE  a = c /\ b = s
  OBVIOUS

\* A whole pair, if the handler that was called is not one of connecting: the
\* server's socket no longer waits for its connection, so nothing is owed to
\* the pair.
LEMMA PairOpens ==
  ASSUME NEW S, Good(S), NEW c \in Fd, NEW s \in Fd, NEW f \in {c, s},
         PairAt(S, f, c, s), S.regs[f].handler.kind \notin {"connect", "dropping"}
  PROVE  Pair(S, c, s)
<1>1. c # s /\ S.regs[c].place = <<c, s>> /\ S.regs[s].place = <<c, s>> /\ S \in Server
  BY DEF PairAt, Good
<1>2. ASSUME NEW g \in {c, s} PROVE PairAt(S, g, c, s)
  <2>1. Placed(S, g) /\ S.regs[g].place = <<c, s>>
    BY <1>1 DEF Good, OkAt
  <2>2. S.regs[g].place # <<>> /\ S.regs[g].place # <<g>>
    BY <2>1, Places1
  <2>3. PICK a \in Fd, b \in Fd : PairAt(S, g, a, b)
    BY <2>1, <2>2 DEF Placed, LoneAt
  <2>4. <<a, b>> = <<c, s>>
    BY <2>1, <2>3 DEF PairAt
  <2> QED
    BY <2>3, <2>4, SamePlace
<1>3. Quiet(S, s)
  <2>1. CASE f = s
    BY <2>1 DEF Quiet
  <2>2. CASE f = c
    BY <2>2 DEF PairAt, Agree
  <2> QED
    BY <2>1, <2>2
<1>4. ASSUME NEW h \in Host PROVE ~Owes(S, c, h) /\ ~Owes(S, s, h)
  BY <1>1, <1>3, Places1, SamePlace DEF Owes
<1> QED
  BY <1>1, <1>2, <1>3, <1>4 DEF Pair, Good, GoodBut, NoQuery, OkAt, Accounted

\* A step that changes only a pair leaves the rest as good as it was.
LEMMA PairFrame ==
  ASSUME NEW S, NEW T \in Server, NEW c \in Fd, NEW s \in Fd,
         GoodBut(S, {c, s}),
         \A x \in {c, s} : S.regs[x].place \in {<<>>, <<x>>, <<c, s>>},
         \A g \in Fd \ {c, s} : T.regs[g] = S.regs[g],
         T.on_resolve = S.on_resolve
  PROVE  /\ GoodBut(T, {c, s})
         /\ NoQuery(S, c) => NoQuery(T, c)
         /\ NoQuery(S, s) => NoQuery(T, s)
<1>1. Same(S, T, {c, s})
  BY DEF Same, Asked
<1>2. Apart(S, {c, s})
  BY SamePlace, Places1 DEF Apart
<1>3. HostsRight(T)
  BY DEF GoodBut, HostsRight, Asked
<1> QED
  BY <1>1, <1>2, <1>3, GoodFrom DEF NoQuery, Asked

\* A step that changes only one descriptor leaves the rest as good as it was.
LEMMA OneFrame ==
  ASSUME NEW S, NEW T \in Server, NEW c \in Fd,
         GoodBut(S, {c}),
         S.regs[c].place \in {<<>>, <<c>>},
         \A g \in Fd \ {c} : T.regs[g] = S.regs[g],
         T.on_resolve = S.on_resolve
  PROVE  GoodBut(T, {c}) /\ (NoQuery(S, c) => NoQuery(T, c))
<1>1. Same(S, T, {c})
  BY DEF Same, Asked
<1>2. Apart(S, {c})
  <2>1. ASSUME NEW a \in Fd, NEW b \in Fd PROVE S.regs[c].place # <<a, b>>
    BY Places1
  <2> QED
    BY <2>1 DEF Apart
<1>3. HostsRight(T)
  BY DEF GoodBut, HostsRight, Asked
<1> QED
  BY <1>1, <1>2, <1>3, GoodFrom DEF NoQuery, Asked

\* A whole pair with no query is a good state.
LEMMA PairIsGood ==
  ASSUME NEW S, NEW c \in Fd, NEW s \in Fd, Pair(S, c, s)
  PROVE  Good(S)
<1>1. c # s /\ S.regs[c].place = <<c, s>> /\ S.regs[s].place = <<c, s>>
  BY DEF Pair, PairAt
<1>2. ASSUME NEW h \in Host PROVE ~Owes(S, c, h) /\ ~Owes(S, s, h)
  BY <1>1, Places1, SamePlace DEF Owes, Pair
<1>3. OkAt(S, c) /\ OkAt(S, s)
  BY <1>2 DEF Pair, OkAt, Placed, Accounted, NoQuery
<1> QED
  BY <1>3 DEF Pair, GoodBut, Good

\* A new closure for one end of the pair keeps it a pair, when it holds the
\* place and a request for the host of this server, and is one for its
\* position.
LEMMA PairOn ==
  ASSUME NEW S, NEW c \in Fd, NEW s \in Fd, Pair(S, c, s), NEW f \in {c, s},
         NEW e \in SUBSET Bit, NEW h \in Closures,
         h.it = <<c, s>>, h.rq \in RequestTo(S.regs[c].who, S.regs[s].who),
         <<h.kind, h.next>> \in IF f = s THEN AtServer ELSE AtClient,
         h.kind = "tunnel" => f = s \/ S.regs[s].handler.kind # "connect"
  PROVE  LET T == On(S, f, e, h) IN
         /\ Pair(T, c, s)
         /\ SameEnds(S, T, c, s)
         /\ Has(T, f, h)
<1> DEFINE T == On(S, f, e, h)
<1>1. S \in Server /\ h \in Handlers /\ f \in Fd /\ c # s
  BY DEF Pair, PairAt, GoodBut, Handlers
<1>2. /\ T \in Server
      /\ T.regs[f].place = S.regs[f].place
      /\ T.regs[f].handler = h
      /\ T.regs[f].who = S.regs[f].who
      /\ \A g \in Fd \ {f} : T.regs[g] = S.regs[g]
      /\ T.on_resolve = S.on_resolve
  BY <1>1, OnIs
<1> HIDE DEF T
<1>3. /\ S.regs[c].place = <<c, s>> /\ S.regs[s].place = <<c, s>>
      /\ GoodBut(S, {c, s}) /\ NoQuery(S, c) /\ NoQuery(S, s)
  BY DEF Pair, PairAt
<1>4. GoodBut(T, {c, s}) /\ NoQuery(T, c) /\ NoQuery(T, s)
  BY <1>2, <1>3, PairFrame
<1>5. /\ T.regs[c].place = <<c, s>> /\ T.regs[s].place = <<c, s>>
      /\ T.regs[c].who = S.regs[c].who /\ T.regs[s].who = S.regs[s].who
  BY <1>2, <1>3
<1>6. h.kind # "connect" /\ h.kind # "dropping"
  BY DEF Closures
<1>7. Quiet(T, s)
  BY <1>2, <1>6 DEF Pair, Quiet
<1>9. Agree(T, c, s)
  <2>1. CASE f = s
    BY <1>2, <1>6, <1>7, <2>1 DEF Agree
  <2>2. CASE f = c /\ f # s
    BY <1>1, <1>2, <1>7, <2>2 DEF Agree
  <2> QED
    BY <2>1, <2>2
<1>8. ASSUME NEW g \in {c, s} PROVE PairAt(T, g, c, s)
  <2>1. CASE g = f
    BY <1>1, <1>2, <1>5, <1>9, <2>1 DEF PairAt, HasPair
  <2>2. CASE g # f
    <3>1. T.regs[g] = S.regs[g] /\ PairAt(S, g, c, s)
      BY <1>2, <2>2 DEF Pair
    <3> QED
      BY <1>1, <1>5, <1>9, <3>1 DEF PairAt
  <2> QED
    BY <2>1, <2>2
<1> QED
  BY <1>2, <1>4, <1>5, <1>7, <1>8 DEF Pair, SameEnds, Has, T

\* A change that leaves the closures and the places keeps the pair.
LEMMA PairStays ==
  ASSUME NEW S, NEW T \in Server, NEW c \in Fd, NEW s \in Fd, Pair(S, c, s),
         NEW f \in {c, s},
         T.regs[f].place = S.regs[f].place,
         T.regs[f].handler = S.regs[f].handler,
         T.regs[f].who = S.regs[f].who,
         \A g \in Fd \ {f} : T.regs[g] = S.regs[g],
         T.on_resolve = S.on_resolve,
         "OUT" \in T.regs[s].interest => "OUT" \in S.regs[s].interest \/ S.regs[s].handler.kind # "connect"
  PROVE  /\ Pair(T, c, s)
         /\ SameEnds(S, T, c, s) /\ SameHandlers(S, T, c, s)
<1>1. /\ S.regs[c].place = <<c, s>> /\ S.regs[s].place = <<c, s>>
      /\ GoodBut(S, {c, s}) /\ NoQuery(S, c) /\ NoQuery(S, s) /\ c # s
  BY DEF Pair, PairAt
<1>2. GoodBut(T, {c, s}) /\ NoQuery(T, c) /\ NoQuery(T, s)
  BY <1>1, PairFrame
<1>3. \A g \in {c, s} : /\ T.regs[g].who = S.regs[g].who
                        /\ T.regs[g].handler = S.regs[g].handler
                        /\ T.regs[g].place = S.regs[g].place
  OBVIOUS
<1>4. Quiet(T, s)
  BY <1>3 DEF Pair, Quiet
<1>5. PairAt(T, c, c, s) /\ PairAt(T, s, c, s)
  BY <1>1, <1>3, <1>4 DEF Pair, PairAt, Agree
<1> QED
  BY <1>2, <1>3, <1>4, <1>5 DEF Pair, SameEnds, SameHandlers

\* set_events() on a pair, unless it would have a socket that is connected wait
\* for its connection again.
LEMMA PairWatch ==
  ASSUME NEW S, NEW c \in Fd, NEW s \in Fd, Pair(S, c, s), NEW f \in {c, s},
         NEW e \in SUBSET Bit,
         f = c \/ S.regs[s].handler.kind # "connect" \/ "OUT" \notin e
  PROVE  LET T == Watch(S, f, e) IN
         /\ Pair(T, c, s)
         /\ SameEnds(S, T, c, s) /\ SameHandlers(S, T, c, s)
<1>1. S \in Server /\ f \in Fd /\ c # s
  BY DEF Pair, PairAt, GoodBut
<1> DEFINE T == Watch(S, f, e)
<1>2. /\ T \in Server
      /\ T.regs[f].place = S.regs[f].place
      /\ T.regs[f].interest = e
      /\ T.regs[f].handler = S.regs[f].handler
      /\ T.regs[f].who = S.regs[f].who
      /\ \A g \in Fd \ {f} : T.regs[g] = S.regs[g]
      /\ T.on_resolve = S.on_resolve
  BY <1>1, WatchIs
<1> HIDE DEF T
<1>3. "OUT" \in T.regs[s].interest => "OUT" \in S.regs[s].interest \/ S.regs[s].handler.kind # "connect"
  BY <1>1, <1>2
<1>4. /\ Pair(T, c, s)
      /\ SameEnds(S, T, c, s) /\ SameHandlers(S, T, c, s)
  BY <1>2, <1>3, PairStays
<1> QED
  BY <1>4 DEF T

\* A read or a write of a pair's socket moves bytes only.
LEMMA PairBuffer ==
  ASSUME NEW S, NEW c \in Fd, NEW s \in Fd, Pair(S, c, s), NEW f \in {c, s},
         NEW content \in {"empty", "some", "full"}
  PROVE  LET T == Buffer(S, f, content) IN
         /\ Pair(T, c, s)
         /\ SameEnds(S, T, c, s) /\ SameHandlers(S, T, c, s)
<1>1. S \in Server /\ f \in Fd /\ c # s
  BY DEF Pair, PairAt, GoodBut
<1> DEFINE T == Buffer(S, f, content)
<1>2. /\ T \in Server
      /\ T.regs[f].place = S.regs[f].place
      /\ T.regs[f].interest = S.regs[f].interest
      /\ T.regs[f].handler = S.regs[f].handler
      /\ T.regs[f].who = S.regs[f].who
      /\ \A g \in Fd \ {f} : T.regs[g] = S.regs[g]
      /\ T.on_resolve = S.on_resolve
  BY <1>1, BufferIs
<1> HIDE DEF T
<1>3. "OUT" \in T.regs[s].interest => "OUT" \in S.regs[s].interest
  BY <1>1, <1>2
<1>4. /\ Pair(T, c, s)
      /\ SameEnds(S, T, c, s) /\ SameHandlers(S, T, c, s)
  BY <1>2, <1>3, PairStays
<1> QED
  BY <1>4 DEF T

\* A pair that is connected has no query.
LEMMA PairIsUnasked ==
  ASSUME NEW S, NEW c \in Fd, NEW s \in Fd, Pair(S, c, s)
  PROVE  Unasked(S, c, s)
  BY DEF Pair, PairAt, Unasked

\* escape_client() on a pair leaves the client alone, the same client.
LEMMA PairEscapes ==
  ASSUME NEW S, NEW c \in Fd, NEW s \in Fd, Unasked(S, c, s)
  PROVE  /\ Alone(Escape(S, <<c, s>>), c)
         /\ Escape(S, <<c, s>>).regs[c].who = S.regs[c].who
<1> DEFINE T == Escape(S, <<c, s>>)
<1>1. /\ S \in Server /\ c # s /\ GoodBut(S, {c, s}) /\ NoQuery(S, c) /\ NoQuery(S, s)
      /\ S.regs[c].place = <<c, s>> /\ S.regs[s].place = <<c, s>>
  BY DEF Unasked, GoodBut
<1>2. /\ T \in Server
      /\ T.regs[c].place = <<c>>
      /\ T.regs[c].who = S.regs[c].who
      /\ T.regs[s].place = <<>>
      /\ \A g \in Fd \ {c, s} : T.regs[g] = S.regs[g]
      /\ T.on_resolve = S.on_resolve
  BY <1>1, EscapeIs
<1> HIDE DEF T
<1>3. GoodBut(T, {c, s}) /\ NoQuery(T, c) /\ NoQuery(T, s)
  BY <1>1, <1>2, PairFrame
<1>4. OkAt(T, s)
  <2>1. ASSUME NEW h \in Host PROVE ~Owes(T, s, h)
    BY <1>2, Places1 DEF Owes
  <2> QED
    BY <1>2, <1>3, <2>1 DEF OkAt, Placed, Accounted, NoQuery
<1> QED
  BY <1>2, <1>3, <1>4 DEF Alone, GoodBut, T

\* A socket on its own is good again once it has a handler for such a socket.
LEMMA AloneOn ==
  ASSUME NEW S, NEW c \in Fd, Alone(S, c), NEW e \in SUBSET Bit, NEW h \in Closures,
         HasLone(h, c, S.regs[c].who), h.kind # "resolving"
  PROVE  Good(On(S, c, e, h))
<1> DEFINE T == On(S, c, e, h)
<1>1. S \in Server /\ GoodBut(S, {c}) /\ S.regs[c].place = <<c>> /\ NoQuery(S, c)
      /\ h \in Handlers
  BY DEF Alone, GoodBut, Handlers
<1>2. /\ T \in Server
      /\ T.regs[c].place = <<c>>
      /\ T.regs[c].handler = h
      /\ T.regs[c].who = S.regs[c].who
      /\ \A g \in Fd \ {c} : T.regs[g] = S.regs[g]
      /\ T.on_resolve = S.on_resolve
  BY <1>1, OnIs
<1> HIDE DEF T
<1>3. GoodBut(T, {c}) /\ NoQuery(T, c)
  BY <1>1, <1>2, OneFrame
<1>4. ASSUME NEW x \in Host PROVE ~Owes(T, c, x)
  BY <1>2, Places1 DEF Owes
<1>5. OkAt(T, c)
  BY <1>2, <1>3, <1>4 DEF OkAt, Placed, LoneAt, Accounted, NoQuery
<1> QED
  BY <1>3, <1>5 DEF Good, GoodBut, T

\* close() of a pair that has no query leaves a good state.
LEMMA PairCloses ==
  ASSUME NEW S, NEW c \in Fd, NEW s \in Fd, Unasked(S, c, s)
  PROVE  Good(Close(S, <<c, s>>))
<1> DEFINE T == Close(S, <<c, s>>)
<1>1. /\ S \in Server /\ c # s /\ GoodBut(S, {c, s}) /\ NoQuery(S, c) /\ NoQuery(S, s)
      /\ S.regs[c].place = <<c, s>> /\ S.regs[s].place = <<c, s>>
      /\ Members(<<c, s>>) = {c, s}
  BY Places1 DEF Unasked, GoodBut
<1>2. /\ T \in Server
      /\ T.regs[c].place = <<>> /\ T.regs[s].place = <<>>
      /\ \A g \in Fd \ {c, s} : T.regs[g] = S.regs[g]
      /\ T.on_resolve = S.on_resolve
  <2>1. /\ T \in Server
        /\ \A g \in Fd \cap Members(<<c, s>>) : T.regs[g].place = <<>>
        /\ \A g \in Fd \ Members(<<c, s>>) : T.regs[g] = S.regs[g]
        /\ T.on_resolve = S.on_resolve
    BY <1>1, CloseIs
  <2> HIDE DEF T
  <2> QED
    BY <1>1, <2>1
<1> HIDE DEF T
<1>3. GoodBut(T, {c, s}) /\ NoQuery(T, c) /\ NoQuery(T, s)
  BY <1>1, <1>2, PairFrame
<1>4. ASSUME NEW h \in Host PROVE ~Owes(T, c, h) /\ ~Owes(T, s, h)
  BY <1>2, Places1 DEF Owes
<1>5. OkAt(T, c) /\ OkAt(T, s)
  BY <1>2, <1>3, <1>4 DEF OkAt, Placed, Accounted, NoQuery
<1> QED
  BY <1>3, <1>5 DEF Good, GoodBut, T

\* close() of a socket on its own leaves a good state.
LEMMA AloneCloses ==
  ASSUME NEW S, NEW c \in Fd, Alone(S, c)
  PROVE  Good(Close(S, <<c>>))
<1> DEFINE T == Close(S, <<c>>)
<1>1. /\ S \in Server /\ GoodBut(S, {c}) /\ NoQuery(S, c)
      /\ S.regs[c].place = <<c>> /\ Members(<<c>>) = {c}
  BY Places1 DEF Alone, GoodBut
<1>2. /\ T \in Server
      /\ T.regs[c].place = <<>>
      /\ \A g \in Fd \ {c} : T.regs[g] = S.regs[g]
      /\ T.on_resolve = S.on_resolve
  BY <1>1, CloseIs
<1> HIDE DEF T
<1>3. GoodBut(T, {c}) /\ NoQuery(T, c)
  BY <1>1, <1>2, OneFrame
<1>4. ASSUME NEW h \in Host PROVE ~Owes(T, c, h)
  BY <1>2, Places1 DEF Owes
<1>5. OkAt(T, c)
  BY <1>2, <1>3, <1>4 DEF OkAt, Placed, Accounted, NoQuery
<1> QED
  BY <1>3, <1>5 DEF Good, GoodBut, T

\* A socket on its own that is not being resolved for has no query.
LEMMA LoneOpens ==
  ASSUME NEW S, Good(S), NEW c \in Fd, S.regs[c].place = <<c>>,
         Timeouts \/ S.regs[c].handler.kind # "resolving"
  PROVE  Alone(S, c)
<1>1. ASSUME NEW h \in Host, ~Timeouts PROVE ~Owes(S, c, h)
  BY <1>1, Places1 DEF Owes
<1> QED
  BY <1>1 DEF Good, GoodBut, Alone, NoQuery, OkAt, Accounted

\* erase() of the only entry that a client may have leaves it with none, and
\* the others with theirs.
LEMMA Forgotten ==
  ASSUME NEW S, Good(S), NEW c \in Fd, NEW x \in Host,
         Timeouts \/ \A h \in Host : Owes(S, c, h) => h = x
  PROVE  LET T == Forget(S, <<c, x>>) IN
         /\ T \in Server /\ T.regs = S.regs /\ NoQuery(T, c)
         /\ HostsRight(T)
         /\ \A D \in SUBSET Fd : c \in D /\ Apart(S, D) => GoodBut(T, D)
         /\ \A d \in Fd : NoQuery(S, d) => NoQuery(T, d)
<1> DEFINE T == Forget(S, <<c, x>>)
<1>1. /\ S \in Server
      /\ T \in Server /\ T.regs = S.regs
      /\ DOMAIN T.on_resolve = DOMAIN S.on_resolve \ {<<c, x>>}
      /\ \A k \in DOMAIN S.on_resolve \ {<<c, x>>} : T.on_resolve[k] = S.on_resolve[k]
  BY ForgetIs DEF Good
<1> HIDE DEF T
<1>2. \A g, h : Asked(T, g, h) <=> Asked(S, g, h) /\ <<g, h>> # <<c, x>>
  BY <1>1 DEF Asked
<1>3. \A g, h : Asked(T, g, h) => T.on_resolve[<<g, h>>] = S.on_resolve[<<g, h>>]
  BY <1>1, <1>2 DEF Asked
<1>4. NoQuery(T, c)
  BY <1>2, SamePlace DEF Good, OkAt, Accounted, NoQuery
<1>5. HostsRight(T)
  BY <1>2, <1>3 DEF Good, HostsRight
<1>6. ASSUME NEW D \in SUBSET Fd, c \in D, Apart(S, D) PROVE GoodBut(T, D)
  <2>1. GoodBut(S, D)
    BY DEF Good, GoodBut
  <2>2. Same(S, T, D)
    BY <1>1, <1>2, <1>3, <1>6, SamePlace DEF Same
  <2> QED
    BY <1>1, <1>5, <1>6, <2>1, <2>2, GoodFrom
<1>7. \A d \in Fd : NoQuery(S, d) => NoQuery(T, d)
  BY <1>2 DEF NoQuery
<1> QED
  BY <1>1, <1>4, <1>5, <1>6, <1>7 DEF T

-----------------------------------------------------------------------------
\* send() keeps a pair a pair.
LEMMA PairSends ==
  ASSUME NEW S, NEW c \in Fd, NEW s \in Fd, Pair(S, c, s), NEW f \in {c, s},
         NEW rq \in RequestTo(S.regs[c].who, S.regs[s].who), NEW next,
         <<"send", next>> \in IF f = s THEN AtServer ELSE AtClient
  PROVE  LET T == Send(S, f, <<c, s>>, rq, next) IN Pair(T, c, s) /\ SameEnds(S, T, c, s)
<1> DEFINE h == Closure("send", <<c, s>>, rq, next)
<1>1. rq \in Request /\ <<c, s>> \in Place /\ next \in {"validate", "transfer", "reuse", "tunnel"}
  BY SamePlace DEF RequestTo, RequestOf, Place, AtServer, AtClient
<1>2. /\ h \in Closures /\ h.it = <<c, s>>
      /\ h.rq \in RequestTo(S.regs[c].who, S.regs[s].who)
      /\ <<h.kind, h.next>> = <<"send", next>>
  BY <1>1 DEF Closures, Closure
<1> HIDE DEF h
<1>3. {"OUT", "RDHUP"} \in SUBSET Bit
  BY DEF Bit
<1>4. LET T == On(S, f, {"OUT", "RDHUP"}, h) IN Pair(T, c, s) /\ SameEnds(S, T, c, s)
  BY <1>2, <1>3, PairOn
<1> QED
  BY <1>4 DEF Send, h

\* read() keeps a pair a pair.
LEMMA PairReads ==
  ASSUME NEW S, NEW c \in Fd, NEW s \in Fd, Pair(S, c, s), NEW f \in {c, s},
         NEW rq \in RequestTo(S.regs[c].who, S.regs[s].who), NEW next,
         <<"read", next>> \in IF f = s THEN AtServer ELSE AtClient
  PROVE  LET T == Read(S, f, <<c, s>>, rq, next) IN Pair(T, c, s) /\ SameEnds(S, T, c, s)
<1> DEFINE h == Closure("read", <<c, s>>, rq, next)
<1>1. rq \in Request /\ <<c, s>> \in Place /\ next \in {"again", "validation"}
  BY SamePlace DEF RequestTo, RequestOf, Place, AtServer, AtClient
<1>2. /\ h \in Closures /\ h.it = <<c, s>>
      /\ h.rq \in RequestTo(S.regs[c].who, S.regs[s].who)
      /\ <<h.kind, h.next>> = <<"read", next>>
  BY <1>1 DEF Closures, Closure
<1> HIDE DEF h
<1>3. {"IN", "RDHUP"} \in SUBSET Bit
  BY DEF Bit
<1>4. LET T == On(S, f, {"IN", "RDHUP"}, h) IN Pair(T, c, s) /\ SameEnds(S, T, c, s)
  BY <1>2, <1>3, PairOn
<1> QED
  BY <1>4 DEF Read, h

\* A handler without a message (relaying, idle, the tunnel) keeps a pair a
\* pair.
LEMMA PairWaits ==
  ASSUME NEW S, NEW c \in Fd, NEW s \in Fd, Pair(S, c, s), NEW f \in {c, s},
         NEW rq \in RequestTo(S.regs[c].who, S.regs[s].who), NEW e \in SUBSET Bit, NEW kind,
         <<kind, "">> \in IF f = s THEN AtServer ELSE AtClient,
         kind = "tunnel" => f = s \/ S.regs[s].handler.kind # "connect"
  PROVE  LET h == Closure(kind, <<c, s>>, rq, "")
             T == On(S, f, e, h)
         IN  Pair(T, c, s) /\ SameEnds(S, T, c, s) /\ Has(T, f, h)
<1> DEFINE h == Closure(kind, <<c, s>>, rq, "")
<1>1. rq \in Request /\ <<c, s>> \in Place /\ kind \in {"relay_in", "relay_out", "idle", "tunnel"}
  BY SamePlace DEF RequestTo, RequestOf, Place, AtServer, AtClient
<1>2. /\ h \in Closures /\ h.it = <<c, s>>
      /\ h.rq \in RequestTo(S.regs[c].who, S.regs[s].who)
      /\ <<h.kind, h.next>> = <<kind, "">>
  BY <1>1 DEF Closures, Closure
<1> HIDE DEF h
<1>3. e \in SUBSET Bit
  BY DEF Bit
<1>5. h.kind = kind
  BY <1>2
<1>4. LET T == On(S, f, e, h) IN
      Pair(T, c, s) /\ SameEnds(S, T, c, s) /\ Has(T, f, h)
  BY <1>2, <1>3, <1>5, PairOn
<1> QED
  BY <1>4 DEF h

\* send() of an error, after which the socket is closed.
LEMMA AloneSends ==
  ASSUME NEW S, NEW c \in Fd, Alone(S, c),
         NEW rq \in RequestOf(S.regs[c].who) \cup {None}
  PROVE  Good(Send(S, c, <<c>>, rq, "close"))
<1> DEFINE h == Closure("send", <<c>>, rq, "close")
<1>1. rq \in Request \cup {None} /\ <<c>> \in Place
  BY DEF RequestOf, Place
<1>2. h \in Closures /\ h.it = <<c>> /\ h.rq = rq /\ h.kind = "send" /\ h.next = "close"
  BY <1>1 DEF Closures, Closure
<1> HIDE DEF h
<1>3. {"OUT", "RDHUP"} \in SUBSET Bit
  BY DEF Bit
<1>4. HasLone(h, c, S.regs[c].who) /\ h.kind # "resolving"
  BY <1>2 DEF HasLone
<1>5. Good(On(S, c, {"OUT", "RDHUP"}, h))
  BY <1>2, <1>3, <1>4, AloneOn
<1> QED
  BY <1>5 DEF Send, h

\* connect_to_server() leaves the client with the one entry that its new
\* handler is owed.
LEMMA AloneAsks ==
  ASSUME NEW S, NEW c \in Fd, Alone(S, c), NEW rq \in RequestOf(S.regs[c].who),
         NEW next \in {"handle", "transfer"}
  PROVE  Good(ConnectToServer(S, c, rq, next))
<1> DEFINE k == <<c, rq.host>>
           entry == [rq |-> rq, next |-> next]
           D == DOMAIN S.on_resolve \cup {k}
           R == [x \in D |-> IF x \in DOMAIN S.on_resolve THEN S.on_resolve[x] ELSE entry]
           A == [S EXCEPT !.queries[k] = @ + 1, !.on_resolve = R]
           h == Closure("resolving", <<c>>, rq, next)
           T == On(A, c, {"RDHUP"}, h)
<1>1. /\ S \in Server /\ GoodBut(S, {c}) /\ S.regs[c].place = <<c>> /\ NoQuery(S, c)
      /\ rq \in Request /\ rq.host \in Host /\ k \in Key
  BY DEF Alone, GoodBut, RequestOf, Request, Key
<1>2. /\ DOMAIN S.on_resolve \in SUBSET Key
      /\ \A x \in DOMAIN S.on_resolve : S.on_resolve[x] \in Entry
  BY <1>1 DEF Server
<1>3. entry \in Entry /\ entry.rq = rq
  BY <1>1 DEF Entry
<1> HIDE DEF entry, k
<1>4. D \in SUBSET Key /\ R \in [D -> Entry]
  BY <1>1, <1>2, <1>3
<1>5. /\ R \in UNION {[E -> Entry] : E \in SUBSET Key}
      /\ DOMAIN R = D
      /\ \A x \in DOMAIN S.on_resolve : R[x] = S.on_resolve[x]
      /\ k \notin DOMAIN S.on_resolve => R[k] = entry
  BY <1>4
<1> HIDE DEF R
<1>6. A \in Server /\ A.regs = S.regs /\ A.on_resolve = R
  <2> DEFINE Q == [S.queries EXCEPT ![k] = @ + 1]
  <2>1. Q \in [Key -> Nat]
    BY <1>1 DEF Server
  <2>2. A = [S EXCEPT !.queries = Q, !.on_resolve = R]
    BY <1>1 DEF Server
  <2> HIDE DEF Q, A
  <2> QED
    BY <1>1, <1>5, <2>1, <2>2 DEF Server
<1> HIDE DEF A
<1>7. /\ h \in Closures /\ h \in Handlers
      /\ h.it = <<c>> /\ h.rq = rq /\ h.kind = "resolving"
  BY <1>1 DEF Closures, Closure, Handlers, Place
<1> HIDE DEF h
<1>18. {"RDHUP"} \in SUBSET Bit
  BY DEF Bit
<1>8. /\ T \in Server
      /\ T.regs[c].place = <<c>> /\ T.regs[c].handler = h
      /\ T.regs[c].who = S.regs[c].who
      /\ \A g \in Fd \ {c} : T.regs[g] = S.regs[g]
      /\ T.on_resolve = R
  BY <1>1, <1>6, <1>7, <1>18, OnIs
<1> HIDE DEF T
<1>9. \A g, x : Asked(T, g, x) <=> Asked(S, g, x) \/ <<g, x>> = k
  BY <1>5, <1>8 DEF Asked
<1>10. \A g, x : Asked(S, g, x) => T.on_resolve[<<g, x>>] = S.on_resolve[<<g, x>>]
  BY <1>5, <1>8 DEF Asked
<1>11. HostsRight(T)
  <2>1. ASSUME NEW g \in Fd, NEW x \in Host, Asked(T, g, x), ~Asked(S, g, x)
        PROVE  T.on_resolve[<<g, x>>].rq.host = x
    <3>1. <<g, x>> = k /\ k \notin DOMAIN S.on_resolve
      BY <1>9, <2>1 DEF Asked
    <3>2. x = rq.host
      BY <3>1, SamePlace DEF k
    <3> QED
      BY <1>3, <1>5, <1>8, <3>1, <3>2
  <2> QED
    BY <1>1, <1>10, <2>1 DEF GoodBut, HostsRight
<1>12. Same(S, T, {c})
  BY <1>8, <1>9, <1>10, SamePlace DEF Same, k
<1>13. Apart(S, {c})
  <2>1. ASSUME NEW a \in Fd, NEW b \in Fd PROVE S.regs[c].place # <<a, b>>
    BY <1>1, Places1
  <2> QED
    BY <2>1 DEF Apart
<1>14. GoodBut(T, {c})
  BY <1>1, <1>8, <1>11, <1>12, <1>13, GoodFrom
<1>15. Placed(T, c)
  BY <1>7, <1>8 DEF Placed, LoneAt, HasLone
<1>16. Accounted(T, c)
  <2>1. ASSUME NEW x \in Host PROVE Owes(T, c, x) <=> x = rq.host
    BY <1>7, <1>8, Places1 DEF Owes
  <2>2. ASSUME ~Timeouts, NEW x \in Host
        PROVE  /\ Asked(T, c, x) <=> x = rq.host
               /\ Asked(T, c, x) => T.on_resolve[<<c, x>>].rq = rq
    <3>1. ~Asked(S, c, x) /\ ~Asked(S, c, rq.host)
      BY <1>1, <2>2 DEF NoQuery
    <3>2. <<c, x>> = k <=> x = rq.host
      BY SamePlace DEF k
    <3>3. R[k] = entry
      BY <1>5, <3>1 DEF Asked, k
    <3> QED
      BY <1>3, <1>8, <1>9, <3>1, <3>2, <3>3
  <2>3. ~Timeouts => rq.from = T.regs[c].who
    BY <1>8 DEF RequestOf
  <2> QED
    BY <2>1, <2>2, <2>3 DEF Accounted
<1>17. ConnectToServer(S, c, rq, next) = T
  BY DEF ConnectToServer, T, A, h, R, entry, k
<1> QED
  BY <1>14, <1>15, <1>16, <1>17 DEF Good, GoodBut, OkAt

\* A request is one for the pair as long as the same two are its ends.
LEMMA EndsKept ==
  ASSUME NEW S, NEW T, NEW c, NEW s, SameEnds(S, T, c, s),
         NEW rq \in RequestTo(S.regs[c].who, S.regs[s].who)
  PROVE  rq \in RequestTo(T.regs[c].who, T.regs[s].who)
  BY DEF SameEnds

\* fast_transfer() keeps a pair a pair.
LEMMA PairTransfers ==
  ASSUME NEW S, NEW c \in Fd, NEW s \in Fd, Pair(S, c, s),
         NEW rq \in RequestTo(S.regs[c].who, S.regs[s].who)
  PROVE  Pair(FastTransfer(S, <<c, s>>, rq), c, s)
<1>1. <<"send", "transfer">> \in AtServer
  BY DEF AtServer
<1>2. Pair(Send(S, s, <<c, s>>, rq, "transfer"), c, s)
  BY <1>1, PairSends
<1>3. <<c, s>>[2] = s
  BY Places1
<1> QED
  BY <1>2, <1>3 DEF FastTransfer

\* handle_client_request() keeps a pair a pair, whether it validates a cached
\* response, sends the request on or answers a CONNECT.
LEMMA PairHandles ==
  ASSUME NEW S, NEW c \in Fd, NEW s \in Fd, Pair(S, c, s),
         NEW rq \in RequestTo(S.regs[c].who, S.regs[s].who)
  PROVE  Pair(HandleRequest(S, <<c, s>>, rq), c, s)
<1>0. c # s /\ <<c, s>>[1] = c /\ <<c, s>>[2] = s
  BY Places1 DEF Pair, PairAt
<1>1. Pair(Send(S, s, <<c, s>>, rq, "validate"), c, s)
  <2>1. <<"send", "validate">> \in AtServer
    BY DEF AtServer
  <2> QED
    BY <2>1, PairSends
<1>2. Pair(Send(S, c, <<c, s>>, rq, "tunnel"), c, s)
  <2>1. <<"send", "tunnel">> \in AtClient
    BY DEF AtClient
  <2> QED
    BY <1>0, <2>1, PairSends
<1>3. Pair(FastTransfer(S, <<c, s>>, rq), c, s)
  BY PairTransfers
<1>4. \/ HandleRequest(S, <<c, s>>, rq) = Send(S, s, <<c, s>>, rq, "validate")
      \/ HandleRequest(S, <<c, s>>, rq) = Send(S, c, <<c, s>>, rq, "tunnel")
      \/ HandleRequest(S, <<c, s>>, rq) = FastTransfer(S, <<c, s>>, rq)
  BY <1>0 DEF HandleRequest
<1> QED
  BY <1>1, <1>2, <1>3, <1>4

\* The connection to the old server is given up and the new one asked for.
LEMMA PairReconnects ==
  ASSUME NEW S, NEW c \in Fd, NEW s \in Fd, Pair(S, c, s),
         NEW rq \in RequestOf(S.regs[c].who), NEW next \in {"handle", "transfer"}
  PROVE  Good(Reconnect(S, <<c, s>>, rq, next))
<1> DEFINE T == Escape(S, <<c, s>>)
<1>1. Alone(T, c) /\ T.regs[c].who = S.regs[c].who
  BY PairIsUnasked, PairEscapes
<1> HIDE DEF T
<1>2. Good(ConnectToServer(T, c, rq, next))
  BY <1>1, AloneAsks
<1>3. <<c, s>>[1] = c
  BY Places1
<1> QED
  BY <1>2, <1>3 DEF Reconnect, T

\* send_server_response() leaves a good state, with the server's socket kept,
\* or closed when the server closes.
LEMMA PairResponds ==
  ASSUME NEW S, NEW c \in Fd, NEW s \in Fd, Pair(S, c, s),
         NEW rq \in RequestTo(S.regs[c].who, S.regs[s].who), NEW closed \in BOOLEAN
  PROVE  Good(SendServerResponse(S, <<c, s>>, rq, closed))
<1>0. c # s /\ <<c, s>>[1] = c /\ <<c, s>>[2] = s
  BY Places1 DEF Pair, PairAt
<1>1. CASE closed
  <2> DEFINE T == Escape(S, <<c, s>>)
  <2>1. Alone(T, c) /\ T.regs[c].who = S.regs[c].who
    BY PairIsUnasked, PairEscapes
  <2> HIDE DEF T
  <2>2. rq \in RequestOf(T.regs[c].who) \cup {None}
    BY <2>1 DEF RequestTo
  <2>3. Good(Send(T, c, <<c>>, rq, "close"))
    BY <2>1, <2>2, AloneSends
  <2> QED
    BY <1>0, <1>1, <2>3 DEF SendServerResponse, T
<1>2. CASE ~closed
  <2> DEFINE T == Buffer(S, s, "empty")
             U == Watch(T, s, {})
  <2>1. Pair(T, c, s) /\ SameEnds(S, T, c, s)
    BY PairBuffer
  <2> HIDE DEF T
  <2>2. Pair(U, c, s) /\ SameEnds(T, U, c, s)
    BY <2>1, {} \in SUBSET Bit, PairWatch
  <2> HIDE DEF U
  <2>3. rq \in RequestTo(U.regs[c].who, U.regs[s].who)
    BY <2>1, <2>2, EndsKept
  <2>4. <<"send", "reuse">> \in AtClient
    BY DEF AtClient
  <2>5. Pair(Send(U, c, <<c, s>>, rq, "reuse"), c, s)
    BY <1>0, <2>2, <2>3, <2>4, PairSends
  <2> QED
    BY <1>0, <1>2, <2>5, PairIsGood DEF SendServerResponse, T, U
<1> QED
  BY <1>1, <1>2

\* What follows a message that was sent to either end keeps a pair a pair.
LEMMA PairGoesOn ==
  ASSUME NEW S, NEW c \in Fd, NEW s \in Fd, Pair(S, c, s),
         NEW rq \in RequestTo(S.regs[c].who, S.regs[s].who),
         NEW next \in {"validate", "transfer", "reuse", "tunnel"}
  PROVE  Pair(Sent(S, <<c, s>>, rq, next), c, s)
<1>0. /\ c # s /\ <<c, s>>[1] = c /\ <<c, s>>[2] = s
      /\ {"IN", "RDHUP"} \in SUBSET Bit /\ {"RDHUP"} \in SUBSET Bit
      /\ {"RDHUP", "IN", "OUT"} \in SUBSET Bit
  BY Places1 DEF Pair, PairAt, Bit
<1>1. CASE next = "validate"
  <2>1. <<"read", "validation">> \in AtServer
    BY DEF AtServer
  <2>2. Pair(Read(S, s, <<c, s>>, rq, "validation"), c, s)
    BY <2>1, PairReads
  <2> QED
    BY <1>0, <1>1, <2>2 DEF Sent, StartValidation
<1>2. CASE next = "transfer"
  <2> DEFINE T == On(S, s, {"IN", "RDHUP"}, Closure("relay_in", <<c, s>>, rq, ""))
  <2>1. <<"relay_in", "">> \in AtServer /\ <<"relay_out", "">> \in AtClient
    BY DEF AtServer, AtClient
  <2>2. Pair(T, c, s) /\ SameEnds(S, T, c, s)
    BY <1>0, <2>1, PairWaits
  <2> HIDE DEF T
  <2>3. rq \in RequestTo(T.regs[c].who, T.regs[s].who)
    BY <2>2, EndsKept
  <2>4. Pair(On(T, c, {"RDHUP"}, Closure("relay_out", <<c, s>>, rq, "")), c, s)
    BY <1>0, <2>1, <2>2, <2>3, PairWaits
  <2> QED
    BY <1>0, <1>2, <2>4 DEF Sent, StartTransfer, T
<1>3. CASE next = "reuse"
  <2> DEFINE T == On(S, s, {"RDHUP"}, Closure("idle", <<c, s>>, rq, ""))
  <2>1. <<"idle", "">> \in AtServer /\ <<"read", "again">> \in AtClient
    BY DEF AtServer, AtClient
  <2>2. Pair(T, c, s) /\ SameEnds(S, T, c, s)
    BY <1>0, <2>1, PairWaits
  <2> HIDE DEF T
  <2>3. rq \in RequestTo(T.regs[c].who, T.regs[s].who)
    BY <2>2, EndsKept
  <2>4. Pair(Read(T, c, <<c, s>>, rq, "again"), c, s)
    BY <1>0, <2>1, <2>2, <2>3, PairReads
  <2> QED
    BY <1>0, <1>3, <2>4 DEF Sent, ReuseConnection, T
<1>4. CASE next = "tunnel"
  <2> DEFINE h == Closure("tunnel", <<c, s>>, rq, "")
             T == On(S, s, {"RDHUP", "IN", "OUT"}, h)
  <2>1. <<"tunnel", "">> \in AtServer /\ <<"tunnel", "">> \in AtClient
    BY DEF AtServer, AtClient
  <2>2. Pair(T, c, s) /\ SameEnds(S, T, c, s) /\ Has(T, s, h)
    BY <1>0, <2>1, PairWaits
  <2> HIDE DEF T
  <2>6. h.kind = "tunnel"
    BY DEF Closure
  <2> HIDE DEF h
  <2>5. T.regs[s].handler.kind # "connect"
    BY <2>2, <2>6 DEF Has
  <2> USE DEF h
  <2>3. rq \in RequestTo(T.regs[c].who, T.regs[s].who)
    BY <2>2, EndsKept
  <2>4. Pair(On(T, c, {"RDHUP", "IN", "OUT"}, h), c, s)
    BY <1>0, <2>1, <2>2, <2>3, <2>5, PairWaits
  <2> QED
    BY <1>0, <1>4, <2>4 DEF Sent, HandleConnect, T
<1> QED
  BY <1>1, <1>2, <1>3, <1>4

-----------------------------------------------------------------------------
\* A socket that is open is alone with its handler or in a pair both of whose
\* ends are right.
LEMMA HandlerPlace ==
  ASSUME NEW S, Good(S), NEW f \in Fd, S.regs[f].place # <<>>
  PROVE  \/ LoneAt(S, f)
         \/ \E c, s \in Fd : f \in {c, s} /\ PairAt(S, c, c, s) /\ PairAt(S, s, c, s)
<1>1. CASE \E c, s \in Fd : PairAt(S, f, c, s)
  <2>1. PICK c \in Fd, s \in Fd : PairAt(S, f, c, s)
    BY <1>1
  <2>2. /\ c # s /\ f \in {c, s}
        /\ S.regs[c].place = <<c, s>> /\ S.regs[s].place = <<c, s>>
    BY <2>1 DEF PairAt
  <2>3. ASSUME NEW g \in {c, s} PROVE PairAt(S, g, c, s)
    <3>1. Placed(S, g) /\ S.regs[g].place = <<c, s>> /\ g \in Fd
      BY <2>2 DEF Good, OkAt
    <3>2. S.regs[g].place # <<>> /\ S.regs[g].place # <<g>>
      BY <3>1, Places1
    <3>3. PICK a \in Fd, b \in Fd : PairAt(S, g, a, b)
      BY <3>1, <3>2 DEF Placed, LoneAt
    <3>4. <<a, b>> = <<c, s>>
      BY <3>1, <3>3 DEF PairAt
    <3> QED
      BY <3>3, <3>4, SamePlace
  <2> QED
    BY <2>2, <2>3
<1>2. CASE LoneAt(S, f)
  BY <1>2
<1> QED
  BY <1>1, <1>2 DEF Good, OkAt, Placed

\* A handler that is not one of connecting or resolving is called on a whole
\* pair, or on a socket alone, which has no query.
LEMMA HandlerOpens ==
  ASSUME NEW S, Good(S), NEW f \in Fd, S.regs[f].place # <<>>,
         S.regs[f].handler.kind \notin {"connect", "dropping", "resolving"}
  PROVE  \/ LoneAt(S, f) /\ Alone(S, f)
         \/ \E c, s \in Fd : f \in {c, s} /\ c # s /\ Pair(S, c, s) /\ PairAt(S, f, c, s)
<1>1. CASE LoneAt(S, f)
  BY <1>1, LoneOpens DEF LoneAt
<1>2. ASSUME NEW c \in Fd, NEW s \in Fd, f \in {c, s}, PairAt(S, c, c, s), PairAt(S, s, c, s)
      PROVE  c # s /\ Pair(S, c, s) /\ PairAt(S, f, c, s)
  <2>1. PairAt(S, f, c, s) /\ c # s
    BY <1>2 DEF PairAt
  <2> QED
    BY <1>2, <2>1, PairOpens
<1> QED
  BY <1>1, <1>2, HandlerPlace

\* What the handler of a socket on its own may be.
LEMMA LoneHandler ==
  ASSUME NEW S, NEW f, LoneAt(S, f)
  PROVE  LET h == S.regs[f].handler IN
         /\ h.it = <<f>> /\ h \in Closures
         /\ h.kind \in {"read", "send", "resolving"}
         /\ h.kind = "read" => h.next = "first"
         /\ h.kind = "send" => h.next = "close"
         /\ h.kind = "resolving" => h.rq \in RequestOf(S.regs[f].who)
  BY DEF LoneAt, HasLone

\* close() of the handler's place leaves a good state.
LEMMA HandlerCloses ==
  ASSUME NEW S, Good(S), NEW f \in Fd, S.regs[f].place # <<>>,
         S.regs[f].handler.kind \notin {"connect", "dropping", "resolving"}
  PROVE  Good(Close(S, S.regs[f].handler.it))
<1>1. CASE LoneAt(S, f) /\ Alone(S, f)
  <2>1. S.regs[f].handler.it = <<f>>
    BY <1>1, LoneHandler
  <2> QED
    BY <1>1, <2>1, AloneCloses
<1>2. ASSUME NEW c \in Fd, NEW s \in Fd, f \in {c, s}, Pair(S, c, s), PairAt(S, f, c, s)
      PROVE  Good(Close(S, S.regs[f].handler.it))
  <2>1. S.regs[f].handler.it = <<c, s>>
    BY <1>2 DEF PairAt, HasPair
  <2>2. Good(Close(S, <<c, s>>))
    BY <1>2, PairIsUnasked, PairCloses
  <2> QED
    BY <2>1, <2>2
<1> QED
  BY <1>1, <1>2, HandlerOpens

\* A state is good for its places, interests, closures, peers' names and
\* queries, whatever else is in it.
LEMMA GoodTouch ==
  ASSUME NEW S, NEW T \in Server, Good(S),
         \A f \in Fd : /\ T.regs[f].place = S.regs[f].place
                       /\ T.regs[f].interest = S.regs[f].interest
                       /\ T.regs[f].handler = S.regs[f].handler
                       /\ T.regs[f].who = S.regs[f].who,
         T.on_resolve = S.on_resolve
  PROVE  Good(T)
<1>1. HostsRight(T)
  BY DEF Good, HostsRight, Asked
<1>2. ASSUME NEW f \in Fd PROVE Placed(T, f)
  <2>1. ASSUME LoneAt(S, f) PROVE LoneAt(T, f)
    BY <2>1 DEF LoneAt
  <2>2. ASSUME NEW c \in Fd, NEW s \in Fd, PairAt(S, f, c, s) PROVE PairAt(T, f, c, s)
    BY <2>2 DEF PairAt, Agree, Quiet
  <2> QED
    BY <2>1, <2>2 DEF Good, OkAt, Placed
<1>3. ASSUME NEW f \in Fd PROVE Accounted(T, f)
  <2>1. ASSUME NEW h \in Host PROVE Owes(T, f, h) <=> Owes(S, f, h)
    BY DEF Owes, Quiet
  <2> QED
    BY <2>1 DEF Good, OkAt, Accounted, Asked
<1> QED
  BY <1>1, <1>2, <1>3 DEF Good, OkAt

\* Taking an answer of the resolver changes the number of answers only.
LEMMA TakenIs ==
  ASSUME NEW S \in Server, NEW k \in Key, S.queries[k] > 0
  PROVE  LET T == [S EXCEPT !.queries[k] = @ - 1] IN
         T \in Server /\ T.regs = S.regs /\ T.on_resolve = S.on_resolve
<1> DEFINE Q == [S.queries EXCEPT ![k] = @ - 1]
<1>1. Q \in [Key -> Nat]
  BY DEF Server
<1>2. [S EXCEPT !.queries[k] = @ - 1] = [S EXCEPT !.queries = Q]
  BY DEF Server
<1> HIDE DEF Q
<1> QED
  BY <1>1, <1>2 DEF Server

\* The cache is of no account to descriptors.
LEMMA CachedIs ==
  ASSUME NEW S \in Server, NEW X \in SUBSET Host
  PROVE  LET T == [S EXCEPT !.cached = X] IN
         T \in Server /\ T.regs = S.regs /\ T.on_resolve = S.on_resolve
  BY DEF Server

\* What a peer does to its end changes neither place nor closure.
LEMMA PeerIs ==
  ASSUME NEW S \in Server, NEW f \in Fd, NEW how \in {"open", "fin", "rst"}
  PROVE  LET T == [S EXCEPT !.regs[f].peer = how] IN
         /\ T \in Server /\ T.on_resolve = S.on_resolve
         /\ \A g \in Fd : /\ T.regs[g].place = S.regs[g].place
                          /\ T.regs[g].interest = S.regs[g].interest
                          /\ T.regs[g].handler = S.regs[g].handler
                          /\ T.regs[g].who = S.regs[g].who
  BY DEF Server, Reg

\* Nothing is open and nothing is asked at the start.
LEMMA BlankIsGood == Good(Blank)
<1>1. /\ <<>> \in UNION {[D -> Entry] : D \in SUBSET Key} /\ DOMAIN <<>> = {}
  <2>1. <<>> \in [{} -> Entry]
    OBVIOUS
  <2> QED
    BY <2>1
<1>2. Blank \in Server
  BY <1>1, FreeIsReg DEF Blank, Server
<1>3. \A f \in Fd : Blank.regs[f] = Free
  BY DEF Blank
<1>4. \A f \in Fd, h \in Host : ~Asked(Blank, f, h)
  BY <1>1 DEF Asked, Blank
<1>5. \A f \in Fd, h \in Host : ~Owes(Blank, f, h)
  BY <1>3, FreeIsReg, Places1 DEF Owes
<1> QED
  BY <1>2, <1>3, <1>4, <1>5, FreeIsReg DEF Good, HostsRight, OkAt, Placed, Accounted

-----------------------------------------------------------------------------
\* The inductive invariant.
Inv == /\ Good(server)
       /\ \A k \in Key : server.queries[k] <= MaxPending
       /\ batch \in Seq(Msg) /\ Len(batch) <= BatchSize
       /\ \A i \in DOMAIN batch : batch[i].src = "timer" => Timeouts
       /\ arrived \subseteq Client

\* One event less in the batch.
LEMMA TailKeeps ==
  ASSUME Inv, batch # <<>>, batch' = Tail(batch)
  PROVE  /\ batch' \in Seq(Msg) /\ Len(batch') <= BatchSize
         /\ \A i \in DOMAIN batch' : batch'[i].src = "timer" => Timeouts
<1>1. /\ Tail(batch) \in Seq(Msg) /\ Len(Tail(batch)) = Len(batch) - 1
      /\ \A i \in 1 .. Len(Tail(batch)) : Tail(batch)[i] = batch[i + 1]
  BY HeadTailProperties DEF Inv
<1>2. Len(batch) \in Nat /\ DOMAIN batch = 1 .. Len(batch) /\ BatchSize \in Nat
  BY BoundAssumption, LenProperties DEF Inv
<1>3. DOMAIN Tail(batch) = 1 .. Len(Tail(batch))
  BY <1>1, LenProperties
<1>4. ASSUME NEW i \in 1 .. Len(Tail(batch))
      PROVE  Tail(batch)[i].src = "timer" => Timeouts
  <2>1. i + 1 \in DOMAIN batch
    BY <1>1, <1>2
  <2> QED
    BY <1>1, <2>1 DEF Inv
<1> QED
  BY <1>1, <1>2, <1>3, <1>4 DEF Inv

\* A handler that returns with a good state keeps the invariant.
LEMMA ReturnKeeps ==
  ASSUME Inv, NEW S, Good(S), Return(S), batch # <<>>, arrived' \subseteq Client
  PROVE  Inv'
<1>1. server' = S /\ batch' = Tail(batch) /\ \A k \in Key : S.queries[k] <= MaxPending
  BY DEF Return
<1>2. Good(server')
  BY <1>1
<1> QED
  BY <1>1, <1>2, TailKeeps DEF Inv, Good, GoodBut

\* ... and so does one that lets no client in.
LEMMA ReturnsKeeps ==
  ASSUME Inv, NEW S, Good(S), Returns(S), batch # <<>>
  PROVE  Inv'
  BY ReturnKeeps DEF Returns, Inv

\* A program that has stopped keeps the state that it stopped in.
LEMMA HaltKeeps ==
  ASSUME Inv, NEW why, Halt(why)
  PROVE  Inv'
<1>1. server' = Blank /\ batch' = <<>> /\ arrived' = arrived
  BY DEF Halt
<1>2. \A k \in Key : Blank.queries[k] <= MaxPending
  BY BoundAssumption DEF Blank
<1>3. <<>> \in Seq(Msg) /\ Len(<<>>) = 0 /\ DOMAIN <<>> = {}
  BY EmptySeq
<1> QED
  BY <1>1, <1>2, <1>3, BlankIsGood, BoundAssumption DEF Inv

-----------------------------------------------------------------------------
(***************************************************************************)
(* One lemma for each action that does more than to return or to close.    *)
(***************************************************************************)
\* Expiry closes sockets in any place with no word to their owner; only then
\* may a query outlive its client.
LEMMA TimerKeeps == Inv /\ Timer => Inv'
<1> SUFFICES ASSUME Inv, Timer PROVE Inv'
  OBVIOUS
<1> DEFINE S == server
<1>1. Event("timer") /\ batch # <<>> /\ Head(batch).src = "timer" /\ Head(batch) = batch[1]
  BY DEF Timer, Event
<1>2. Timeouts
  <2>1. 1 \in DOMAIN batch
    BY <1>1, LenProperties, EmptySeq DEF Inv
  <2> QED
    BY <1>1, <2>1 DEF Inv
<1>3. PICK expired \in SUBSET Places :
        Returns([S EXCEPT !.regs =
                   [f \in Fd |-> IF regs[f].place \in expired THEN Free ELSE regs[f]]])
  BY DEF Timer
<1> DEFINE R == [f \in Fd |-> IF regs[f].place \in expired THEN Free ELSE regs[f]]
           T == [S EXCEPT !.regs = R]
<1>4. S \in Server /\ Good(S)
  BY DEF Inv, Good
<1>5. R \in [Fd -> Reg] /\ \A f \in Fd : R[f] = IF S.regs[f].place \in expired THEN Free ELSE S.regs[f]
  BY <1>4, FreeIsReg DEF Server, regs
<1> HIDE DEF R
<1>6. T \in Server /\ T.regs = R /\ T.on_resolve = S.on_resolve
  BY <1>4, <1>5 DEF Server
<1> HIDE DEF T, S
<1>7. ASSUME NEW f \in Fd PROVE Placed(T, f)
  <2>1. CASE S.regs[f].place \in expired
    BY <1>5, <1>6, <2>1, FreeIsReg DEF Placed
  <2>2. CASE S.regs[f].place \notin expired
    <3>1. T.regs[f] = S.regs[f]
      BY <1>5, <1>6, <2>2
    <3>2. ASSUME LoneAt(S, f) PROVE LoneAt(T, f)
      BY <3>1, <3>2 DEF LoneAt
    <3>3. ASSUME NEW c \in Fd, NEW s \in Fd, PairAt(S, f, c, s) PROVE PairAt(T, f, c, s)
      <4>1. T.regs[c] = S.regs[c] /\ T.regs[s] = S.regs[s]
        BY <1>5, <1>6, <2>2, <3>3 DEF PairAt
      <4> QED
        BY <3>3, <4>1, <3>1 DEF PairAt, Agree, Quiet
    <3> QED
      BY <1>4, <3>1, <3>2, <3>3 DEF Good, OkAt, Placed
  <2> QED
    BY <2>1, <2>2
<1>8. HostsRight(T)
  BY <1>4, <1>6 DEF Good, HostsRight, Asked
<1>9. Good(T)
  BY <1>2, <1>6, <1>7, <1>8 DEF Good, OkAt, Accounted
<1>10. Returns(T)
  BY <1>3 DEF T, R
<1> QED
  BY <1>1, <1>9, <1>10, ReturnsKeeps

\* accept_handler: the new client is alone, with the handler of its first
\* request.
LEMMA AcceptKeeps ==
  ASSUME Inv, NEW c \in Client, NEW f \in Fd, Accept(c, f)
  PROVE  Inv'
<1> DEFINE S == server
           T == Accepted(S, f, c)
           h == Closure("read", <<f>>, None, "first")
<1>1. S \in Server /\ Good(S) /\ S.regs[f].place = <<>> /\ batch # <<>>
  BY DEF Inv, Good, Accept, Closed, regs, Event
<1>2. NoQuery(S, f)
  <2>1. ASSUME NEW x \in Host PROVE ~Owes(S, f, x)
    BY <1>1, Places1 DEF Owes
  <2> QED
    BY <1>1, <2>1 DEF Good, OkAt, Accounted, NoQuery
<1> HIDE DEF S
<1>3. /\ T \in Server
      /\ T.regs[f].place = <<f>> /\ T.regs[f].who = c
      /\ \A g \in Fd \ {f} : T.regs[g] = S.regs[g]
      /\ T.on_resolve = S.on_resolve
  BY <1>1, AcceptedIs
<1> HIDE DEF T
<1>4. GoodBut(S, {f})
  BY <1>1 DEF Good, GoodBut
<1>5. Alone(T, f)
  BY <1>1, <1>2, <1>3, <1>4, OneFrame DEF Alone
<1>6. /\ h \in Closures /\ HasLone(h, f, T.regs[f].who) /\ h.kind # "resolving"
      /\ {"IN", "RDHUP"} \in SUBSET Bit
  BY DEF Closures, Closure, HasLone, Place, Bit
<1> HIDE DEF h
<1>7. Good(On(T, f, {"IN", "RDHUP"}, h))
  BY <1>5, <1>6, AloneOn
<1>8. Return(On(T, f, {"IN", "RDHUP"}, h)) /\ arrived' = arrived \cup {c}
  BY DEF Accept, Read, T, S, h
<1>9. arrived' \subseteq Client
  BY <1>8 DEF Inv
<1> QED
  BY <1>1, <1>7, <1>8, <1>9, ReturnKeeps

\* The state after get_ip() is as good as the one before.
LEMMA TakenIsGood ==
  ASSUME Inv, NEW k \in Key, server.queries[k] > 0
  PROVE  /\ Good(Taken(k)) /\ Taken(k).regs = server.regs
         /\ Taken(k).on_resolve = server.on_resolve
<1>1. server \in Server /\ Good(server)
  BY DEF Inv, Good
<1>2. /\ Taken(k) \in Server /\ Taken(k).regs = server.regs
      /\ Taken(k).on_resolve = server.on_resolve
  BY <1>1, TakenIs DEF Taken
<1> QED
  BY <1>1, <1>2, GoodTouch

\* An answer that finds its client on its own: it is owed this one query only,
\* and the request is its own and for this host.
LEMMA ClientOfAnswer ==
  ASSUME NEW S, Good(S), NEW c \in Fd, NEW x \in Host, Asked(S, c, x), S.regs[c].place = <<c>>
  PROVE  /\ Timeouts \/ \A h \in Host : Owes(S, c, h) <=> h = x
         /\ S.on_resolve[<<c, x>>].rq \in RequestTo(S.regs[c].who, x)
<1>1. Timeouts \/ Owes(S, c, x)
  BY DEF Good, OkAt, Accounted
<1>2. \A s : S.regs[c].place # <<c, s>>
  BY Places1
<1>3. S.on_resolve[<<c, x>>] \in Entry
  BY DEF Good, Server, Asked
<1>4. S.on_resolve[<<c, x>>].rq.host = x
  BY DEF Good, HostsRight
<1>5. Timeouts \/ S.on_resolve[<<c, x>>].rq.from = S.regs[c].who
  BY DEF Good, OkAt, Accounted
<1> QED
  BY <1>1, <1>2, <1>3, <1>4, <1>5 DEF Owes, Entry, RequestTo, RequestOf

\* resolver_handler, no such host: the entry is erased and the error sent.
LEMMA AnswerNotFoundKeeps ==
  ASSUME Inv, NEW k \in Key, AnswerNotFound(k)
  PROVE  Inv'
<1> DEFINE c == k[1]
           x == k[2]
           S == Taken(k)
           T == Forget(S, k)
<1>1. /\ c \in Fd /\ x \in Host /\ k = <<c, x>> /\ batch # <<>>
      /\ server.queries[k] > 0
  BY DEF AnswerNotFound, Answer, Event, Key
<1>2. /\ Good(S) /\ Asked(S, c, x) /\ S.regs[c].place = <<c>>
  BY <1>1, TakenIsGood DEF AnswerNotFound, Waits, Asked, regs
<1> HIDE DEF S
<1>3. Timeouts \/ \A h \in Host : Owes(S, c, h) => h = x
  BY <1>1, <1>2, ClientOfAnswer
<1>4. Apart(S, {c})
  <2>1. ASSUME NEW a \in Fd, NEW b \in Fd PROVE S.regs[c].place # <<a, b>>
    BY <1>2, Places1
  <2> QED
    BY <2>1 DEF Apart
<1> HIDE DEF c, x
<1>5. T \in Server /\ T.regs = S.regs /\ NoQuery(T, c) /\ GoodBut(T, {c})
  BY <1>1, <1>2, <1>3, <1>4, Forgotten
<1> HIDE DEF T
<1>6. Alone(T, c)
  BY <1>2, <1>5 DEF Alone
<1>7. Good(Send(T, c, <<c>>, None, "close"))
  BY <1>1, <1>6, AloneSends
<1>8. Returns(Send(T, c, <<c>>, None, "close"))
  BY DEF AnswerNotFound, Send404, T, S, c
<1> QED
  BY <1>1, <1>7, <1>8, ReturnsKeeps

\* resolver_handler: the client's socket and the new one are a pair that is
\* connecting, and the entry stays until it is connected.
LEMMA AnswerFoundKeeps ==
  ASSUME Inv, NEW k \in Key, NEW s \in Fd, NEW n \in 1 .. MaxIps, AnswerFound(k, s, n)
  PROVE  Inv'
<1> DEFINE c == k[1]
           x == k[2]
           it == <<c, s>>
           S == Taken(k)
           J == Joined(S, c, s, x)
           hc == Connecting("dropping", it, x, n)
           hs == Connecting("connect", it, x, n)
           V == On(J, c, {"RDHUP"}, hc)
           W == On(V, s, {"OUT"}, hs)
<1>1. /\ c \in Fd /\ x \in Host /\ k = <<c, x>> /\ batch # <<>>
      /\ server.queries[k] > 0
  BY DEF AnswerFound, Answer, Event, Key
<1>2. /\ Good(S) /\ Asked(S, c, x) /\ S.regs[c].place = <<c>> /\ S.regs[s].place = <<>>
  BY <1>1, TakenIsGood DEF AnswerFound, Waits, Asked, regs, Closed
<1>3. Returns(W)
  BY DEF AnswerFound
<1>4. c # s
  BY <1>2, Places1
<1>5. /\ hc \in ConnectClosures /\ hc \in Handlers /\ hc.it = <<c, s>> /\ hc.host = x
      /\ hc.kind = "dropping"
      /\ hs \in ConnectClosures /\ hs \in Handlers /\ hs.it = <<c, s>> /\ hs.host = x
      /\ hs.kind = "connect"
      /\ {"RDHUP"} \in SUBSET Bit /\ {"OUT"} \in SUBSET Bit
  BY <1>1, BoundAssumption DEF Connecting, ConnectClosures, Handlers, Place, Bit
<1> HIDE DEF S, hc, hs
<1>6. S \in Server
  BY <1>2 DEF Good
<1> HIDE DEF x, c
<1>7. /\ J \in Server
      /\ J.regs[c].place = <<c, s>> /\ J.regs[s].place = <<c, s>>
      /\ J.regs[c].who = S.regs[c].who /\ J.regs[s].who = x
      /\ \A g \in Fd \ {c, s} : J.regs[g] = S.regs[g]
      /\ J.on_resolve = S.on_resolve
  BY <1>1, <1>4, <1>6, JoinedIs
<1> HIDE DEF J
<1>8. /\ V \in Server
      /\ V.regs[c].place = J.regs[c].place
      /\ V.regs[c].handler = hc
      /\ V.regs[c].who = J.regs[c].who
      /\ \A g \in Fd \ {c} : V.regs[g] = J.regs[g]
      /\ V.on_resolve = J.on_resolve
  BY <1>1, <1>5, <1>7, OnIs
<1> HIDE DEF V
<1>9. /\ W \in Server
      /\ W.regs[s].place = V.regs[s].place
      /\ W.regs[s].interest = {"OUT"}
      /\ W.regs[s].handler = hs
      /\ W.regs[s].who = V.regs[s].who
      /\ \A g \in Fd \ {s} : W.regs[g] = V.regs[g]
      /\ W.on_resolve = V.on_resolve
  BY <1>5, <1>8, OnIs
<1> HIDE DEF W, it
<1>10. /\ W.regs[c].place = <<c, s>> /\ W.regs[s].place = <<c, s>>
       /\ W.regs[c].handler = hc /\ W.regs[s].handler = hs
       /\ W.regs[c].who = S.regs[c].who /\ W.regs[s].who = x
       /\ \A g \in Fd \ {c, s} : W.regs[g] = S.regs[g]
       /\ W.on_resolve = S.on_resolve
  BY <1>1, <1>4, <1>7, <1>8, <1>9
<1>11. GoodBut(S, {c, s})
  BY <1>2 DEF Good, GoodBut
<1>12. NoQuery(S, s)
  <2>1. ASSUME NEW h \in Host PROVE ~Owes(S, s, h)
    BY <1>2, Places1 DEF Owes
  <2> QED
    BY <1>2, <2>1 DEF Good, OkAt, Accounted, NoQuery
<1>13. GoodBut(W, {c, s}) /\ NoQuery(W, s)
  BY <1>1, <1>2, <1>9, <1>10, <1>11, <1>12, PairFrame
<1>14. Agree(W, c, s)
  BY <1>5, <1>10 DEF Agree
<1>15. PairAt(W, c, c, s) /\ PairAt(W, s, c, s)
  BY <1>1, <1>4, <1>5, <1>10, <1>14 DEF PairAt, HasPair
<1>16. ~Quiet(W, s)
  BY <1>5, <1>9 DEF Quiet
<1>17. Accounted(W, c)
  <2>1. Timeouts \/ \A h \in Host : Owes(S, c, h) <=> h = x
    BY <1>1, <1>2, ClientOfAnswer
  <2>2. ASSUME NEW h \in Host PROVE Owes(W, c, h) <=> h = x
    BY <1>5, <1>10, <1>16, Places1, SamePlace DEF Owes
  <2>3. Accounted(S, c)
    BY <1>1, <1>2 DEF Good, OkAt
  <2> QED
    BY <1>10, <2>1, <2>2, <2>3 DEF Accounted, Asked
<1>18. Accounted(W, s)
  <2>1. ASSUME NEW h \in Host PROVE ~Owes(W, s, h)
    <3>1. \A t : <<c, s>> # <<s, t>>
      BY <1>4, SamePlace
    <3> QED
      BY <1>10, <3>1, Places1 DEF Owes
  <2> QED
    BY <1>13, <2>1 DEF Accounted, NoQuery
<1>19. Good(W)
  BY <1>1, <1>13, <1>15, <1>17, <1>18 DEF Good, GoodBut, OkAt, Placed
<1> QED
  BY <1>1, <1>3, <1>19, ReturnsKeeps

\* A client that leaves while its host is looked for: its entry is erased, and
\* it is closed.
LEMMA ClientLeavesQueryKeeps ==
  ASSUME Inv, NEW f \in Fd, ClientLeavesQuery(f)
  PROVE  Inv'
<1> DEFINE S == server
           x == H(f).rq.host
           T == Forget(S, <<f, x>>)
<1>1. /\ Good(S) /\ S.regs[f].place # <<>> /\ S.regs[f].handler.kind = "resolving"
      /\ batch # <<>>
      /\ \/ Returns(Close(T, H(f).it))
         \/ Halt("no entry")
  BY DEF Inv, ClientLeavesQuery, Handles, Used, Closed, regs, H, Event
<1>2. LoneAt(S, f)
  <2>1. ASSUME NEW c \in Fd, NEW s \in Fd, PairAt(S, f, c, s) PROVE FALSE
    BY <1>1, <2>1 DEF PairAt, HasPair, AtServer, AtClient
  <2> QED
    BY <1>1, <2>1 DEF Good, OkAt, Placed
<1>3. /\ S.regs[f].place = <<f>> /\ S.regs[f].handler.it = <<f>>
      /\ S.regs[f].handler.rq \in Request
  BY <1>1, <1>2 DEF LoneAt, HasLone, RequestOf
<1>4. x = S.regs[f].handler.rq.host /\ x \in Host /\ H(f).it = <<f>>
  BY <1>3 DEF H, regs, Request
<1> HIDE DEF S, x
<1>5. \A h \in Host : Owes(S, f, h) => h = x
  <2>1. \A s : S.regs[f].place # <<f, s>>
    BY <1>3, Places1
  <2> QED
    BY <1>4, <2>1 DEF Owes
<1>6. Apart(S, {f})
  <2>1. ASSUME NEW a \in Fd, NEW b \in Fd PROVE S.regs[f].place # <<a, b>>
    BY <1>3, Places1
  <2> QED
    BY <2>1 DEF Apart
<1>7. T \in Server /\ T.regs = S.regs /\ NoQuery(T, f) /\ GoodBut(T, {f})
  <2>1. /\ T \in Server /\ T.regs = S.regs /\ NoQuery(T, f)
        /\ \A D \in SUBSET Fd : f \in D /\ Apart(S, D) => GoodBut(T, D)
    <3>1. /\ Good(S) /\ x \in Host
          /\ Timeouts \/ \A h \in Host : Owes(S, f, h) => h = x
      BY <1>1, <1>4, <1>5
    <3> QED
      BY <3>1, Forgotten
  <2> HIDE DEF T
  <2>2. {f} \in SUBSET Fd /\ f \in {f}
    OBVIOUS
  <2> QED
    BY <1>6, <2>1, <2>2
<1> HIDE DEF T
<1>8. Alone(T, f)
  BY <1>3, <1>7 DEF Alone
<1>9. Good(Close(T, <<f>>))
  BY <1>8, AloneCloses
<1> QED
  BY <1>1, <1>4, <1>9, ReturnsKeeps, HaltKeeps

\* The query of a pair that is connecting is forgotten: nothing is asked by it
\* any more, whatever its handlers are.
LEMMA PairForgets ==
  ASSUME NEW S, Good(S), NEW c \in Fd, NEW s \in Fd,
         PairAt(S, c, c, s), PairAt(S, s, c, s), NEW x \in Host, x = S.regs[s].who
  PROVE  LET T == Forget(S, <<c, x>>) IN Unasked(T, c, s) /\ T.regs = S.regs
<1> DEFINE T == Forget(S, <<c, x>>)
<1>1. c # s /\ S.regs[c].place = <<c, s>> /\ S.regs[s].place = <<c, s>>
  BY DEF PairAt
<1>2. ASSUME NEW h \in Host, Owes(S, c, h) PROVE h = x
  <2>1. S.regs[c].place # <<c>>
    BY <1>1, Places1
  <2>2. PICK t \in Fd : /\ S.regs[c].place = <<c, t>>
                        /\ ~Quiet(S, t) /\ S.regs[t].handler.host = h
    BY <1>2, <2>1 DEF Owes
  <2>3. t = s
    BY <1>1, <2>2, SamePlace
  <2>4. S.regs[s].handler.kind = "connect"
    BY <2>2, <2>3 DEF Quiet
  <2>5. S.regs[s].handler.host = S.regs[s].who
    BY <2>4 DEF PairAt, HasPair, AtServer
  <2> QED
    BY <2>2, <2>3, <2>5
<1>3. NoQuery(S, s)
  <2>1. ASSUME NEW h \in Host PROVE ~Owes(S, s, h)
    <3>1. \A t : <<c, s>> # <<s, t>>
      BY <1>1, SamePlace
    <3> QED
      BY <1>1, <3>1, Places1 DEF Owes
  <2> QED
    BY <2>1 DEF Good, OkAt, Accounted, NoQuery
<1>4. Apart(S, {c, s})
  BY <1>1, SamePlace DEF Apart
<1>5. /\ T \in Server /\ T.regs = S.regs /\ NoQuery(T, c) /\ NoQuery(T, s)
      /\ GoodBut(T, {c, s})
  BY <1>2, <1>3, <1>4, Forgotten
<1> HIDE DEF T
<1> QED
  BY <1>1, <1>5 DEF Unasked, T

\* The handlers of connecting are those of a whole pair, which hold its place
\* and the host of its server.
LEMMA ConnectHandler ==
  ASSUME NEW S, Good(S), NEW f \in Fd, S.regs[f].place # <<>>,
         S.regs[f].handler.kind \in {"connect", "dropping"}
  PROVE  \E c, s \in Fd :
           /\ PairAt(S, c, c, s) /\ PairAt(S, s, c, s) /\ c # s
           /\ f = (IF S.regs[f].handler.kind = "connect" THEN s ELSE c)
           /\ S.regs[f].handler.it = <<c, s>>
           /\ S.regs[f].handler.host = S.regs[s].who
           /\ S.regs[s].who \in Host
<1>1. ~LoneAt(S, f)
  BY DEF LoneAt, HasLone
<1>2. PICK c \in Fd, s \in Fd : f \in {c, s} /\ PairAt(S, c, c, s) /\ PairAt(S, s, c, s)
  BY <1>1, HandlerPlace
<1>3. PairAt(S, f, c, s)
  BY <1>2
<1>4. HasPair(S.regs[f].handler, f, c, s, S.regs[c].who, S.regs[s].who) /\ c # s
  BY <1>3 DEF PairAt
<1>5. /\ S.regs[f].handler.it = <<c, s>>
      /\ S.regs[f].handler \in ConnectClosures
      /\ S.regs[f].handler.host = S.regs[s].who
      /\ S.regs[f].handler.kind = IF f = s THEN "connect" ELSE "dropping"
  BY <1>4 DEF HasPair, AtServer, AtClient
<1>6. S.regs[s].who \in Host
  BY <1>5 DEF ConnectClosures
<1> QED
  BY <1>2, <1>4, <1>5, <1>6

\* A client that leaves while it is connected to a server: the entry goes, and
\* both sockets.
LEMMA ClientLeavesConnectKeeps ==
  ASSUME Inv, NEW f \in Fd, ClientLeavesConnect(f)
  PROVE  Inv'
<1> DEFINE S == server
           h == S.regs[f].handler
           T == Forget(S, <<h.it[1], h.host>>)
<1>1. /\ Good(S) /\ S.regs[f].place # <<>> /\ h.kind = "dropping" /\ batch # <<>>
      /\ Returns(Close(T, h.it))
  BY DEF Inv, ClientLeavesConnect, Handles, Used, Closed, regs, H, Event
<1>2. PICK c \in Fd, s \in Fd :
        /\ PairAt(S, c, c, s) /\ PairAt(S, s, c, s)
        /\ h.it = <<c, s>> /\ h.host = S.regs[s].who /\ S.regs[s].who \in Host
  BY <1>1, ConnectHandler
<1>3. T = Forget(S, <<c, S.regs[s].who>>)
  BY <1>2, Places1
<1>4. Unasked(T, c, s)
  BY <1>1, <1>2, <1>3, PairForgets
<1> HIDE DEF T
<1>5. Good(Close(T, <<c, s>>))
  BY <1>4, PairCloses
<1>6. Good(Close(T, h.it))
  BY <1>2, <1>5
<1> QED
  BY <1>1, <1>6, ReturnsKeeps

\* A refusal with an address left: the pair is connecting as before.
LEMMA ConnectNextAddressKeeps ==
  ASSUME Inv, NEW f \in Fd, ConnectNextAddress(f)
  PROVE  Inv'
<1> DEFINE T == [server EXCEPT !.regs[f].peer = "open"]
<1>1. server \in Server /\ Good(server) /\ batch # <<>> /\ Returns(T)
  BY DEF Inv, Good, ConnectNextAddress, Handles, Event
<1>2. /\ T \in Server /\ T.on_resolve = server.on_resolve
      /\ \A g \in Fd : /\ T.regs[g].place = server.regs[g].place
                       /\ T.regs[g].interest = server.regs[g].interest
                       /\ T.regs[g].handler = server.regs[g].handler
                       /\ T.regs[g].who = server.regs[g].who
  BY <1>1, PeerIs
<1> HIDE DEF T
<1>3. Good(T)
  BY <1>1, <1>2, GoodTouch
<1> QED
  BY <1>1, <1>3, ReturnsKeeps

\* A refusal of the last address: the entry goes, the client is told.
LEMMA ConnectFailsKeeps ==
  ASSUME Inv, NEW f \in Fd, ConnectFails(f)
  PROVE  Inv'
<1> DEFINE S == server
           h == S.regs[f].handler
           T == Forget(S, Query(f))
           U == Escape(T, h.it)
<1>1. /\ Good(S) /\ S.regs[f].place # <<>> /\ h.kind = "connect" /\ batch # <<>>
      /\ \/ Returns(Send404(U, h.it[1]))
         \/ Halt("no entry")
  BY DEF Inv, ConnectFails, Handles, Used, Closed, regs, H, Event
<1>2. PICK c \in Fd, s \in Fd :
        /\ PairAt(S, c, c, s) /\ PairAt(S, s, c, s)
        /\ h.it = <<c, s>> /\ h.host = S.regs[s].who /\ S.regs[s].who \in Host
  BY <1>1, ConnectHandler
<1>3. Query(f) = <<c, S.regs[s].who>> /\ h.it[1] = c
  BY <1>2, Places1 DEF Query, H, regs
<1>4. Unasked(T, c, s)
  BY <1>1, <1>2, <1>3, PairForgets
<1> HIDE DEF T
<1>5. Alone(U, c)
  BY <1>2, <1>4, PairEscapes
<1> HIDE DEF U
<1>6. Good(Send(U, c, <<c>>, None, "close"))
  BY <1>5, AloneSends
<1>7. Good(Send404(U, h.it[1]))
  BY <1>3, <1>6 DEF Send404
<1> QED
  BY <1>1, <1>7, ReturnsKeeps, HaltKeeps

\* connect_handler, connected: the entry goes, and the request is handled on
\* the pair.
LEMMA ConnectedKeeps ==
  ASSUME Inv, NEW f \in Fd, Connected(f)
  PROVE  Inv'
<1> DEFINE S == server
           h == S.regs[f].handler
           T == Forget(S, Query(f))
           U == Watch(T, h.it[1], {})
           W == Watch(U, h.it[2], {})
           entry == S.on_resolve[Query(f)]
<1>1. /\ Good(S) /\ S.regs[f].place # <<>> /\ h.kind = "connect" /\ batch # <<>>
      /\ \/ Returns(Proceed(W, h.it, entry)) /\ Query(f) \in DOMAIN S.on_resolve
         \/ Halt("no entry")
  BY DEF Inv, Connected, Handles, Used, Closed, regs, H, Event, Waits
<1>2. PICK c \in Fd, s \in Fd :
        /\ PairAt(S, c, c, s) /\ PairAt(S, s, c, s) /\ c # s
        /\ h.it = <<c, s>> /\ h.host = S.regs[s].who /\ S.regs[s].who \in Host
  BY <1>1, ConnectHandler
<1> DEFINE x == S.regs[s].who
<1>3. Query(f) = <<c, x>> /\ h.it[1] = c /\ h.it[2] = s
  BY <1>2, Places1 DEF Query, H, regs
<1>4. Unasked(T, c, s) /\ T.regs = S.regs
  <2>1. T = Forget(S, <<c, S.regs[s].who>>)
    BY <1>3
  <2>2. LET F == Forget(S, <<c, S.regs[s].who>>) IN Unasked(F, c, s) /\ F.regs = S.regs
    BY <1>1, <1>2, PairForgets
  <2> QED
    BY <2>1, <2>2
<1> HIDE DEF T
<1>5. /\ GoodBut(T, {c, s}) /\ T.regs[c].place = <<c, s>> /\ T.regs[s].place = <<c, s>>
      /\ NoQuery(T, c) /\ NoQuery(T, s) /\ T \in Server /\ {} \in SUBSET Bit
  BY <1>4 DEF Unasked, GoodBut
<1>6. /\ U \in Server
      /\ U.regs[c].place = T.regs[c].place /\ U.regs[c].who = T.regs[c].who
      /\ U.regs[c].handler = T.regs[c].handler
      /\ \A g \in Fd \ {c} : U.regs[g] = T.regs[g]
      /\ U.on_resolve = T.on_resolve
  BY <1>3, <1>5, WatchIs
<1> HIDE DEF U
<1>7. /\ W \in Server
      /\ W.regs[s].place = U.regs[s].place /\ W.regs[s].who = U.regs[s].who
      /\ W.regs[s].handler = U.regs[s].handler
      /\ W.regs[s].interest = {}
      /\ \A g \in Fd \ {s} : W.regs[g] = U.regs[g]
      /\ W.on_resolve = U.on_resolve
  BY <1>3, <1>5, <1>6, WatchIs
<1> HIDE DEF W
<1>8. /\ \A g \in Fd \ {c, s} : W.regs[g] = T.regs[g]
      /\ W.on_resolve = T.on_resolve
      /\ W.regs[c].place = <<c, s>> /\ W.regs[s].place = <<c, s>>
      /\ W.regs[c].handler = S.regs[c].handler /\ W.regs[s].handler = S.regs[s].handler
      /\ W.regs[c].who = S.regs[c].who /\ W.regs[s].who = S.regs[s].who
  BY <1>2, <1>4, <1>5, <1>6, <1>7
<1>9. GoodBut(W, {c, s}) /\ NoQuery(W, c) /\ NoQuery(W, s)
  BY <1>5, <1>7, <1>8, PairFrame
<1>10. Quiet(W, s)
  BY <1>7 DEF Quiet
<1>11. Agree(W, c, s)
  BY <1>2, <1>8, <1>10 DEF Agree, PairAt
<1>12. PairAt(W, c, c, s) /\ PairAt(W, s, c, s)
  BY <1>2, <1>8, <1>11 DEF PairAt
<1>13. Pair(W, c, s)
  BY <1>9, <1>10, <1>12 DEF Pair
<1>14. ASSUME Query(f) \in DOMAIN S.on_resolve
       PROVE  entry.rq \in RequestTo(W.regs[c].who, W.regs[s].who)
  <2>1. Asked(S, c, x) /\ entry \in Entry
    <3>1. S \in Server
      BY <1>1 DEF Good
    <3>2. \A k \in DOMAIN S.on_resolve : S.on_resolve[k] \in Entry
      BY <3>1 DEF Server
    <3> QED
      BY <1>3, <1>14, <3>2 DEF Asked
  <2>2. entry.rq.host = x
    BY <1>1, <1>2, <1>3, <2>1 DEF Good, HostsRight
  <2>3. Timeouts \/ entry.rq.from = S.regs[c].who
    BY <1>1, <1>2, <1>3, <2>1 DEF Good, OkAt, Accounted
  <2>4. W.regs[c].who = S.regs[c].who /\ W.regs[s].who = x
    BY <1>8
  <2> HIDE DEF entry, x
  <2> QED
    BY <2>1, <2>2, <2>3, <2>4 DEF RequestTo, RequestOf, Entry
<1>15. ASSUME Query(f) \in DOMAIN S.on_resolve PROVE Good(Proceed(W, h.it, entry))
  <2>1. Pair(HandleRequest(W, <<c, s>>, entry.rq), c, s)
    BY <1>13, <1>14, <1>15, PairHandles
  <2>2. Pair(FastTransfer(W, <<c, s>>, entry.rq), c, s)
    BY <1>13, <1>14, <1>15, PairTransfers
  <2>3. \/ Proceed(W, h.it, entry) = HandleRequest(W, <<c, s>>, entry.rq)
        \/ Proceed(W, h.it, entry) = FastTransfer(W, <<c, s>>, entry.rq)
    BY <1>2 DEF Proceed
  <2> QED
    BY <2>1, <2>2, <2>3, PairIsGood
<1> QED
  BY <1>1, <1>15, ReturnsKeeps, HaltKeeps

\* What a handler that belongs to a connected pair finds: its place, a request
\* of the client for this server, and the side it is of.
LEMMA PairOpened ==
  ASSUME NEW S, Good(S), NEW f \in Fd, S.regs[f].place # <<>>,
         LET h == S.regs[f].handler IN
         /\ h.kind \notin {"connect", "dropping", "resolving"}
         /\ h.kind = "read" => h.next # "first"
         /\ h.kind = "send" => h.next # "close"
  PROVE  LET h == S.regs[f].handler IN
         \E c, s \in Fd :
           /\ c # s /\ f \in {c, s} /\ Pair(S, c, s) /\ h.it = <<c, s>>
           /\ h.rq \in RequestTo(S.regs[c].who, S.regs[s].who)
           /\ h.kind = "relay_in" => f = s
           /\ h.kind = "relay_out" => f = c
           /\ h.kind = "read" => /\ h.next = "again" => f = c
                                 /\ h.next = "validation" => f = s
           /\ h.kind = "send" => h.next \in {"validate", "transfer", "reuse", "tunnel"}
           /\ h.kind = "tunnel" => S.regs[s].handler.kind # "connect"
<1> DEFINE h == S.regs[f].handler
<1>1. ~LoneAt(S, f)
  BY LoneHandler
<1>2. PICK c \in Fd, s \in Fd : f \in {c, s} /\ c # s /\ Pair(S, c, s) /\ PairAt(S, f, c, s)
  BY <1>1, HandlerOpens
<1>3. HasPair(h, f, c, s, S.regs[c].who, S.regs[s].who) /\ Agree(S, c, s)
  BY <1>2 DEF PairAt
<1>4. /\ h.it = <<c, s>> /\ h.rq \in RequestTo(S.regs[c].who, S.regs[s].who)
      /\ <<h.kind, h.next>> \in IF f = s THEN AtServer ELSE AtClient
  BY <1>3 DEF HasPair
<1>5. h.kind = "tunnel" => S.regs[s].handler.kind # "connect"
  <2>1. CASE f = s
    BY <2>1
  <2>2. CASE f = c
    BY <1>3, <2>2 DEF Agree
  <2> QED
    BY <1>2, <2>1, <2>2
<1>6. /\ h.kind = "relay_in" => f = s
      /\ h.kind = "relay_out" => f = c
      /\ h.kind = "read" => /\ h.next = "again" => f = c
                            /\ h.next = "validation" => f = s
      /\ h.kind = "send" => h.next \in {"validate", "transfer", "reuse", "tunnel"}
  <2> HIDE DEF h
  <2>1. CASE f = s
    BY <1>2, <1>4, <2>1 DEF AtServer
  <2>2. CASE f # s
    BY <1>2, <1>4, <2>2 DEF AtClient
  <2> QED
    BY <2>1, <2>2
<1> QED
  BY <1>2, <1>4, <1>5, <1>6

\* fast_transfer, a part of the response was read: the client's end is to write
\* it.
LEMMA RelayPartKeeps ==
  ASSUME Inv, NEW f \in Fd, RelayPart(f)
  PROVE  Inv'
<1> DEFINE S == server
           h == S.regs[f].handler
           T == Buffer(S, f, "some")
           U == Watch(T, h.it[1], {"OUT", "RDHUP"})
<1>1. /\ Good(S) /\ S.regs[f].place # <<>> /\ h.kind = "relay_in" /\ batch # <<>>
      /\ Returns(U)
  BY DEF Inv, RelayPart, Reads, Handles, Used, Closed, regs, H, Event
<1>2. PICK c \in Fd, s \in Fd : f \in {c, s} /\ Pair(S, c, s) /\ h.it = <<c, s>>
  BY <1>1, PairOpened
<1>3. h.it[1] = c /\ {"OUT", "RDHUP"} \in SUBSET Bit
  BY <1>2, Places1 DEF Bit
<1>4. Pair(T, c, s)
  BY <1>2, PairBuffer
<1> HIDE DEF T
<1>5. Pair(U, c, s)
  BY <1>3, <1>4, PairWatch
<1> QED
  BY <1>1, <1>5, PairIsGood, ReturnsKeeps

\* What is in the cache is of no account here.
LEMMA PairCaches ==
  ASSUME NEW S, NEW c \in Fd, NEW s \in Fd, Pair(S, c, s), NEW X \in SUBSET Host
  PROVE  LET T == [S EXCEPT !.cached = X] IN Pair(T, c, s) /\ SameEnds(S, T, c, s)
<1> DEFINE T == [S EXCEPT !.cached = X]
<1>1. S \in Server
  BY DEF Pair, GoodBut
<1>2. T \in Server /\ T.regs = S.regs /\ T.on_resolve = S.on_resolve
  BY <1>1, CachedIs
<1> HIDE DEF T
<1>3. Pair(T, c, s) /\ SameEnds(S, T, c, s)
  BY <1>2, PairStays
<1> QED
  BY <1>3 DEF T

\* fast_transfer, the whole response was read: it may be saved, and what is
\* left of it is sent.
LEMMA RelayReadKeeps ==
  ASSUME Inv, NEW f \in Fd, RelayRead(f)
  PROVE  Inv'
<1> DEFINE S == server
           h == S.regs[f].handler
<1>1. /\ Good(S) /\ S.regs[f].place # <<>> /\ h.kind = "relay_in" /\ batch # <<>>
  BY DEF Inv, RelayRead, Reads, Handles, Used, Closed, regs, H, Event
<1>2. PICK saved \in SUBSET {h.rq.host}, closed \in BOOLEAN :
        Returns(SendServerResponse([S EXCEPT !.cached = @ \cup saved], h.it, h.rq, closed))
  BY DEF RelayRead, H, regs
<1>3. PICK c \in Fd, s \in Fd : /\ Pair(S, c, s) /\ h.it = <<c, s>>
                                /\ h.rq \in RequestTo(S.regs[c].who, S.regs[s].who)
  BY <1>1, PairOpened
<1> DEFINE X == S.cached \cup saved
           T == [S EXCEPT !.cached = X]
<1>4. X \in SUBSET Host
  BY <1>1, <1>3 DEF Good, Server, RequestTo, RequestOf, Request
<1> HIDE DEF X
<1>5. Pair(T, c, s) /\ SameEnds(S, T, c, s)
  BY <1>3, <1>4, PairCaches
<1> HIDE DEF T
<1>6. h.rq \in RequestTo(T.regs[c].who, T.regs[s].who)
  BY <1>3, <1>5, EndsKept
<1>7. Good(SendServerResponse(T, <<c, s>>, h.rq, closed))
  BY <1>5, <1>6, PairResponds
<1>8. Returns(SendServerResponse(T, <<c, s>>, h.rq, closed))
  BY <1>2, <1>3 DEF T, X
<1> QED
  BY <1>1, <1>7, <1>8, ReturnsKeeps

\* The first request of a client is read.
LEMMA FirstRequestReadKeeps ==
  ASSUME Inv, NEW f \in Fd, NEW rq \in Request, FirstRequestRead(f, rq)
  PROVE  Inv'
<1> DEFINE S == server
           T == Watch(S, f, {})
<1>1. /\ Good(S) /\ S \in Server /\ S.regs[f].place # <<>> /\ S.regs[f].handler.kind = "read"
      /\ S.regs[f].handler.next = "first" /\ batch # <<>>
      /\ rq.from = S.regs[f].who
      /\ Returns(ConnectToServer(T, f, rq, "handle"))
  BY DEF Inv, Good, FirstRequestRead, Reads, Handles, Used, Closed, regs, H, Event, Asks
<1>2. Alone(S, f)
  <2>1. ASSUME NEW c \in Fd, NEW s \in Fd, PairAt(S, f, c, s) PROVE FALSE
    BY <1>1, <2>1 DEF PairAt, HasPair, AtServer, AtClient
  <2> QED
    BY <1>1, <2>1, HandlerOpens
<1> HIDE DEF S
<1>3. /\ T \in Server /\ T.regs[f].place = <<f>> /\ T.regs[f].who = S.regs[f].who
      /\ \A g \in Fd \ {f} : T.regs[g] = S.regs[g]
      /\ T.on_resolve = S.on_resolve
  BY <1>1, <1>2, {} \in SUBSET Bit, WatchIs DEF Alone
<1> HIDE DEF T
<1>4. Alone(T, f)
  BY <1>2, <1>3, OneFrame DEF Alone
<1>5. rq \in RequestOf(T.regs[f].who)
  BY <1>1, <1>3 DEF RequestOf
<1>6. Good(ConnectToServer(T, f, rq, "handle"))
  BY <1>4, <1>5, AloneAsks
<1> QED
  BY <1>1, <1>6, ReturnsKeeps

\* A further request of a client, for the same host or for another.
LEMMA ClientReusedKeeps ==
  ASSUME Inv, NEW f \in Fd, NEW rq \in Request, ClientReused(f, rq)
  PROVE  Inv'
<1> DEFINE S == server
           h == S.regs[f].handler
           T == Watch(S, f, {})
<1>1. /\ Good(S) /\ S.regs[f].place # <<>> /\ h.kind = "read"
      /\ h.next = "again" /\ batch # <<>>
      /\ rq.from = S.regs[f].who
      /\ \/ rq.host = h.rq.host /\ Returns(HandleRequest(T, h.it, rq))
         \/ Returns(Reconnect(T, h.it, rq, "handle"))
  BY DEF Inv, Good, ClientReused, Reads, Handles, Used, Closed, regs, H, Event, Asks
<1>2. PICK c \in Fd, s \in Fd : /\ Pair(S, c, s) /\ h.it = <<c, s>> /\ f = c
                                /\ h.rq \in RequestTo(S.regs[c].who, S.regs[s].who)
  BY <1>1, PairOpened
<1>3. Pair(T, c, s) /\ SameEnds(S, T, c, s)
  BY <1>2, {} \in SUBSET Bit, PairWatch
<1> HIDE DEF T
<1>4. rq \in RequestOf(T.regs[c].who)
  BY <1>1, <1>2, <1>3 DEF SameEnds, RequestOf
<1>5. CASE rq.host = h.rq.host /\ Returns(HandleRequest(T, h.it, rq))
  <2>1. rq \in RequestTo(T.regs[c].who, T.regs[s].who)
    BY <1>2, <1>3, <1>4, <1>5 DEF SameEnds, RequestTo
  <2>2. Good(HandleRequest(T, <<c, s>>, rq))
    BY <1>3, <2>1, PairHandles, PairIsGood
  <2> QED
    BY <1>1, <1>2, <1>5, <2>2, ReturnsKeeps
<1>6. CASE Returns(Reconnect(T, h.it, rq, "handle"))
  <2>1. Good(Reconnect(T, <<c, s>>, rq, "handle"))
    BY <1>3, <1>4, PairReconnects
  <2> QED
    BY <1>1, <1>2, <1>6, <2>1, ReturnsKeeps
<1> QED
  BY <1>1, <1>5, <1>6

\* The answer to a conditional request: from the cache or relayed.
LEMMA ValidatedKeeps ==
  ASSUME Inv, NEW f \in Fd, Validated(f)
  PROVE  Inv'
<1> DEFINE S == server
           h == S.regs[f].handler
           T == Watch(S, f, {})
           X == T.cached \ {h.rq.host}
           U == [T EXCEPT !.cached = X]
<1>1. /\ Good(S) /\ S.regs[f].place # <<>> /\ h.kind = "read"
      /\ h.next = "validation" /\ batch # <<>>
      /\ \E closed \in BOOLEAN :
           \/ Returns(SendServerResponse(T, h.it, h.rq, closed))
           \/ Returns(Reconnect(U, h.it, h.rq, "transfer"))
           \/ Returns(FastTransfer(U, h.it, h.rq))
  BY DEF Inv, Good, Validated, Reads, Handles, Used, Closed, regs, H, Event
<1>2. PICK c \in Fd, s \in Fd : /\ Pair(S, c, s) /\ h.it = <<c, s>> /\ f = s
                                /\ h.rq \in RequestTo(S.regs[c].who, S.regs[s].who)
  BY <1>1, PairOpened
<1>3. Pair(T, c, s) /\ SameEnds(S, T, c, s)
  BY <1>2, {} \in SUBSET Bit, PairWatch
<1> HIDE DEF T
<1>4. X \in SUBSET Host
  BY <1>3 DEF Pair, GoodBut, Server
<1> HIDE DEF X
<1>5. Pair(U, c, s) /\ SameEnds(T, U, c, s)
  BY <1>3, <1>4, PairCaches
<1> HIDE DEF U
<1>6. h.rq \in RequestTo(T.regs[c].who, T.regs[s].who)
  BY <1>2, <1>3, EndsKept
<1>7. h.rq \in RequestTo(U.regs[c].who, U.regs[s].who)
  BY <1>5, <1>6, EndsKept
<1>8. \A closed \in BOOLEAN : Good(SendServerResponse(T, <<c, s>>, h.rq, closed))
  BY <1>3, <1>6, PairResponds
<1>9. Good(Reconnect(U, <<c, s>>, h.rq, "transfer"))
  <2>1. h.rq \in RequestOf(U.regs[c].who)
    BY <1>7 DEF RequestTo
  <2> QED
    BY <1>5, <2>1, PairReconnects
<1>10. Good(FastTransfer(U, <<c, s>>, h.rq))
  BY <1>5, <1>7, PairTransfers, PairIsGood
<1> QED
  BY <1>1, <1>2, <1>8, <1>9, <1>10, ReturnsKeeps

\* fast_transfer, what was read is written: the client's end waits for more of
\* it.
LEMMA RelayWrittenKeeps ==
  ASSUME Inv, NEW f \in Fd, RelayWritten(f)
  PROVE  Inv'
<1> DEFINE S == server
           h == S.regs[f].handler
           T == Buffer(S, h.it[2], "empty")
           e == S.regs[f].interest \ {"OUT"}
           U == Watch(T, f, e)
<1>1. /\ Good(S) /\ S \in Server /\ S.regs[f].place # <<>> /\ h.kind = "relay_out"
      /\ batch # <<>> /\ Returns(U)
  BY DEF Inv, Good, RelayWritten, Writes, Handles, Used, Closed, regs, H, Event
<1>2. PICK c \in Fd, s \in Fd : /\ Pair(S, c, s) /\ h.it = <<c, s>> /\ f = c
  BY <1>1, PairOpened
<1>3. h.it[2] = s /\ e \in SUBSET Bit
  BY <1>1, <1>2, Places1 DEF Server, Reg
<1>4. Pair(T, c, s)
  BY <1>2, <1>3, PairBuffer
<1> HIDE DEF T, e
<1>5. Pair(U, c, s)
  BY <1>2, <1>3, <1>4, PairWatch
<1> QED
  BY <1>1, <1>5, PairIsGood, ReturnsKeeps

\* A message was sent: whatever it is followed by.
LEMMA MessageSentKeeps ==
  ASSUME Inv, NEW f \in Fd, MessageSent(f)
  PROVE  Inv'
<1> DEFINE S == server
           h == S.regs[f].handler
           T == Watch(S, f, {})
<1>1. /\ Good(S) /\ S \in Server /\ S.regs[f].place # <<>> /\ h.kind = "send"
      /\ batch # <<>> /\ Returns(Sent(T, h.it, h.rq, h.next))
  BY DEF Inv, Good, MessageSent, Writes, Handles, Used, Closed, regs, H, Event
<1>2. CASE h.next = "close"
  <2>1. LoneAt(S, f) /\ Alone(S, f)
    <3>1. ASSUME NEW c \in Fd, NEW s \in Fd, PairAt(S, f, c, s) PROVE FALSE
      BY <1>1, <1>2, <3>1 DEF PairAt, HasPair, AtServer, AtClient
    <3> QED
      BY <1>1, <3>1, HandlerOpens
  <2>2. h.it = <<f>>
    BY <2>1 DEF LoneAt, HasLone
  <2>3. /\ T \in Server /\ T.regs[f].place = <<f>>
        /\ \A g \in Fd \ {f} : T.regs[g] = S.regs[g]
        /\ T.on_resolve = S.on_resolve
    BY <1>1, <2>1, {} \in SUBSET Bit, WatchIs DEF Alone
  <2> HIDE DEF T
  <2>4. Alone(T, f)
    BY <2>1, <2>3, OneFrame DEF Alone
  <2>5. Good(Close(T, <<f>>))
    BY <2>4, AloneCloses
  <2>6. Sent(T, h.it, h.rq, h.next) = Close(T, <<f>>)
    BY <1>2, <2>2 DEF Sent
  <2> QED
    BY <1>1, <2>5, <2>6, ReturnsKeeps
<1>3. CASE h.next # "close"
  <2>1. PICK c \in Fd, s \in Fd :
          /\ f \in {c, s} /\ Pair(S, c, s) /\ h.it = <<c, s>>
          /\ h.rq \in RequestTo(S.regs[c].who, S.regs[s].who)
          /\ h.next \in {"validate", "transfer", "reuse", "tunnel"}
    BY <1>1, <1>3, PairOpened
  <2>2. Pair(T, c, s) /\ SameEnds(S, T, c, s)
    BY <2>1, {} \in SUBSET Bit, PairWatch
  <2> HIDE DEF T
  <2>3. h.rq \in RequestTo(T.regs[c].who, T.regs[s].who)
    BY <2>1, <2>2, EndsKept
  <2>4. Good(Sent(T, <<c, s>>, h.rq, h.next))
    BY <2>1, <2>2, <2>3, PairGoesOn, PairIsGood
  <2> QED
    BY <1>1, <2>1, <2>4, ReturnsKeeps
<1> QED
  BY <1>2, <1>3

\* The tunnel moves bytes, with the events of both ends set anew.
LEMMA TunnelMovesKeeps ==
  ASSUME Inv, NEW f \in Fd, TunnelMoves(f)
  PROVE  Inv'
<1> DEFINE S == server
           h == S.regs[f].handler
           o == Other(f)
<1>1. /\ Good(S) /\ S \in Server /\ S.regs[f].place # <<>> /\ h.kind = "tunnel" /\ batch # <<>>
  BY DEF Inv, Good, TunnelMoves, Handles, Used, Closed, regs, H, Event
<1>2. PICK c \in Fd, s \in Fd : /\ c # s /\ f \in {c, s} /\ Pair(S, c, s) /\ h.it = <<c, s>>
                                /\ S.regs[s].handler.kind # "connect"
  BY <1>1, PairOpened
<1>3. o \in {c, s} /\ o # f
  <2>1. Members(regs[f].place) = {c, s}
    <3>1. regs[f].place = <<c, s>>
      BY <1>2 DEF Pair, PairAt, regs
    <3>2. Members(<<c, s>>) = {c, s}
      BY Places1
    <3> QED
      BY <3>1, <3>2
  <2> QED
    BY <1>2, <2>1 DEF Other
<1>4. PICK in \in IF FillsUp(f) THEN {"some", "full"} ELSE {regs[f].buf},
           out \in {regs[o].buf} \cup IF Drains(f) THEN {"empty"} ELSE {} :
        \E mine, other \in SUBSET Bit :
          Returns(Watch(Watch(Buffer(Buffer(S, f, in), o, out), f, mine), o, other))
  <2>1. regs[f].interest \in SUBSET Bit /\ regs[o].interest \in SUBSET Bit
    BY <1>1, <1>2, <1>3 DEF Server, Reg, regs
  <2> HIDE DEF o
  <2>2. \A E \in SUBSET Bit, b \in Bit : Toggled(E, b) \in SUBSET Bit
    BY DEF Toggled
  <2>3. "IN" \in Bit /\ "OUT" \in Bit
    BY DEF Bit
  <2>4. PICK in \in IF FillsUp(f) THEN {"some", "full"} ELSE {regs[f].buf},
             out \in {regs[o].buf} \cup IF Drains(f) THEN {"empty"} ELSE {} :
          LET here  == regs[f].interest
              full  == IF FillsUp(f) /\ in = "full" THEN Toggled(here, "IN") ELSE here
              mine  == IF Drains(f) /\ out = "empty" THEN Toggled(full, "OUT") ELSE full
              other == regs[o].interest
                         \cup (IF FillsUp(f) THEN {"OUT"} ELSE {})
                         \cup (IF Drains(f) /\ out # "full" THEN {"IN"} ELSE {})
          IN  Returns(Watch(Watch(Buffer(Buffer(server, f, in), o, out), f, mine), o, other))
    BY DEF TunnelMoves, o
  <2> DEFINE here  == regs[f].interest
             full  == IF FillsUp(f) /\ in = "full" THEN Toggled(here, "IN") ELSE here
             mine  == IF Drains(f) /\ out = "empty" THEN Toggled(full, "OUT") ELSE full
             other == regs[o].interest
                         \cup (IF FillsUp(f) THEN {"OUT"} ELSE {})
                         \cup (IF Drains(f) /\ out # "full" THEN {"IN"} ELSE {})
  <2>5. full \in SUBSET Bit
    BY <2>1, <2>2, <2>3
  <2>6. mine \in SUBSET Bit
    BY <2>2, <2>3, <2>5
  <2>7. other \in SUBSET Bit
    BY <2>1, <2>3
  <2>8. Returns(Watch(Watch(Buffer(Buffer(S, f, in), o, out), f, mine), o, other))
    BY <2>4
  <2> HIDE DEF mine, other, S
  <2> QED
    BY <2>4, <2>6, <2>7, <2>8
<1>5. PICK mine \in SUBSET Bit, other \in SUBSET Bit :
        Returns(Watch(Watch(Buffer(Buffer(S, f, in), o, out), f, mine), o, other))
  BY <1>4
<1>6. in \in {"empty", "some", "full"} /\ out \in {"empty", "some", "full"}
  BY <1>1, <1>2, <1>3 DEF Server, Reg, regs
<1> DEFINE T == Buffer(S, f, in)
           U == Buffer(T, o, out)
           V == Watch(U, f, mine)
           W == Watch(V, o, other)
<1> HIDE DEF o
<1>7. Pair(T, c, s) /\ SameHandlers(S, T, c, s)
  BY <1>2, <1>6, PairBuffer
<1> HIDE DEF T
<1>8. Pair(U, c, s) /\ SameHandlers(T, U, c, s)
  BY <1>3, <1>6, <1>7, PairBuffer
<1> HIDE DEF U
<1>9. U.regs[s].handler.kind # "connect"
  BY <1>2, <1>7, <1>8 DEF SameHandlers
<1>10. Pair(V, c, s) /\ SameHandlers(U, V, c, s)
  BY <1>2, <1>5, <1>8, <1>9, PairWatch
<1> HIDE DEF V
<1>11. V.regs[s].handler.kind # "connect"
  BY <1>9, <1>10 DEF SameHandlers
<1>12. Pair(W, c, s)
  BY <1>3, <1>5, <1>10, <1>11, PairWatch
<1>13. Returns(W)
  BY <1>5 DEF V, U, T
<1> HIDE DEF W
<1> QED
  BY <1>1, <1>12, <1>13, PairIsGood, ReturnsKeeps

-----------------------------------------------------------------------------
\* The invariant holds at the start.
LEMMA InitInv == Init => Inv
<1> SUFFICES ASSUME Init PROVE Inv
  OBVIOUS
<1>1. server = Blank /\ batch = <<>> /\ arrived = {}
  BY DEF Init
<1>2. \A k \in Key : Blank.queries[k] <= MaxPending
  BY BoundAssumption DEF Blank
<1>3. <<>> \in Seq(Msg) /\ Len(<<>>) = 0 /\ DOMAIN <<>> = {}
  BY EmptySeq
<1> QED
  BY <1>1, <1>2, <1>3, BlankIsGood, BoundAssumption DEF Inv

\* epoll_wait() returns at most BatchSize events, those of the timer only where
\* there is one.
LEMMA EpollWaitKeeps == Inv /\ EpollWait => Inv'
<1> SUFFICES ASSUME Inv, EpollWait PROVE Inv'
  OBVIOUS
<1>1. PICK n \in 1 .. BatchSize : batch' \in [1 .. n -> Ready]
  BY DEF EpollWait
<1>2. server \in Server
  BY DEF Inv, Good
<1>3. ASSUME NEW m \in Ready PROVE m \in Msg /\ (m.src = "timer" => Timeouts)
  <2>1. CASE m \in [src : ReadySources, bits : {{"IN"}}]
    BY <2>1 DEF ReadySources, Sources, Msg, Bit
  <2>2. ASSUME NEW f \in Used, m \in [src : {f}, bits : Events(f)]
        PROVE  m \in Msg /\ m.src # "timer"
    <3>1. f \in Fd /\ f # "timer"
      BY SourceAssumption DEF Used, Sources
    <3>2. regs[f].interest \in SUBSET Bit
      BY <1>2, <3>1 DEF Server, Reg, regs
    <3>3. Events(f) \subseteq SUBSET (Bit \cup {"HUP"})
      BY <3>2 DEF Events
    <3> QED
      BY <2>2, <3>1, <3>3 DEF Msg
  <2> QED
    BY <2>1, <2>2 DEF Ready
<1>4. batch' \in [1 .. n -> Msg] /\ n \in Nat
  BY <1>1, <1>3, BoundAssumption
<1>5. batch' \in Seq(Msg) /\ Len(batch') = n /\ DOMAIN batch' = 1 .. n
  BY <1>4
<1>6. Len(batch') <= BatchSize
  BY <1>5, BoundAssumption
<1>7. \A i \in DOMAIN batch' : batch'[i].src = "timer" => Timeouts
  BY <1>1, <1>3, <1>5
<1> QED
  BY <1>5, <1>6, <1>7 DEF Inv, EpollWait

\* A peer that closes or resets leaves our side as it is.
LEMMA PeerClosesKeeps ==
  ASSUME Inv, NEW f \in Fd, PeerCloses(f)
  PROVE  Inv'
<1>1. PICK how \in {"fin", "rst"} : server' = [server EXCEPT !.regs[f].peer = how]
  BY DEF PeerCloses
<1>2. server \in Server /\ Good(server)
  BY DEF Inv, Good
<1> DEFINE T == [server EXCEPT !.regs[f].peer = how]
<1>3. /\ T \in Server /\ T.on_resolve = server.on_resolve
      /\ \A g \in Fd : /\ T.regs[g].place = server.regs[g].place
                       /\ T.regs[g].interest = server.regs[g].interest
                       /\ T.regs[g].handler = server.regs[g].handler
                       /\ T.regs[g].who = server.regs[g].who
  <2>1. how \in {"open", "fin", "rst"} /\ server \in Server
    BY <1>2
  <2> QED
    BY <2>1, PeerIs
<1>4. T.queries = server.queries
  BY <1>2 DEF Server
<1> HIDE DEF T
<1>5. Good(T)
  BY <1>2, <1>3, GoodTouch
<1>6. server' = T
  BY <1>1 DEF T
<1>7. Good(server')
  BY <1>5, <1>6
<1> QED
  BY <1>4, <1>6, <1>7 DEF Inv, PeerCloses

\* The handlers that return as they were called, or close their place.
LEMMA RestKeeps ==
  ASSUME Inv, NEW f \in Fd,
         \/ InputLost(f) \/ InputBroken(f) \/ InputPart(f) \/ OutputLost(f) \/ OutputPart(f)
         \/ IdleServerDrops(f) \/ TunnelStopped(f) \/ TunnelFails(f) \/ Ignored(f)
  PROVE  Inv'
<1>1. Good(server) /\ batch # <<>>
  BY DEF Inv, InputLost, InputBroken, InputPart, OutputLost, OutputPart, IdleServerDrops,
         TunnelStopped, TunnelFails, Ignored, Reads, Writes, Handles, Event
<1>2. CASE \/ Returns(server)
           \/ Halt("use after close")
           \/ /\ Handles(f, {"read", "relay_in", "send", "relay_out", "idle", "tunnel"})
              /\ Returns(Close(server, H(f).it))
  <2>1. CASE Handles(f, {"read", "relay_in", "send", "relay_out", "idle", "tunnel"})
    <3>1. /\ server.regs[f].place # <<>>
          /\ server.regs[f].handler.kind \notin {"connect", "dropping", "resolving"}
      BY <2>1 DEF Handles, Used, Closed, H, regs
    <3>2. Good(Close(server, server.regs[f].handler.it))
      BY <1>1, <3>1, HandlerCloses
    <3>3. Good(Close(server, H(f).it))
      BY <3>2 DEF H, regs
    <3> QED
      BY <1>1, <1>2, <3>3, ReturnsKeeps, HaltKeeps
  <2> QED
    BY <1>1, <1>2, <2>1, ReturnsKeeps, HaltKeeps
<1>3. InputLost(f) => Handles(f, {"read", "relay_in", "send", "relay_out", "idle", "tunnel"})
                        /\ Returns(Close(server, H(f).it))
  BY DEF InputLost, Handles
<1>4. InputBroken(f) => Halt("use after close")
  BY DEF InputBroken
<1>5. InputPart(f) \/ OutputPart(f) \/ Ignored(f) => Returns(server)
  BY DEF InputPart, OutputPart, Ignored
<1>6. OutputLost(f) => \/ Halt("use after close")
                       \/ /\ Handles(f, {"read", "relay_in", "send", "relay_out", "idle", "tunnel"})
                          /\ Returns(Close(server, H(f).it))
  BY DEF OutputLost, Handles
<1>7. IdleServerDrops(f) \/ TunnelStopped(f) =>
        Handles(f, {"read", "relay_in", "send", "relay_out", "idle", "tunnel"})
          /\ Returns(Close(server, H(f).it))
  BY DEF IdleServerDrops, TunnelStopped, Handles
<1>8. TunnelFails(f) => \/ Halt("use after close")
                        \/ /\ Handles(f, {"read", "relay_in", "send", "relay_out", "idle", "tunnel"})
                           /\ Returns(Close(server, H(f).it))
  BY DEF TunnelFails, Handles
<1> QED
  BY <1>2, <1>3, <1>4, <1>5, <1>6, <1>7, <1>8

\* resolver_handler, for an answer whose client may have left.
LEMMA AnsweredKeeps ==
  ASSUME Inv, NEW k \in Key, Answered(k)
  PROVE  Inv'
<1>1. CASE AnswerTooLate(k)
  <2>1. batch # <<>> /\ server.queries[k] > 0 /\ Returns(Taken(k))
    BY <1>1 DEF AnswerTooLate, Answer, Event
  <2> QED
    BY <2>1, TakenIsGood, ReturnsKeeps
<1>2. CASE AnswerNoClient(k)
  BY <1>2, HaltKeeps DEF AnswerNoClient
<1>3. CASE AnswerNotFound(k)
  BY <1>3, AnswerNotFoundKeeps
<1>4. ASSUME NEW s \in Fd, NEW n \in 1 .. MaxIps, AnswerFound(k, s, n) PROVE Inv'
  BY <1>4, AnswerFoundKeeps
<1> QED
  BY <1>1, <1>2, <1>3, <1>4 DEF Answered

\* Every handler of a descriptor keeps the invariant.
LEMMA HandlerKeeps ==
  ASSUME Inv, NEW f \in Fd, Handler(f)
  PROVE  Inv'
<1>1. CASE \E rq \in Request : FirstRequestRead(f, rq) \/ ClientReused(f, rq)
  BY <1>1, FirstRequestReadKeeps, ClientReusedKeeps
<1>2. CASE ClientLeavesQuery(f) \/ ClientLeavesConnect(f)
  BY <1>2, ClientLeavesQueryKeeps, ClientLeavesConnectKeeps
<1>3. CASE ConnectNextAddress(f) \/ ConnectFails(f) \/ Connected(f)
  BY <1>3, ConnectNextAddressKeeps, ConnectFailsKeeps, ConnectedKeeps
<1>4. CASE RelayPart(f) \/ RelayRead(f) \/ Validated(f)
  BY <1>4, RelayPartKeeps, RelayReadKeeps, ValidatedKeeps
<1>5. CASE RelayWritten(f) \/ MessageSent(f) \/ TunnelMoves(f)
  BY <1>5, RelayWrittenKeeps, MessageSentKeeps, TunnelMovesKeeps
<1> QED
  BY <1>1, <1>2, <1>3, <1>4, <1>5, RestKeeps DEF Handler

\* Every step keeps the invariant.
LEMMA NextInv == Inv /\ [Next]_vars => Inv'
<1> SUFFICES ASSUME Inv, [Next]_vars PROVE Inv'
  OBVIOUS
<1>1. CASE EpollWait
  BY <1>1, EpollWaitKeeps
<1>2. CASE \E f \in Fd : PeerCloses(f)
  BY <1>2, PeerClosesKeeps
<1>3. CASE Interrupt \/ NoDestination
  BY <1>3, HaltKeeps DEF Interrupt, NoDestination
<1>4. CASE Timer
  BY <1>4, TimerKeeps
<1>5. CASE AcceptFails
  BY <1>5, ReturnsKeeps DEF AcceptFails, Event, Inv
<1>6. CASE \E c \in Client, f \in Fd : Accept(c, f)
  BY <1>6, AcceptKeeps
<1>7. CASE \E k \in Key : Answered(k)
  BY <1>7, AnsweredKeeps
<1>8. CASE \E f \in Fd : Handler(f)
  BY <1>8, HandlerKeeps
<1>9. CASE UNCHANGED vars
  BY <1>9 DEF vars, Inv
<1> QED
  BY <1>1, <1>2, <1>3, <1>4, <1>5, <1>6, <1>7, <1>8, <1>9 DEF Next, Dispatch

-----------------------------------------------------------------------------
\* The invariant bounds what the members may be.
LEMMA InvTypes == Inv => TypeOK
<1> SUFFICES ASSUME Inv PROVE TypeOK
  OBVIOUS
<1>1. server \in Server
  BY DEF Inv, Good
<1>2. ASSUME NEW f \in Fd
      PROVE  /\ DOMAIN regs[f] = DOMAIN Free
             /\ regs[f].interest \subseteq {"IN", "OUT", "RDHUP"}
             /\ regs[f].buf \in {"empty", "some", "full"}
             /\ regs[f].who \in Client \cup Host \cup {None}
             /\ regs[f].peer \in {"open", "fin", "rst"}
  <2>1. regs[f] \in Reg /\ Free \in Reg
    BY <1>1, FreeIsReg DEF Server, regs
  <2> QED
    BY <2>1 DEF Reg, Bit
<1>3. /\ DOMAIN server.on_resolve \subseteq Key
      /\ \A k \in DOMAIN server.on_resolve : server.on_resolve[k] \in Entry
  BY <1>1 DEF Server
<1>4. server.queries \in [Key -> 0 .. MaxPending] /\ server.cached \subseteq Host
  <2>1. server.queries \in [Key -> Nat] /\ server.cached \subseteq Host
    BY <1>1 DEF Server
  <2>2. \A k \in Key : server.queries[k] <= MaxPending
    BY DEF Inv
  <2>3. MaxPending \in Nat
    BY BoundAssumption
  <2>4. \A k \in Key : server.queries[k] \in 0 .. MaxPending
    BY <2>1, <2>2, <2>3
  <2> QED
    BY <2>1, <2>4
<1> QED
  BY <1>2, <1>3, <1>4 DEF TypeOK, Inv, Entry

\* A closure holds the place that its descriptor is in.
LEMMA InvLive == Inv => ClosuresLive
<1> SUFFICES ASSUME Inv, NEW f \in Fd, server.regs[f].place # <<>>
             PROVE  LET h == server.regs[f].handler
                    IN  /\ f \in Members(h.it)
                        /\ \A g \in Members(h.it) : server.regs[g].place = h.it
                        /\ h.kind \in (IF Len(h.it) = 1 THEN SockKinds ELSE ConnKinds)
  BY DEF ClosuresLive, Used, Closed, regs, H
<1> DEFINE h == server.regs[f].handler
<1>1. Good(server)
  BY DEF Inv
<1>2. CASE LoneAt(server, f)
  <2>1. h.it = <<f>> /\ h.kind \in SockKinds /\ server.regs[f].place = <<f>>
    BY <1>2 DEF LoneAt, HasLone, SockKinds
  <2>2. Members(<<f>>) = {f} /\ Len(<<f>>) = 1
    BY Places1
  <2> QED
    BY <2>1, <2>2
<1>3. ASSUME NEW c \in Fd, NEW s \in Fd, f \in {c, s}, PairAt(server, f, c, s)
      PROVE  /\ f \in Members(h.it)
             /\ \A g \in Members(h.it) : server.regs[g].place = h.it
             /\ h.kind \in (IF Len(h.it) = 1 THEN SockKinds ELSE ConnKinds)
  <2>1. /\ h.it = <<c, s>>
        /\ server.regs[c].place = <<c, s>> /\ server.regs[s].place = <<c, s>>
    BY <1>3 DEF PairAt, HasPair
  <2>2. h.kind \in ConnKinds
    <3>1. HasPair(h, f, c, s, server.regs[c].who, server.regs[s].who)
      BY <1>3 DEF PairAt
    <3> HIDE DEF h
    <3> QED
      BY <3>1 DEF HasPair, ConnKinds, AtServer, AtClient
  <2>3. Members(<<c, s>>) = {c, s} /\ Len(<<c, s>>) = 2
    BY Places1
  <2> QED
    BY <1>3, <2>1, <2>2, <2>3
<1>4. \/ LoneAt(server, f)
      \/ \E c, s \in Fd : f \in {c, s} /\ PairAt(server, f, c, s)
  BY <1>1 DEF Good, OkAt, Placed, PairAt
<1> QED
  BY <1>2, <1>3, <1>4

\* Without the timer a request is one of the client of its pair.
LEMMA InvOwn == Inv /\ ~Timeouts => OwnRequestOnly
<1> SUFFICES ASSUME Inv, ~Timeouts, NEW f \in Fd, server.regs[f].place # <<>>,
                    "rq" \in DOMAIN server.regs[f].handler, server.regs[f].handler.rq # None
             PROVE  server.regs[f].handler.rq.from = server.regs[server.regs[f].handler.it[1]].who
  BY DEF OwnRequestOnly, Used, Closed, regs, H
<1> DEFINE h == server.regs[f].handler
<1>1. CASE LoneAt(server, f)
  <2>1. h.it[1] = f /\ h.rq \in RequestOf(server.regs[f].who)
    BY <1>1, Places1 DEF LoneAt, HasLone
  <2> QED
    BY <2>1 DEF RequestOf
<1>2. ASSUME NEW c \in Fd, NEW s \in Fd, PairAt(server, f, c, s)
      PROVE  h.rq.from = server.regs[h.it[1]].who
  <2>1. HasPair(h, f, c, s, server.regs[c].who, server.regs[s].who)
    BY <1>2 DEF PairAt
  <2>2. h \notin ConnectClosures
    BY DEF ConnectClosures
  <2>3. h.it = <<c, s>> /\ h.rq \in RequestTo(server.regs[c].who, server.regs[s].who)
    BY <2>1, <2>2 DEF HasPair
  <2>4. h.it[1] = c
    BY <2>3, Places1
  <2> QED
    BY <2>3, <2>4 DEF RequestTo, RequestOf
<1> QED
  BY <1>1, <1>2 DEF Inv, Good, OkAt, Placed

\* A pair's request is for the host of its server.
LEMMA InvRight == Inv => RightServer
<1> SUFFICES ASSUME Inv, NEW f \in Fd, server.regs[f].place # <<>>
             PROVE  LET h == server.regs[f].handler IN
                    /\ h.kind = "send" /\ h.next \in {"validate", "transfer"} =>
                         f = h.it[2] /\ server.regs[f].who = h.rq.host
                    /\ h.kind = "relay_in" => server.regs[f].who = h.rq.host
  BY DEF RightServer, Used, Closed, regs, H
<1> DEFINE h == server.regs[f].handler
           W == /\ h.kind = "send" /\ h.next \in {"validate", "transfer"} =>
                     f = h.it[2] /\ server.regs[f].who = h.rq.host
                /\ h.kind = "relay_in" => server.regs[f].who = h.rq.host
<1>1. CASE LoneAt(server, f)
  BY <1>1 DEF LoneAt, HasLone
<1>2. ASSUME NEW c \in Fd, NEW s \in Fd, PairAt(server, f, c, s) PROVE W
  <2>1. HasPair(h, f, c, s, server.regs[c].who, server.regs[s].who) /\ f \in {c, s}
    BY <1>2 DEF PairAt
  <2>2. h.it = <<c, s>> /\ h.it[2] = s
    BY <2>1, Places1 DEF HasPair
  <2>3. CASE h.kind \in {"connect", "dropping"}
    BY <2>3
  <2>4. CASE h.kind \notin {"connect", "dropping"}
    <3>1. /\ h.rq \in RequestTo(server.regs[c].who, server.regs[s].who)
          /\ <<h.kind, h.next>> \in IF f = s THEN AtServer ELSE AtClient
      BY <2>1, <2>4 DEF HasPair
    <3>2. h.rq.host = server.regs[s].who
      BY <3>1 DEF RequestTo
    <3> HIDE DEF h
    <3>3. CASE f = s
      BY <2>2, <3>2, <3>3
    <3>4. CASE f # s
      BY <3>1, <3>4 DEF AtClient
    <3> QED
      BY <3>3, <3>4
  <2> QED
    BY <2>3, <2>4
<1> QED
  BY <1>1, <1>2 DEF Inv, Good, OkAt, Placed

\* Without the timer on_resolve is what handlers are still owed.
LEMMA InvAccounted == Inv /\ ~Timeouts => EntriesAccounted
<1> SUFFICES ASSUME Inv, ~Timeouts PROVE EntriesAccounted
  OBVIOUS
<1> DEFINE S == server
           Clients == {<<f, H(f).rq.host>> : f \in {g \in Fd : Resolving(g)}}
           Servers == {Query(f) : f \in {g \in Fd : InConnect(g)}}
<1>1. Good(S) /\ S \in Server /\ DOMAIN S.on_resolve \subseteq Key
  BY DEF Inv, Good, Server
<1>2. ASSUME NEW c \in Fd, NEW x \in Host
      PROVE  /\ <<c, x>> \in DOMAIN S.on_resolve <=> Owes(S, c, x)
             /\ <<c, x>> \in DOMAIN S.on_resolve => S.on_resolve[<<c, x>>].rq.from = S.regs[c].who
  BY <1>1 DEF Good, OkAt, Accounted, Asked
<1>3. ASSUME NEW f \in Fd, Resolving(f)
      PROVE  /\ H(f).rq.host \in Host /\ Owes(S, f, H(f).rq.host)
             /\ S.regs[f].place = <<f>>
  <2>1. S.regs[f].place # <<>> /\ S.regs[f].handler.kind = "resolving" /\ H(f) = S.regs[f].handler
    BY <1>3 DEF Resolving, Used, Closed, regs, H
  <2>2. ASSUME NEW c \in Fd, NEW s \in Fd, PairAt(S, f, c, s) PROVE FALSE
    BY <2>1, <2>2 DEF PairAt, HasPair, AtServer, AtClient
  <2>3. LoneAt(S, f)
    BY <1>1, <2>1, <2>2 DEF Good, OkAt, Placed
  <2>4. S.regs[f].place = <<f>> /\ S.regs[f].handler.rq \in Request
    BY <2>1, <2>3 DEF LoneAt, HasLone, RequestOf
  <2> QED
    BY <2>1, <2>4 DEF Owes, Request
<1>4. ASSUME NEW f \in Fd, InConnect(f)
      PROVE  \E c \in Fd, x \in Host : Query(f) = <<c, x>> /\ Owes(S, c, x)
  <2>1. /\ S.regs[f].place # <<>> /\ S.regs[f].handler.kind = "connect"
        /\ H(f) = S.regs[f].handler /\ ~Quiet(S, f)
    BY <1>4 DEF InConnect, Used, Closed, regs, H, Quiet
  <2>2. PICK c \in Fd, s \in Fd :
          /\ PairAt(S, c, c, s) /\ f = s
          /\ S.regs[f].handler.it = <<c, s>>
          /\ S.regs[f].handler.host = S.regs[s].who /\ S.regs[s].who \in Host
    BY <1>1, <2>1, ConnectHandler
  <2>3. Query(f) = <<c, S.regs[s].who>>
    BY <2>1, <2>2, Places1 DEF Query
  <2>4. Owes(S, c, S.regs[s].who)
    BY <2>1, <2>2 DEF Owes, PairAt
  <2> QED
    BY <2>2, <2>3, <2>4
<1>5. ASSUME NEW c \in Fd, NEW x \in Host, Owes(S, c, x)
      PROVE  <<c, x>> \in Clients \cup Servers
  <2>1. CASE /\ S.regs[c].place = <<c>>
             /\ S.regs[c].handler.kind = "resolving" /\ S.regs[c].handler.rq.host = x
    <3>1. Resolving(c) /\ H(c).rq.host = x
      BY <2>1, Places1 DEF Resolving, Used, Closed, regs, H
    <3> QED
      BY <3>1
  <2>2. ASSUME NEW s \in Fd, S.regs[c].place = <<c, s>>, ~Quiet(S, s), S.regs[s].handler.host = x
        PROVE  <<c, x>> \in Servers
    <3>1. PairAt(S, c, c, s)
      <4>1. Placed(S, c) /\ S.regs[c].place # <<>> /\ S.regs[c].place # <<c>>
        BY <1>1, <2>2, Places1 DEF Good, OkAt
      <4>2. PICK a \in Fd, b \in Fd : PairAt(S, c, a, b)
        BY <4>1 DEF Placed, LoneAt
      <4>3. <<a, b>> = <<c, s>>
        BY <2>2, <4>2 DEF PairAt
      <4> QED
        BY <4>2, <4>3, SamePlace
    <3>2. S.regs[s].place = <<c, s>> /\ c # s
      BY <3>1 DEF PairAt
    <3>3. /\ S.regs[s].place # <<>> /\ S.regs[s].handler.kind = "connect"
          /\ "OUT" \in S.regs[s].interest
      BY <2>2, <3>2, Places1 DEF Quiet
    <3>4. InConnect(s) /\ H(s) = S.regs[s].handler
      BY <3>3 DEF InConnect, Used, Closed, regs, H
    <3>5. S.regs[s].handler.it = <<c, s>>
      <4>1. PICK a \in Fd, b \in Fd : PairAt(S, a, a, b) /\ s = b /\ S.regs[s].handler.it = <<a, b>>
        BY <1>1, <3>3, ConnectHandler
      <4>2. <<a, b>> = <<c, s>>
        <5>1. PairAt(S, s, a, b) \/ PairAt(S, a, a, b)
          BY <4>1
        <5>2. S.regs[b].place = <<a, b>>
          BY <4>1 DEF PairAt
        <5> QED
          BY <3>2, <4>1, <5>2
      <4> QED
        BY <4>1, <4>2
    <3>6. Query(s) = <<c, x>>
      BY <2>2, <3>4, <3>5, Places1 DEF Query
    <3> QED
      BY <3>4, <3>6
  <2> QED
    BY <1>5, <2>1, <2>2 DEF Owes
<1>6. ASSUME NEW k \in DOMAIN S.on_resolve
      PROVE  k \in Clients \cup Servers /\ S.on_resolve[k].rq.from = S.regs[k[1]].who
  <2>1. PICK c \in Fd, x \in Host : k = <<c, x>>
    BY <1>1 DEF Key
  <2>2. k[1] = c
    BY <2>1, Places1
  <2> QED
    BY <1>2, <1>5, <2>1, <2>2
<1>7. ASSUME NEW k \in Clients \cup Servers PROVE k \in DOMAIN S.on_resolve
  <2>1. CASE k \in Clients
    BY <1>2, <1>3, <2>1
  <2>2. CASE k \in Servers
    BY <1>2, <1>4, <2>2
  <2> QED
    BY <2>1, <2>2
<1>8. DOMAIN S.on_resolve = Clients \cup Servers
  BY <1>6, <1>7
<1> QED
  BY <1>6, <1>8 DEF EntriesAccounted, regs

-----------------------------------------------------------------------------
\* The invariant holds in every state of every behaviour: every open descriptor
\* is alone, or one of a pair both of whose handlers know the same place.
THEOREM InvHolds == Spec => []Inv
  BY InitInv, NextInv, PTL DEF Spec

\* The members of proxy_server keep their types: the sockets, the queries and
\* the cache hold nothing they should not, and the batch never more than
\* epoll_wait() asks for.
THEOREM TypeCorrect == Spec => []TypeOK
  BY InvHolds, InvTypes, PTL

\* The closure registered for an open descriptor captured the iterator of the place
\* the descriptor is in now, and every other member of that place is there too:
\* moves between queue.sockets and queue.connections, errors and expiry included.
THEOREM ClosuresAreLive == Spec => []ClosuresLive
  BY InvHolds, InvLive, PTL

\* The request that a handler of a connected pair holds is for the host the
\* server's socket was connected to, however often a client is joined to
\* another server.
THEOREM ServersAreRight == Spec => []RightServer
  BY InvHolds, InvRight, PTL

\* Without expiry a client's handler holds only requests of that client, so no
\* client is answered with what another asked for. With expiry the descriptor
\* may be reused while the query is still under way.
THEOREM RequestsAreOwn ==
  ASSUME ~Timeouts
  PROVE  Spec => []OwnRequestOnly
<1>1. Inv => OwnRequestOnly
  BY InvOwn
<1> QED
  BY <1>1, InvHolds, PTL

\* Without expiry on_resolve holds exactly the queries of clients that are
\* resolved for or connected to: none leaks, and none is missing when its
\* handler looks it up.
THEOREM EntriesAreAccounted ==
  ASSUME ~Timeouts
  PROVE  Spec => []EntriesAccounted
<1>1. Inv => EntriesAccounted
  BY InvAccounted
<1> QED
  BY <1>1, InvHolds, PTL

-----------------------------------------------------------------------------
(***************************************************************************)
(* Nobody waits for what cannot come.  What a descriptor waits for is said *)
(* of it and, in a pair, of the other end; the queries are those whose     *)
(* answers are still to come.                                              *)
(***************************************************************************)
\* A client whose host is resolved has its entry, and an answer to come.
Awaits(S, f, h) ==
  /\ S.regs[f].place # <<>>
  /\ S.regs[f].handler.kind = "resolving" /\ S.regs[f].handler.rq.host = h
Coming(S, f) == \A h \in Host : Awaits(S, f, h) => Asked(S, f, h) /\ S.queries[<<f, h>>] > 0

\* A socket alone that reads or sends waits for that.
Keen(r) == /\ r.handler.kind = "read" => "IN" \in r.interest
           /\ r.handler.kind = "send" => "OUT" \in r.interest

\* In a tunnel, what r does not read for is full and what it does not write is
\* empty.
Flows(r, q) == /\ "IN" \in r.interest \/ r.buf = "full"
               /\ "OUT" \in r.interest \/ q.buf = "empty"

\* Of a pair both are in a tunnel or one is at work: an end that reads, an end
\* that sends, the server's that connects, or the one that is relayed from.
Busy(r, q) ==
  /\ r.handler.kind = "tunnel" <=> q.handler.kind = "tunnel"
  /\ r.handler.kind = "tunnel" => Flows(r, q) /\ Flows(q, r)
  /\ q.handler.kind = "relay_in" => r.handler.kind \in {"relay_out", "send"}
  /\ \/ r.handler.kind = "read" /\ "IN" \in r.interest
     \/ r.handler.kind = "send" /\ "OUT" \in r.interest
     \/ q.handler.kind = "read" /\ "IN" \in q.interest
     \/ q.handler.kind \in {"send", "connect"} /\ "OUT" \in q.interest
     \/ r.handler.kind = "relay_out" /\ q.handler.kind = "relay_in" /\ "IN" \in q.interest
     \/ r.handler.kind = "tunnel"

Couple(S, c, s) ==
  /\ c # s /\ S.regs[c].place = <<c, s>> /\ S.regs[s].place = <<c, s>>
  /\ Busy(S.regs[c], S.regs[s])

LiveAt(S, f) ==
  /\ Coming(S, f)
  /\ S.regs[f].place = <<f>> => Keen(S.regs[f])
  /\ \A c, s \in Fd : f \in {c, s} /\ S.regs[f].place = <<c, s>> => Couple(S, c, s)
Live(S) == \A f \in Fd : LiveAt(S, f)

\* The fields that there are, whatever is in them.
Shaped(S) ==
  /\ DOMAIN S = DOMAIN Blank /\ DOMAIN S.regs = Fd
  /\ \A f \in Fd : DOMAIN S.regs[f] = DOMAIN Free
  /\ S.queries \in [Key -> Nat]

\* A pair, and a socket alone, of which only the others are known to be live.
LivePair(S, c, s) ==
  /\ Shaped(S) /\ c # s
  /\ S.regs[c].place = <<c, s>> /\ S.regs[s].place = <<c, s>>
  /\ \A g \in Fd \ {c, s} : LiveAt(S, g)
LiveLone(S, c) ==
  /\ Shaped(S) /\ S.regs[c].place = <<c>> /\ \A g \in Fd \ {c} : LiveAt(S, g)

\* Every server state has these fields.
LEMMA ServerIsShaped == \A S \in Server : Shaped(S)
  BY DEF Server, Reg, Free, Shaped, Blank

\* T differs from S at D only, where it may also have forgotten queries.
Spares(S, T, D) ==
  /\ \A g \in Fd \ D : T.regs[g] = S.regs[g]
  /\ \A g \in Fd \ D, h \in Host : /\ Asked(S, g, h) => Asked(T, g, h)
                                   /\ S.queries[<<g, h>>] > 0 => T.queries[<<g, h>>] > 0

\* Whoever is not touched, nor the other end of its pair, stays live.
LEMMA LiveElsewhere ==
  ASSUME NEW S, NEW T, NEW D \in SUBSET Fd, Spares(S, T, D), Apart(S, D),
         NEW g \in Fd \ D, LiveAt(S, g)
  PROVE  LiveAt(T, g)
<1>1. T.regs[g] = S.regs[g]
  BY DEF Spares
<1>2. ASSUME NEW c \in Fd, NEW s \in Fd, g \in {c, s}, S.regs[g].place = <<c, s>>
      PROVE  Couple(T, c, s)
  <2>1. Couple(S, c, s)
    BY <1>2 DEF LiveAt
  <2>2. c \notin D /\ s \notin D
    BY <1>2, <2>1 DEF Apart, Couple
  <2>3. T.regs[c] = S.regs[c] /\ T.regs[s] = S.regs[s]
    BY <2>2 DEF Spares
  <2> QED
    BY <2>1, <2>3 DEF Couple
<1>3. Coming(T, g)
  BY <1>1 DEF LiveAt, Coming, Awaits, Spares
<1> QED
  BY <1>1, <1>2, <1>3 DEF LiveAt

\* A change of a pair that stays a pair.
LEMMA PairSpares ==
  ASSUME NEW S, NEW T, NEW c \in Fd, NEW s \in Fd, LivePair(S, c, s), Shaped(T),
         Spares(S, T, {c, s}), T.regs[c].place = <<c, s>>, T.regs[s].place = <<c, s>>
  PROVE  LivePair(T, c, s)
<1>1. Apart(S, {c, s}) /\ {c, s} \in SUBSET Fd
  BY SamePlace DEF Apart, LivePair
<1>2. \A g \in Fd \ {c, s} : LiveAt(T, g)
  BY <1>1, LiveElsewhere DEF LivePair
<1> QED
  BY <1>2 DEF LivePair

\* A change of a pair that leaves nothing of it, or of both but one alone.
LEMMA EndsSpare ==
  ASSUME NEW S, NEW T, NEW c \in Fd, NEW s \in Fd, LivePair(S, c, s), Shaped(T),
         Spares(S, T, {c, s}), T.regs[s].place = <<>>
  PROVE  /\ T.regs[c].place = <<>> => Live(T)
         /\ T.regs[c].place = <<c>> => LiveLone(T, c)
<1>1. Apart(S, {c, s}) /\ {c, s} \in SUBSET Fd
  BY SamePlace DEF Apart, LivePair
<1>2. \A g \in Fd \ {c, s} : LiveAt(T, g)
  BY <1>1, LiveElsewhere DEF LivePair
<1>3. ASSUME NEW g \in Fd, T.regs[g].place = <<>> PROVE LiveAt(T, g)
  BY <1>3, Places1 DEF LiveAt, Coming, Awaits
<1> QED
  BY <1>2, <1>3 DEF Live, LiveLone

\* A change of a socket that is alone.
LEMMA LoneSpares ==
  ASSUME NEW S, NEW T, NEW c \in Fd, LiveLone(S, c), Shaped(T), Spares(S, T, {c})
  PROVE  /\ T.regs[c].place = <<>> => Live(T)
         /\ T.regs[c].place = <<c>> => LiveLone(T, c)
<1>1. Apart(S, {c}) /\ {c} \in SUBSET Fd
  BY Places1 DEF Apart, LiveLone
<1>2. \A g \in Fd \ {c} : LiveAt(T, g)
  BY <1>1, LiveElsewhere DEF LiveLone
<1>3. T.regs[c].place = <<>> => LiveAt(T, c)
  BY Places1 DEF LiveAt, Coming, Awaits
<1> QED
  BY <1>2, <1>3 DEF Live, LiveLone

\* A pair is live when its two ends are.
LEMMA PairIsLive ==
  ASSUME NEW S, NEW c \in Fd, NEW s \in Fd, LivePair(S, c, s), Busy(S.regs[c], S.regs[s]),
         S.regs[c].handler.kind # "resolving", S.regs[s].handler.kind # "resolving"
  PROVE  Live(S)
<1>1. Couple(S, c, s)
  BY DEF LivePair, Couple
<1>2. ASSUME NEW f \in {c, s} PROVE LiveAt(S, f)
  <2>1. Coming(S, f)
    BY DEF Coming, Awaits
  <2>2. S.regs[f].place = <<c, s>> /\ S.regs[f].place # <<f>>
    <3>1. S.regs[f].place = <<c, s>>
      BY DEF LivePair
    <3> QED
      BY <3>1, Places1
  <2>3. ASSUME NEW a \in Fd, NEW b \in Fd, S.regs[f].place = <<a, b>> PROVE Couple(S, a, b)
    BY <1>1, <2>2, <2>3, SamePlace
  <2> QED
    BY <2>1, <2>2, <2>3 DEF LiveAt
<1> QED
  BY <1>2 DEF Live, LivePair

\* A socket alone is live when it waits for what it does.
LEMMA LoneIsLive ==
  ASSUME NEW S, NEW c \in Fd, LiveLone(S, c), Keen(S.regs[c]), Coming(S, c)
  PROVE  Live(S)
<1>1. \A a, b : S.regs[c].place # <<a, b>>
  BY Places1 DEF LiveLone
<1> QED
  BY <1>1 DEF Live, LiveLone, LiveAt


-----------------------------------------------------------------------------
\* T has another interest, closure or buffer than S for f, and all else alike.
Sets(S, T, f) ==
  /\ Shaped(T) /\ T.regs[f].place = S.regs[f].place
  /\ \A g \in Fd \ {f} : T.regs[g] = S.regs[g]
  /\ T.on_resolve = S.on_resolve /\ T.queries = S.queries

\* A pair stays one when what an end waits for is set.
LEMMA PairSets ==
  ASSUME NEW S, NEW T, NEW c \in Fd, NEW s \in Fd, NEW f \in {c, s}, LivePair(S, c, s), Sets(S, T, f)
  PROVE  LivePair(T, c, s)
<1>1. Spares(S, T, {c, s})
  BY DEF Spares, Sets, Asked
<1>2. T.regs[c].place = <<c, s>> /\ T.regs[s].place = <<c, s>>
  BY DEF LivePair, Sets
<1> QED
  BY <1>1, <1>2, PairSpares DEF Sets

\* ... and so does a socket alone.
LEMMA LoneSets ==
  ASSUME NEW S, NEW T, NEW c \in Fd, LiveLone(S, c), Sets(S, T, c)
  PROVE  LiveLone(T, c)
<1>1. Spares(S, T, {c})
  BY DEF Spares, Sets, Asked
<1> QED
  BY <1>1, LoneSpares DEF Sets, LiveLone

\* set_events()
LEMMA WatchSets ==
  ASSUME NEW S, Shaped(S), NEW f \in Fd, NEW e
  PROVE  LET T == Watch(S, f, e) IN
         /\ Sets(S, T, f) /\ T.regs[f].interest = e
         /\ T.regs[f].handler = S.regs[f].handler /\ T.regs[f].buf = S.regs[f].buf
         /\ T.cached = S.cached
  BY DEF Watch, Shaped, Free, Blank, Sets

\* set_events() and set_handler()
LEMMA OnSets ==
  ASSUME NEW S, Shaped(S), NEW f \in Fd, NEW e, NEW h
  PROVE  LET T == On(S, f, e, h) IN
         /\ Sets(S, T, f) /\ T.regs[f].interest = e
         /\ T.regs[f].handler = h /\ T.regs[f].buf = S.regs[f].buf
<1> DEFINE W == Watch(S, f, e)
           T == Install(W, f, h)
<1>1. Sets(S, W, f) /\ W.regs[f].interest = e /\ W.regs[f].buf = S.regs[f].buf
  BY WatchSets
<1> HIDE DEF W
<1>2. /\ Shaped(T) /\ T.regs[f].place = W.regs[f].place
      /\ \A g \in Fd \ {f} : T.regs[g] = W.regs[g]
      /\ T.on_resolve = W.on_resolve /\ T.queries = W.queries
      /\ T.regs[f].interest = W.regs[f].interest
      /\ T.regs[f].handler = h /\ T.regs[f].buf = W.regs[f].buf
  BY <1>1 DEF Install, Shaped, Free, Blank, Sets
<1> HIDE DEF T
<1>3. Sets(S, T, f) /\ T.regs[f].interest = e
      /\ T.regs[f].handler = h /\ T.regs[f].buf = S.regs[f].buf
  BY <1>1, <1>2 DEF Sets
<1> QED
  BY <1>3 DEF On, T, W

\* What is in a buffer.
LEMMA BufferSets ==
  ASSUME NEW S, Shaped(S), NEW f \in Fd, NEW content
  PROVE  LET T == Buffer(S, f, content) IN
         /\ Sets(S, T, f) /\ T.regs[f].interest = S.regs[f].interest
         /\ T.regs[f].handler = S.regs[f].handler /\ T.regs[f].buf = content
  BY DEF Buffer, Shaped, Free, Blank, Sets

\* What is in the cache is of no account here.
LEMMA CachedSets ==
  ASSUME NEW S, Shaped(S), NEW X
  PROVE  LET T == [S EXCEPT !.cached = X] IN
         T.regs = S.regs /\ \A f \in Fd : Sets(S, T, f)
  BY DEF Shaped, Blank, Sets

\* close() of a pair.
LEMMA PairCloseIsLive ==
  ASSUME NEW S, NEW c \in Fd, NEW s \in Fd, LivePair(S, c, s)
  PROVE  Live(Close(S, <<c, s>>))
<1> DEFINE T == Close(S, <<c, s>>)
<1>1. Members(<<c, s>>) = {c, s}
  BY Places1
<1>2. /\ Shaped(T) /\ T.regs[c] = Free /\ T.regs[s] = Free
      /\ \A g \in Fd \ {c, s} : T.regs[g] = S.regs[g]
      /\ T.on_resolve = S.on_resolve /\ T.queries = S.queries
  BY <1>1 DEF Close, Shaped, LivePair, Blank
<1> HIDE DEF T
<1>3. Spares(S, T, {c, s}) /\ T.regs[s].place = <<>> /\ T.regs[c].place = <<>>
  BY <1>2, FreeIsReg DEF Spares, Asked
<1>4. Live(T)
  BY <1>2, <1>3, EndsSpare
<1> QED
  BY <1>4 DEF T

\* close() of a socket alone.
LEMMA LoneCloseIsLive ==
  ASSUME NEW S, NEW c \in Fd, LiveLone(S, c)
  PROVE  Live(Close(S, <<c>>))
<1> DEFINE T == Close(S, <<c>>)
<1>1. Members(<<c>>) = {c}
  BY Places1
<1>2. /\ Shaped(T) /\ T.regs[c] = Free
      /\ \A g \in Fd \ {c} : T.regs[g] = S.regs[g]
      /\ T.on_resolve = S.on_resolve /\ T.queries = S.queries
  BY <1>1 DEF Close, Shaped, LiveLone, Blank
<1> HIDE DEF T
<1>3. Spares(S, T, {c}) /\ T.regs[c].place = <<>>
  BY <1>2, FreeIsReg DEF Spares, Asked
<1>4. Live(T)
  BY <1>2, <1>3, LoneSpares
<1> QED
  BY <1>4 DEF T

\* escape_client() and close() of the connection leave the client alone.
LEMMA EscapeIsLone ==
  ASSUME NEW S, NEW c \in Fd, NEW s \in Fd, LivePair(S, c, s)
  PROVE  LiveLone(Escape(S, <<c, s>>), c)
<1> DEFINE T == Escape(S, <<c, s>>)
<1>1. c # s /\ Shaped(S)
  BY DEF LivePair
<1>2. /\ Shaped(T) /\ T.regs[c].place = <<c>> /\ T.regs[s] = Free
      /\ \A g \in Fd \ {c, s} : T.regs[g] = S.regs[g]
      /\ T.on_resolve = S.on_resolve /\ T.queries = S.queries
  BY <1>1 DEF Escape, Shaped, Free, Blank
<1> HIDE DEF T
<1>3. Spares(S, T, {c, s}) /\ T.regs[s].place = <<>>
  BY <1>2, FreeIsReg DEF Spares, Asked
<1>4. LiveLone(T, c)
  BY <1>2, <1>3, EndsSpare
<1> QED
  BY <1>4 DEF T

\* on_resolve.erase() is of no account to the registrations and to other
\* descriptors' queries.
LEMMA ForgetSpares ==
  ASSUME NEW S, Shaped(S), NEW c \in Fd, NEW x
  PROVE  LET T == Forget(S, <<c, x>>) IN
         Shaped(T) /\ T.regs = S.regs /\ Spares(S, T, {c})
<1> DEFINE T == Forget(S, <<c, x>>)
           R == [k \in DOMAIN S.on_resolve \ {<<c, x>>} |-> S.on_resolve[k]]
<1>1. DOMAIN R = DOMAIN S.on_resolve \ {<<c, x>>}
  OBVIOUS
<1> HIDE DEF R
<1>2. /\ Shaped(T) /\ T.regs = S.regs /\ T.on_resolve = R /\ T.queries = S.queries
  BY DEF Forget, R, Shaped, Blank
<1> HIDE DEF T
<1>3. \A g, h : g # c => <<g, h>> # <<c, x>>
  BY SamePlace
<1> QED
  BY <1>1, <1>2, <1>3 DEF Spares, Asked, T
-----------------------------------------------------------------------------
\* What a socket alone waits for after read() or send().
LEMMA LoneWaits ==
  ASSUME NEW S, NEW c \in Fd, LiveLone(S, c), NEW rq, NEW next
  PROVE  Live(Read(S, c, <<c>>, rq, next)) /\ Live(Send(S, c, <<c>>, rq, next))
<1>1. ASSUME NEW e, NEW h, h.kind # "resolving", h.kind = "read" => "IN" \in e,
             h.kind = "send" => "OUT" \in e
      PROVE  Live(On(S, c, e, h))
  <2> DEFINE T == On(S, c, e, h)
  <2>1. Sets(S, T, c) /\ T.regs[c].interest = e /\ T.regs[c].handler = h
    BY OnSets DEF LiveLone
  <2> HIDE DEF T
  <2>2. LiveLone(T, c)
    BY <2>1, LoneSets
  <2>3. Keen(T.regs[c]) /\ Coming(T, c)
    BY <1>1, <2>1 DEF Keen, Coming, Awaits
  <2>4. Live(T)
    BY <2>2, <2>3, LoneIsLive
  <2> QED
    BY <2>4 DEF T
<1> DEFINE r == Closure("read", <<c>>, rq, next)
           w == Closure("send", <<c>>, rq, next)
<1>2. r.kind = "read" /\ w.kind = "send"
  BY DEF Closure
<1> HIDE DEF r, w
<1>3. Live(On(S, c, {"IN", "RDHUP"}, r)) /\ Live(On(S, c, {"OUT", "RDHUP"}, w))
  BY <1>1, <1>2
<1> QED
  BY <1>3 DEF Read, Send, r, w

\* connect_to_server(): the client has its entry, its own or an older one, and one
\* more answer is to come.
LEMMA LoneAsks ==
  ASSUME NEW S, NEW c \in Fd, LiveLone(S, c), NEW rq \in Request, NEW next
  PROVE  Live(ConnectToServer(S, c, rq, next))
<1> DEFINE k == <<c, rq.host>>
           entry == [rq |-> rq, next |-> next]
           R == [x \in DOMAIN S.on_resolve \cup {k} |->
                   IF x \in DOMAIN S.on_resolve THEN S.on_resolve[x] ELSE entry]
           Q == [S.queries EXCEPT ![k] = @ + 1]
           A == [S EXCEPT !.queries = Q, !.on_resolve = R]
           h == Closure("resolving", <<c>>, rq, next)
           T == On(A, c, {"RDHUP"}, h)
<1>1. rq.host \in Host /\ k \in Key /\ Shaped(S)
  BY DEF Request, Key, LiveLone
<1>2. DOMAIN R = DOMAIN S.on_resolve \cup {k}
  OBVIOUS
<1>3. /\ Q \in [Key -> Nat] /\ Q[k] > 0
      /\ \A x \in Key : S.queries[x] > 0 => Q[x] > 0
  BY <1>1 DEF Shaped
<1>4. ConnectToServer(S, c, rq, next) = T
  BY DEF ConnectToServer
<1>5. h.kind = "resolving" /\ h.rq.host = rq.host
  BY DEF Closure
<1> HIDE DEF R, Q, h
<1>6. Shaped(A) /\ A.regs = S.regs /\ A.on_resolve = R /\ A.queries = Q
  BY <1>1, <1>3 DEF Shaped, Blank
<1> HIDE DEF A
<1>7. Sets(A, T, c) /\ T.regs[c].interest = {"RDHUP"} /\ T.regs[c].handler = h
  BY <1>6, OnSets
<1> HIDE DEF T
<1>8. Spares(S, T, {c})
  <2>1. \A g \in Fd, x \in Host : <<g, x>> \in Key
    BY DEF Key
  <2> QED
    BY <1>2, <1>3, <1>6, <1>7, <2>1 DEF Spares, Sets, Asked
<1>9. LiveLone(T, c)
  BY <1>6, <1>7, <1>8, LoneSpares DEF LiveLone, Sets
<1>10. Coming(T, c)
  <2>1. Asked(T, c, rq.host) /\ T.queries[<<c, rq.host>>] > 0
    BY <1>2, <1>3, <1>6, <1>7 DEF Sets, Asked
  <2>2. \A x \in Host : Awaits(T, c, x) => x = rq.host
    BY <1>5, <1>7 DEF Awaits
  <2> QED
    BY <2>1, <2>2 DEF Coming
<1>11. Live(T)
  BY <1>5, <1>7, <1>9, <1>10, LoneIsLive DEF Keen
<1> QED
  BY <1>4, <1>11

\* No end of the pair is in a tunnel or waits for a host.
Calm(S, c, s) == \A g \in {c, s} : S.regs[g].handler.kind \notin {"resolving", "tunnel"}

\* A pair whose other end is not in a tunnel and does not wait for a host is live
\* when one end sends, when the server's reads, or when the client's reads while the
\* server's is not relayed from.
LEMMA PairWaitsLive ==
  ASSUME NEW S, NEW c \in Fd, NEW s \in Fd, LivePair(S, c, s), NEW f \in {c, s},
         NEW rq, NEW next, Calm(S, c, s)
  PROVE  /\ Live(Send(S, f, <<c, s>>, rq, next))
         /\ f = s \/ S.regs[s].handler.kind # "relay_in" => Live(Read(S, f, <<c, s>>, rq, next))
<1>0. c # s /\ Shaped(S)
  BY DEF LivePair
<1>1. ASSUME NEW e, NEW h,
             \/ h.kind = "send" /\ "OUT" \in e
             \/ h.kind = "read" /\ "IN" \in e /\ (f = s \/ S.regs[s].handler.kind # "relay_in")
      PROVE  Live(On(S, f, e, h))
  <2> DEFINE T == On(S, f, e, h)
  <2>1. Sets(S, T, f) /\ T.regs[f].interest = e /\ T.regs[f].handler = h
    BY <1>0, OnSets
  <2> HIDE DEF T
  <2>2. LivePair(T, c, s)
    BY <2>1, PairSets
  <2>3. Busy(T.regs[c], T.regs[s])
    <3>1. CASE f = c
      BY <1>0, <1>1, <2>1, <3>1 DEF Busy, Sets, Calm
    <3>2. CASE f = s
      BY <1>0, <1>1, <2>1, <3>2 DEF Busy, Sets, Calm
    <3> QED
      BY <3>1, <3>2
  <2>4. \A g \in {c, s} : T.regs[g].handler.kind # "resolving"
    BY <1>1, <2>1 DEF Sets, Calm
  <2>5. Live(T)
    BY <2>2, <2>3, <2>4, PairIsLive
  <2> QED
    BY <2>5 DEF T
<1> DEFINE r == Closure("read", <<c, s>>, rq, next)
           w == Closure("send", <<c, s>>, rq, next)
<1>2. r.kind = "read" /\ w.kind = "send"
  BY DEF Closure
<1> HIDE DEF r, w
<1>3. Live(On(S, f, {"OUT", "RDHUP"}, w))
  BY <1>1, <1>2
<1>4. f = s \/ S.regs[s].handler.kind # "relay_in" => Live(On(S, f, {"IN", "RDHUP"}, r))
  BY <1>1, <1>2
<1> QED
  BY <1>3, <1>4 DEF Read, Send, r, w

\* set_events() and a change of a buffer leave the handlers.
LEMMA PairSetsCalm ==
  ASSUME NEW S, NEW T, NEW c \in Fd, NEW s \in Fd, NEW f \in {c, s},
         LivePair(S, c, s), Calm(S, c, s), Sets(S, T, f),
         T.regs[f].handler = S.regs[f].handler
  PROVE  /\ LivePair(T, c, s) /\ Calm(T, c, s)
         /\ \A g \in {c, s} : T.regs[g].handler = S.regs[g].handler
<1>1. LivePair(T, c, s)
  BY PairSets
<1>2. \A g \in {c, s} : T.regs[g].handler = S.regs[g].handler
  BY DEF Sets
<1> QED
  BY <1>1, <1>2 DEF Calm

\* fast_transfer() and handle_client_request(): one end sends.
LEMMA HandlesLive ==
  ASSUME NEW S, NEW c \in Fd, NEW s \in Fd, LivePair(S, c, s), Calm(S, c, s), NEW rq
  PROVE  /\ Live(FastTransfer(S, <<c, s>>, rq))
         /\ Live(HandleRequest(S, <<c, s>>, rq))
<1>1. <<c, s>>[1] = c /\ <<c, s>>[2] = s
  OBVIOUS
<1>2. Live(FastTransfer(S, <<c, s>>, rq))
  BY <1>1, PairWaitsLive DEF FastTransfer
<1>3. Live(HandleRequest(S, <<c, s>>, rq))
  <2>1. /\ Live(Send(S, s, <<c, s>>, rq, "validate"))
        /\ Live(Send(S, c, <<c, s>>, rq, "tunnel"))
    BY PairWaitsLive
  <2>2. \/ HandleRequest(S, <<c, s>>, rq) = Send(S, s, <<c, s>>, rq, "validate")
        \/ HandleRequest(S, <<c, s>>, rq) = Send(S, c, <<c, s>>, rq, "tunnel")
        \/ HandleRequest(S, <<c, s>>, rq) = FastTransfer(S, <<c, s>>, rq)
    BY <1>1 DEF HandleRequest
  <2> QED
    BY <1>2, <2>1, <2>2
<1> QED
  BY <1>2, <1>3

\* reconnect(): the client is alone and asks.
LEMMA ReconnectsLive ==
  ASSUME NEW S, NEW c \in Fd, NEW s \in Fd, LivePair(S, c, s), NEW rq \in Request, NEW next
  PROVE  Live(Reconnect(S, <<c, s>>, rq, next))
<1>1. LiveLone(Escape(S, <<c, s>>), c)
  BY EscapeIsLone
<1>2. Live(ConnectToServer(Escape(S, <<c, s>>), c, rq, next))
  BY <1>1, LoneAsks
<1> QED
  BY <1>2 DEF Reconnect

\* send_server_response(): the client's end sends, alone or in the pair.
LEMMA RespondsLive ==
  ASSUME NEW S, NEW c \in Fd, NEW s \in Fd, LivePair(S, c, s), Calm(S, c, s), NEW rq,
         NEW closed \in BOOLEAN
  PROVE  Live(SendServerResponse(S, <<c, s>>, rq, closed))
<1> DEFINE E == Escape(S, <<c, s>>)
           B == Buffer(S, s, "empty")
           W == Watch(B, s, {})
<1>1. <<c, s>>[1] = c /\ <<c, s>>[2] = s
  OBVIOUS
<1>2. Live(Send(E, c, <<c>>, rq, "close"))
  BY EscapeIsLone, LoneWaits
<1>3. Sets(S, B, s) /\ B.regs[s].handler = S.regs[s].handler
  BY BufferSets DEF LivePair
<1> HIDE DEF B
<1>4. LivePair(B, c, s) /\ Calm(B, c, s)
  BY <1>3, PairSetsCalm
<1>5. Sets(B, W, s) /\ W.regs[s].handler = B.regs[s].handler
  BY <1>4, WatchSets DEF LivePair
<1> HIDE DEF W
<1>6. LivePair(W, c, s) /\ Calm(W, c, s)
  BY <1>4, <1>5, PairSetsCalm
<1>7. Live(Send(W, c, <<c, s>>, rq, "reuse"))
  BY <1>6, PairWaitsLive
<1> QED
  BY <1>1, <1>2, <1>7 DEF SendServerResponse, W, B

\* What follows a message that was sent.
LEMMA GoesOnLive ==
  ASSUME NEW S, NEW c \in Fd, NEW s \in Fd, LivePair(S, c, s), Calm(S, c, s), NEW rq,
         NEW next \in {"validate", "transfer", "reuse", "tunnel", "close"}
  PROVE  Live(Sent(S, <<c, s>>, rq, next))
<1>0. <<c, s>>[1] = c /\ <<c, s>>[2] = s /\ c # s /\ Shaped(S)
  BY DEF LivePair
<1> DEFINE it == <<c, s>>
<1>1. Live(StartValidation(S, it, rq))
  BY <1>0, PairWaitsLive DEF StartValidation
<1>2. ASSUME NEW e, NEW h, NEW e2, NEW h2,
             Busy([S.regs[c] EXCEPT !.interest = e2, !.handler = h2],
                  [S.regs[s] EXCEPT !.interest = e, !.handler = h]),
             h.kind # "resolving", h2.kind # "resolving"
      PROVE  Live(On(On(S, s, e, h), c, e2, h2))
  <2> DEFINE T == On(S, s, e, h)
             U == On(T, c, e2, h2)
  <2>1. /\ Sets(S, T, s) /\ T.regs[s].interest = e /\ T.regs[s].handler = h
        /\ T.regs[s].buf = S.regs[s].buf
    BY <1>0, OnSets
  <2> HIDE DEF T
  <2>2. LivePair(T, c, s)
    BY <2>1, PairSets
  <2>3. /\ Sets(T, U, c) /\ U.regs[c].interest = e2 /\ U.regs[c].handler = h2
        /\ U.regs[c].buf = T.regs[c].buf
    BY <2>2, OnSets DEF LivePair
  <2> HIDE DEF U
  <2>4. LivePair(U, c, s)
    BY <2>2, <2>3, PairSets
  <2>5. /\ U.regs[c].interest = e2 /\ U.regs[c].handler = h2 /\ U.regs[c].buf = S.regs[c].buf
        /\ U.regs[s].interest = e /\ U.regs[s].handler = h /\ U.regs[s].buf = S.regs[s].buf
    BY <1>0, <2>1, <2>3 DEF Sets
  <2>6. DOMAIN S.regs[c] = DOMAIN Free /\ DOMAIN S.regs[s] = DOMAIN Free
    BY <1>0 DEF Shaped
  <2>7. Busy(U.regs[c], U.regs[s])
    BY <1>2, <2>5, <2>6 DEF Busy, Flows, Free
  <2>8. Live(U)
    BY <1>2, <2>4, <2>5, <2>7, PairIsLive
  <2> QED
    BY <2>8 DEF U, T
<1>3. Live(StartTransfer(S, it, rq))
  <2> DEFINE h == Closure("relay_in", it, rq, "")
             h2 == Closure("relay_out", it, rq, "")
  <2>1. h.kind = "relay_in" /\ h2.kind = "relay_out"
    BY DEF Closure
  <2> HIDE DEF h, h2
  <2>2. Live(On(On(S, s, {"IN", "RDHUP"}, h), c, {"RDHUP"}, h2))
    <3>1. DOMAIN S.regs[c] = DOMAIN Free /\ DOMAIN S.regs[s] = DOMAIN Free
      BY <1>0 DEF Shaped
    <3>2. Busy([S.regs[c] EXCEPT !.interest = {"RDHUP"}, !.handler = h2],
               [S.regs[s] EXCEPT !.interest = {"IN", "RDHUP"}, !.handler = h])
      BY <2>1, <3>1 DEF Busy, Free
    <3> QED
      BY <1>2, <2>1, <3>2
  <2> QED
    BY <1>0, <2>2 DEF StartTransfer, h, h2
<1>4. Live(ReuseConnection(S, it, rq))
  <2> DEFINE h == Closure("idle", it, rq, "")
             h2 == Closure("read", it, rq, "again")
  <2>1. h.kind = "idle" /\ h2.kind = "read"
    BY DEF Closure
  <2> HIDE DEF h, h2
  <2>2. Live(On(On(S, s, {"RDHUP"}, h), c, {"IN", "RDHUP"}, h2))
    <3>1. DOMAIN S.regs[c] = DOMAIN Free /\ DOMAIN S.regs[s] = DOMAIN Free
      BY <1>0 DEF Shaped
    <3>2. Busy([S.regs[c] EXCEPT !.interest = {"IN", "RDHUP"}, !.handler = h2],
               [S.regs[s] EXCEPT !.interest = {"RDHUP"}, !.handler = h])
      BY <2>1, <3>1 DEF Busy, Free
    <3> QED
      BY <1>2, <2>1, <3>2
  <2> QED
    BY <1>0, <2>2 DEF ReuseConnection, Read, h, h2
<1>5. Live(HandleConnect(S, it, rq))
  <2> DEFINE h == Closure("tunnel", it, rq, "")
  <2>1. h.kind = "tunnel"
    BY DEF Closure
  <2> HIDE DEF h
  <2>2. Live(On(On(S, s, {"RDHUP", "IN", "OUT"}, h), c, {"RDHUP", "IN", "OUT"}, h))
    <3>1. DOMAIN S.regs[c] = DOMAIN Free /\ DOMAIN S.regs[s] = DOMAIN Free
      BY <1>0 DEF Shaped
    <3>2. Busy([S.regs[c] EXCEPT !.interest = {"RDHUP", "IN", "OUT"}, !.handler = h],
               [S.regs[s] EXCEPT !.interest = {"RDHUP", "IN", "OUT"}, !.handler = h])
      BY <2>1, <3>1 DEF Busy, Flows, Free
    <3> QED
      BY <1>2, <2>1, <3>2
  <2> QED
    BY <1>0, <2>2 DEF HandleConnect, h
<1>6. Live(Close(S, it))
  BY PairCloseIsLive
<1> QED
  BY <1>1, <1>3, <1>4, <1>5, <1>6 DEF Sent

-----------------------------------------------------------------------------
(***************************************************************************)
(* One lemma for each action.                                              *)
(***************************************************************************)
\* A program that has stopped has nobody who waits.
LEMMA BlankIsLive == Live(Blank)
<1>1. \A f \in Fd : Blank.regs[f].place = <<>>
  BY FreeIsReg DEF Blank
<1> QED
  BY <1>1, Places1 DEF Live, LiveAt, Coming, Awaits

\* ... and that is what a halt leaves.
LEMMA HaltLives ==
  ASSUME NEW why, Halt(why)
  PROVE  Live(server')
<1>1. server' = Blank
  BY DEF Halt
<1> QED
  BY <1>1, BlankIsLive

\* A handler that returns with a live state leaves one.
LEMMA ReturnsLive ==
  ASSUME NEW S, Live(S), Return(S) \/ Returns(S)
  PROVE  Live(server')
<1>1. server' = S
  BY DEF Return, Returns
<1> QED
  BY <1>1

\* A state is live for its places, interests, closures, buffers and queries, whatever
\* else is in it.
LEMMA LiveTouch ==
  ASSUME NEW S, NEW T, Live(S),
         \A f \in Fd : /\ T.regs[f].place = S.regs[f].place
                       /\ T.regs[f].interest = S.regs[f].interest
                       /\ T.regs[f].handler = S.regs[f].handler
                       /\ T.regs[f].buf = S.regs[f].buf,
         T.on_resolve = S.on_resolve, T.queries = S.queries
  PROVE  Live(T)
<1> SUFFICES ASSUME NEW f \in Fd PROVE LiveAt(T, f)
  BY DEF Live
<1>1. LiveAt(S, f)
  BY DEF Live
<1>2. Coming(T, f)
  BY <1>1 DEF LiveAt, Coming, Awaits, Asked
<1>3. ASSUME NEW c \in Fd, NEW s \in Fd, Couple(S, c, s) PROVE Couple(T, c, s)
  BY <1>3 DEF Couple, Busy, Flows
<1> QED
  BY <1>1, <1>2, <1>3 DEF LiveAt, Keen

\* Both ends of a live pair.
LEMMA LivesAsPair ==
  ASSUME NEW S \in Server, Live(S), NEW c \in Fd, NEW s \in Fd,
         PairAt(S, c, c, s), PairAt(S, s, c, s)
  PROVE  /\ LivePair(S, c, s) /\ Busy(S.regs[c], S.regs[s])
         /\ \A g \in {c, s} : S.regs[g].handler.kind # "resolving"
         /\ \A g \in {c, s} : S.regs[g].handler.kind # "tunnel" => Calm(S, c, s)
<1>1. c # s /\ S.regs[c].place = <<c, s>> /\ S.regs[s].place = <<c, s>>
  BY DEF PairAt
<1>2. Shaped(S)
  BY ServerIsShaped
<1>3. LivePair(S, c, s)
  BY <1>1, <1>2 DEF LivePair, Live
<1>4. LiveAt(S, c)
  BY DEF Live
<1>5. Busy(S.regs[c], S.regs[s])
  BY <1>1, <1>4 DEF LiveAt, Couple
<1>6. ASSUME NEW g \in {c, s} PROVE S.regs[g].handler.kind # "resolving"
  <2>1. HasPair(S.regs[g].handler, g, c, s, S.regs[c].who, S.regs[s].who)
    BY DEF PairAt
  <2> QED
    BY <2>1 DEF HasPair, AtServer, AtClient
<1> QED
  BY <1>3, <1>5, <1>6 DEF Calm, Busy

\* A socket alone.
LEMMA LivesAlone ==
  ASSUME NEW S \in Server, Live(S), NEW c \in Fd, S.regs[c].place = <<c>>
  PROVE  LiveLone(S, c)
  BY ServerIsShaped DEF LiveLone, Live

\* Timer: a pair is closed as one.
LEMMA TimerLives == ASSUME Inv, Live(server), Timer PROVE Live(server')
<1> DEFINE S == server
<1>1. S \in Server
  BY DEF Inv, Good
<1>2. PICK expired \in SUBSET Places :
        Returns([S EXCEPT !.regs =
                   [f \in Fd |-> IF regs[f].place \in expired THEN Free ELSE regs[f]]])
  BY DEF Timer
<1> DEFINE R == [f \in Fd |-> IF regs[f].place \in expired THEN Free ELSE regs[f]]
           T == [S EXCEPT !.regs = R]
<1>3. \A f \in Fd : R[f] = IF S.regs[f].place \in expired THEN Free ELSE S.regs[f]
  BY DEF regs
<1> HIDE DEF R
<1>4. T.regs = R /\ T.on_resolve = S.on_resolve /\ T.queries = S.queries
  BY <1>1 DEF Server
<1>5. server' = T
  BY <1>2 DEF Returns, Return, R
<1> HIDE DEF T
<1>6. ASSUME NEW f \in Fd PROVE LiveAt(T, f)
  <2>1. CASE S.regs[f].place \in expired
    <3>1. T.regs[f].place = <<>>
      BY <1>3, <1>4, <2>1, FreeIsReg
    <3> QED
      BY <3>1, Places1 DEF LiveAt, Coming, Awaits
  <2>2. CASE S.regs[f].place \notin expired
    <3>1. T.regs[f] = S.regs[f] /\ LiveAt(S, f)
      BY <1>3, <1>4, <2>2 DEF Live
    <3>2. ASSUME NEW c \in Fd, NEW s \in Fd, f \in {c, s}, S.regs[f].place = <<c, s>>
          PROVE  Couple(T, c, s)
      <4>1. Couple(S, c, s)
        BY <3>1, <3>2 DEF LiveAt
      <4>2. T.regs[c] = S.regs[c] /\ T.regs[s] = S.regs[s]
        BY <1>3, <1>4, <2>2, <3>2, <4>1 DEF Couple
      <4> QED
        BY <4>1, <4>2 DEF Couple
    <3>3. Coming(T, f)
      BY <1>4, <3>1 DEF LiveAt, Coming, Awaits, Asked
    <3> QED
      BY <3>1, <3>2, <3>3 DEF LiveAt
  <2> QED
    BY <2>1, <2>2
<1> QED
  BY <1>5, <1>6 DEF Live

\* accept_handler: the client is to send its request.
LEMMA AcceptLives ==
  ASSUME Inv, Live(server), NEW c \in Client, NEW f \in Fd, Accept(c, f)
  PROVE  Live(server')
<1> DEFINE S == server
           T == Accepted(S, f, c)
<1>1. S \in Server /\ S.regs[f].place = <<>> /\ Return(Read(T, f, <<f>>, None, "first"))
  BY DEF Inv, Good, Accept, Closed, regs
<1>2. Shaped(S)
  BY <1>1, ServerIsShaped
<1> HIDE DEF S
<1>3. /\ Shaped(T) /\ T.regs[f].place = <<f>>
      /\ \A g \in Fd \ {f} : T.regs[g] = S.regs[g]
      /\ T.on_resolve = S.on_resolve /\ T.queries = S.queries
  BY <1>2 DEF Accepted, Shaped, Blank, Free
<1> HIDE DEF T
<1>4. Spares(S, T, {f}) /\ Apart(S, {f})
  BY <1>1, <1>3, Places1 DEF Spares, Asked, Apart
<1>5. \A g \in Fd \ {f} : LiveAt(T, g)
  BY <1>4, LiveElsewhere DEF Live, S
<1>6. LiveLone(T, f)
  BY <1>3, <1>5 DEF LiveLone
<1>7. Live(Read(T, f, <<f>>, None, "first"))
  BY <1>6, LoneWaits
<1> QED
  BY <1>1, <1>7, ReturnsLive

\* An answer is taken: there is one less to come for this descriptor, if it waits.
LEMMA TakenSpares ==
  ASSUME NEW S, Shaped(S), NEW k \in Key, S.queries[k] > 0
  PROVE  LET T == [S EXCEPT !.queries[k] = @ - 1] IN
         /\ Shaped(T) /\ T.regs = S.regs /\ T.on_resolve = S.on_resolve
         /\ Spares(S, T, {k[1]})
         /\ \A x \in Key \ {k} : T.queries[x] = S.queries[x]
<1> DEFINE Q == [S.queries EXCEPT ![k] = @ - 1]
           T == [S EXCEPT !.queries = Q]
<1>1. Q \in [Key -> Nat] /\ \A x \in Key \ {k} : Q[x] = S.queries[x]
  BY DEF Shaped
<1> HIDE DEF Q
<1>2. /\ Shaped(T) /\ T.regs = S.regs /\ T.on_resolve = S.on_resolve /\ T.queries = Q
  BY <1>1 DEF Shaped, Blank
<1> HIDE DEF T
<1>3. ASSUME NEW g \in Fd \ {k[1]}, NEW h \in Host PROVE <<g, h>> \in Key \ {k}
  BY DEF Key
<1>4. Spares(S, T, {k[1]})
  BY <1>1, <1>2, <1>3 DEF Spares, Asked
<1>5. T = [S EXCEPT !.queries[k] = @ - 1]
  BY DEF T, Q
<1> QED
  BY <1>1, <1>2, <1>4, <1>5

\* resolver_handler, an answer that finds no entry: nobody waited for it.
LEMMA AnswerTooLateLives ==
  ASSUME Inv, Live(server), NEW k \in Key, AnswerTooLate(k)
  PROVE  Live(server')
<1> DEFINE S == server
           T == Taken(k)
<1>1. S \in Server /\ k \notin DOMAIN S.on_resolve /\ S.queries[k] > 0 /\ Returns(T)
  BY DEF Inv, Good, AnswerTooLate, Answer, Waits
<1>2. Shaped(S)
  BY <1>1, ServerIsShaped
<1>3. /\ T.regs = S.regs /\ T.on_resolve = S.on_resolve
      /\ \A x \in Key \ {k} : T.queries[x] = S.queries[x]
  BY <1>1, <1>2, TakenSpares DEF Taken
<1> HIDE DEF T
<1>4. ASSUME NEW f \in Fd PROVE LiveAt(T, f)
  <2>1. LiveAt(S, f)
    BY DEF Live
  <2>2. ASSUME NEW h \in Host, Awaits(T, f, h) PROVE Asked(T, f, h) /\ T.queries[<<f, h>>] > 0
    <3>1. Asked(S, f, h) /\ S.queries[<<f, h>>] > 0
      BY <1>3, <2>1, <2>2 DEF LiveAt, Coming, Awaits
    <3>2. <<f, h>> \in Key \ {k}
      BY <1>1, <3>1 DEF Asked, Key
    <3> QED
      BY <1>3, <3>1, <3>2 DEF Asked
  <2> QED
    BY <1>3, <2>1, <2>2 DEF LiveAt, Coming, Couple
<1>5. Live(T)
  BY <1>4 DEF Live
<1> QED
  BY <1>1, <1>5, ReturnsLive

\* resolver_handler, no such host: the client is told.
LEMMA AnswerNotFoundLives ==
  ASSUME Inv, Live(server), NEW k \in Key, AnswerNotFound(k)
  PROVE  Live(server')
<1> DEFINE c == k[1]
           S == Taken(k)
           T == Forget(S, k)
<1>1. /\ c \in Fd /\ k = <<c, k[2]>> /\ server \in Server /\ server.queries[k] > 0
      /\ server.regs[c].place = <<c>> /\ Returns(Send(T, c, <<c>>, None, "close"))
  BY DEF AnswerNotFound, Answer, Key, Inv, Good, regs, Send404
<1>2. LiveLone(server, c)
  BY <1>1, LivesAlone
<1>3. Shaped(S) /\ S.regs = server.regs /\ Spares(server, S, {c})
  BY <1>1, <1>2, TakenSpares DEF Taken, LiveLone
<1> HIDE DEF S
<1>4. LiveLone(S, c)
  BY <1>1, <1>2, <1>3, LoneSpares
<1>5. Shaped(T) /\ T.regs = S.regs /\ Spares(S, T, {c})
  <2>1. LET F == Forget(S, <<c, k[2]>>) IN Shaped(F) /\ F.regs = S.regs /\ Spares(S, F, {c})
    BY <1>1, <1>3, ForgetSpares
  <2> QED
    BY <1>1, <2>1
<1> HIDE DEF T
<1>6. LiveLone(T, c)
  BY <1>1, <1>3, <1>4, <1>5, LoneSpares
<1>7. Live(Send(T, c, <<c>>, None, "close"))
  BY <1>1, <1>6, LoneWaits
<1> QED
  BY <1>1, <1>7, ReturnsLive

\* resolver_handler: the server's end waits for its connection.
LEMMA AnswerFoundLives ==
  ASSUME Inv, Live(server), NEW k \in Key, NEW s \in Fd, NEW n \in 1 .. MaxIps,
         AnswerFound(k, s, n)
  PROVE  Live(server')
<1> DEFINE c == k[1]
           it == <<c, s>>
           S == Taken(k)
           J == Joined(S, c, s, k[2])
           hc == Connecting("dropping", it, k[2], n)
           hs == Connecting("connect", it, k[2], n)
           V == On(J, c, {"RDHUP"}, hc)
           W == On(V, s, {"OUT"}, hs)
<1>1. /\ c \in Fd /\ server \in Server /\ server.queries[k] > 0
      /\ server.regs[c].place = <<c>> /\ server.regs[s].place = <<>> /\ Returns(W)
  BY DEF AnswerFound, Answer, Key, Inv, Good, regs, Closed
<1>2. c # s
  BY <1>1, Places1
<1>3. Shaped(server)
  BY <1>1, ServerIsShaped
<1>4. Shaped(S) /\ S.regs = server.regs /\ Spares(server, S, {c})
  BY <1>1, <1>3, TakenSpares DEF Taken
<1>5. hc.kind = "dropping" /\ hs.kind = "connect"
  BY DEF Connecting
<1> HIDE DEF S, hc, hs, c
<1>6. /\ Shaped(J) /\ J.regs[c].place = <<c, s>> /\ J.regs[s].place = <<c, s>>
      /\ \A g \in Fd \ {c, s} : J.regs[g] = S.regs[g]
      /\ J.on_resolve = S.on_resolve /\ J.queries = S.queries
  BY <1>1, <1>2, <1>4 DEF Joined, Shaped, Blank, Free
<1> HIDE DEF J
<1>7. Spares(server, J, {c, s})
  BY <1>4, <1>6 DEF Spares, Asked
<1>8. Apart(server, {c, s}) /\ {c, s} \in SUBSET Fd
  <2>1. \A a, b : <<c>> # <<a, b>> /\ <<>> # <<a, b>>
    BY Places1
  <2> QED
    BY <1>1, <2>1 DEF Apart
<1>9. \A g \in Fd \ {c, s} : LiveAt(J, g)
  BY <1>7, <1>8, LiveElsewhere DEF Live
<1>10. LivePair(J, c, s)
  BY <1>2, <1>6, <1>9 DEF LivePair
<1>11. Sets(J, V, c) /\ V.regs[c].handler = hc
  BY <1>1, <1>6, OnSets
<1> HIDE DEF V
<1>12. LivePair(V, c, s)
  BY <1>1, <1>10, <1>11, PairSets
<1>13. Sets(V, W, s) /\ W.regs[s].handler = hs /\ W.regs[s].interest = {"OUT"}
  BY <1>12, OnSets DEF LivePair
<1> HIDE DEF W, it
<1>14. LivePair(W, c, s)
  BY <1>1, <1>12, <1>13, PairSets
<1>15. W.regs[c].handler = hc
  BY <1>1, <1>2, <1>11, <1>13 DEF Sets
<1>16. Live(W)
  BY <1>1, <1>5, <1>13, <1>14, <1>15, PairIsLive DEF Busy
<1> QED
  BY <1>1, <1>16, ReturnsLive

\* A client that leaves while its host is looked for.
LEMMA ClientLeavesQueryLives ==
  ASSUME Inv, Live(server), NEW f \in Fd, ClientLeavesQuery(f)
  PROVE  Live(server')
<1> DEFINE S == server
           T == Forget(S, <<f, H(f).rq.host>>)
<1>1. /\ Good(S) /\ S \in Server /\ S.regs[f].place # <<>>
      /\ S.regs[f].handler.kind = "resolving"
      /\ Returns(Close(T, S.regs[f].handler.it)) \/ Halt("no entry")
  BY DEF Inv, Good, ClientLeavesQuery, Handles, Used, Closed, regs, H
<1>2. S.regs[f].place = <<f>> /\ S.regs[f].handler.it = <<f>>
  <2>1. ASSUME NEW c \in Fd, NEW s \in Fd, PairAt(S, f, c, s) PROVE FALSE
    BY <1>1, <2>1 DEF PairAt, HasPair, AtServer, AtClient
  <2> QED
    BY <1>1, <2>1 DEF Good, OkAt, Placed, LoneAt, HasLone
<1>3. LiveLone(S, f)
  BY <1>1, <1>2, LivesAlone
<1>4. Shaped(T) /\ T.regs = S.regs /\ Spares(S, T, {f})
  BY <1>3, ForgetSpares DEF LiveLone
<1> HIDE DEF T
<1>5. LiveLone(T, f)
  BY <1>2, <1>3, <1>4, LoneSpares
<1>6. Live(Close(T, <<f>>))
  BY <1>5, LoneCloseIsLive
<1> QED
  BY <1>1, <1>2, <1>6, ReturnsLive, HaltLives

\* The entry of a pair goes: the pair is what it was.
LEMMA PairForgetsLive ==
  ASSUME NEW S, NEW c \in Fd, NEW s \in Fd, LivePair(S, c, s), NEW x
  PROVE  LET T == Forget(S, <<c, x>>) IN LivePair(T, c, s) /\ T.regs = S.regs
<1> DEFINE T == Forget(S, <<c, x>>)
<1>1. Shaped(T) /\ T.regs = S.regs /\ Spares(S, T, {c})
  BY ForgetSpares DEF LivePair
<1> HIDE DEF T
<1>2. Spares(S, T, {c, s})
  BY <1>1 DEF Spares
<1>3. T.regs[c].place = <<c, s>> /\ T.regs[s].place = <<c, s>>
  BY <1>1 DEF LivePair
<1>4. LivePair(T, c, s) /\ T.regs = S.regs
  BY <1>1, <1>2, <1>3, PairSpares
<1> QED
  BY <1>4 DEF T

\* The client leaves, the attempt moves on or fails, or the server is connected.
LEMMA ConnectLives ==
  ASSUME Inv, Live(server), NEW f \in Fd,
         ClientLeavesConnect(f) \/ ConnectNextAddress(f) \/ ConnectFails(f) \/ Connected(f)
  PROVE  Live(server')
<1> DEFINE S == server
           h == S.regs[f].handler
<1>1. /\ Good(S) /\ S \in Server /\ S.regs[f].place # <<>>
      /\ h.kind \in {"connect", "dropping"} /\ H(f) = h
  BY DEF Inv, Good, ClientLeavesConnect, ConnectNextAddress, ConnectFails, Connected, Handles,
         Used, Closed, regs, H
<1>2. PICK c \in Fd, s \in Fd :
        /\ PairAt(S, c, c, s) /\ PairAt(S, s, c, s)
        /\ f = (IF h.kind = "connect" THEN s ELSE c)
        /\ h.it = <<c, s>>
  BY <1>1, ConnectHandler
<1>3. LivePair(S, c, s) /\ Calm(S, c, s)
  <2>1. f \in {c, s} /\ h.kind # "tunnel"
    BY <1>1, <1>2
  <2> QED
    BY <1>1, <1>2, <2>1, LivesAsPair
<1>4. h.it[1] = c /\ h.it[2] = s
  BY <1>2
<1> DEFINE x == h.host
           T == Forget(S, <<c, x>>)
<1>5. LivePair(T, c, s) /\ T.regs = S.regs
  BY <1>3, PairForgetsLive
<1>6. T = Forget(S, <<H(f).it[1], H(f).host>>) /\ T = Forget(S, Query(f))
  BY <1>1, <1>4 DEF Query
<1> HIDE DEF T
<1>7. Calm(T, c, s)
  BY <1>3, <1>5 DEF Calm
<1>8. CASE ClientLeavesConnect(f)
  <2>1. Returns(Close(T, <<c, s>>))
    BY <1>1, <1>2, <1>6, <1>8 DEF ClientLeavesConnect
  <2> QED
    BY <1>5, <2>1, PairCloseIsLive, ReturnsLive
<1>9. CASE ConnectNextAddress(f)
  <2> DEFINE U == [S EXCEPT !.regs[f].peer = "open"]
  <2>1. /\ U.on_resolve = S.on_resolve /\ U.queries = S.queries
        /\ \A g \in Fd : /\ U.regs[g].place = S.regs[g].place
                         /\ U.regs[g].interest = S.regs[g].interest
                         /\ U.regs[g].handler = S.regs[g].handler
                         /\ U.regs[g].buf = S.regs[g].buf
    BY <1>1 DEF Server, Reg
  <2>2. Returns(U)
    BY <1>9 DEF ConnectNextAddress
  <2> HIDE DEF U
  <2> QED
    BY <2>1, <2>2, LiveTouch, ReturnsLive
<1>10. CASE ConnectFails(f)
  <2>1. Returns(Send404(Escape(T, <<c, s>>), c)) \/ Halt("no entry")
    BY <1>1, <1>2, <1>4, <1>6, <1>10 DEF ConnectFails
  <2>2. Live(Send404(Escape(T, <<c, s>>), c))
    BY <1>5, EscapeIsLone, LoneWaits DEF Send404
  <2> QED
    BY <2>1, <2>2, ReturnsLive, HaltLives
<1>11. CASE Connected(f)
  <2> DEFINE U == Watch(T, c, {})
             W == Watch(U, s, {})
             entry == S.on_resolve[Query(f)]
  <2>1. \/ Returns(Proceed(W, <<c, s>>, entry))
        \/ Halt("no entry")
    BY <1>1, <1>2, <1>4, <1>6, <1>11 DEF Connected
  <2>2. Sets(T, U, c) /\ U.regs[c].handler = T.regs[c].handler
    BY <1>5, WatchSets DEF LivePair
  <2> HIDE DEF U
  <2>3. LivePair(U, c, s) /\ Calm(U, c, s)
    BY <1>5, <1>7, <2>2, PairSetsCalm
  <2>4. Sets(U, W, s) /\ W.regs[s].handler = U.regs[s].handler
    BY <2>3, WatchSets DEF LivePair
  <2> HIDE DEF W
  <2>5. LivePair(W, c, s) /\ Calm(W, c, s)
    BY <2>3, <2>4, PairSetsCalm
  <2>6. /\ Live(HandleRequest(W, <<c, s>>, entry.rq))
        /\ Live(FastTransfer(W, <<c, s>>, entry.rq))
    BY <2>5, HandlesLive
  <2>7. Live(Proceed(W, <<c, s>>, entry))
    BY <2>6 DEF Proceed
  <2> QED
    BY <2>1, <2>7, ReturnsLive, HaltLives
<1> QED
  BY <1>8, <1>9, <1>10, <1>11

\* What a handler of a connected pair that is no tunnel finds.
LEMMA HandlerLives ==
  ASSUME NEW S \in Server, Good(S), Live(S), NEW f \in Fd, S.regs[f].place # <<>>,
         LET h == S.regs[f].handler IN
         /\ h.kind \notin {"connect", "dropping", "resolving"}
         /\ h.kind = "read" => h.next # "first"
         /\ h.kind = "send" => h.next # "close"
  PROVE  LET h == S.regs[f].handler IN
         \E c, s \in Fd :
           /\ f \in {c, s} /\ h.it = <<c, s>> /\ h.rq \in Request
           /\ h.kind = "relay_in" => f = s
           /\ h.kind = "relay_out" => f = c
           /\ h.kind = "read" => /\ h.next = "again" => f = c
                                 /\ h.next = "validation" => f = s
           /\ h.kind = "send" => h.next \in {"validate", "transfer", "reuse", "tunnel"}
           /\ LivePair(S, c, s) /\ Busy(S.regs[c], S.regs[s])
           /\ \A g \in {c, s} : S.regs[g].handler.kind # "resolving"
           /\ h.kind # "tunnel" => Calm(S, c, s)
<1> DEFINE h == S.regs[f].handler
<1>1. PICK c \in Fd, s \in Fd :
        /\ f \in {c, s} /\ Pair(S, c, s) /\ h.it = <<c, s>>
        /\ h.rq \in RequestTo(S.regs[c].who, S.regs[s].who)
        /\ h.kind = "relay_in" => f = s
        /\ h.kind = "relay_out" => f = c
        /\ h.kind = "read" => /\ h.next = "again" => f = c
                              /\ h.next = "validation" => f = s
        /\ h.kind = "send" => h.next \in {"validate", "transfer", "reuse", "tunnel"}
  BY PairOpened
<1>2. PairAt(S, c, c, s) /\ PairAt(S, s, c, s)
  BY <1>1 DEF Pair
<1>3. h.rq \in Request
  BY <1>1 DEF RequestTo, RequestOf
<1>4. /\ LivePair(S, c, s) /\ Busy(S.regs[c], S.regs[s])
      /\ \A g \in {c, s} : S.regs[g].handler.kind # "resolving"
      /\ h.kind # "tunnel" => Calm(S, c, s)
  BY <1>1, <1>2, LivesAsPair
<1> HIDE DEF h
<1>5. \E a, b \in Fd :
        /\ f \in {a, b} /\ h.it = <<a, b>> /\ h.rq \in Request
        /\ h.kind = "relay_in" => f = b
        /\ h.kind = "relay_out" => f = a
        /\ h.kind = "read" => /\ h.next = "again" => f = a
                              /\ h.next = "validation" => f = b
        /\ h.kind = "send" => h.next \in {"validate", "transfer", "reuse", "tunnel"}
        /\ LivePair(S, a, b) /\ Busy(S.regs[a], S.regs[b])
        /\ \A g \in {a, b} : S.regs[g].handler.kind # "resolving"
        /\ h.kind # "tunnel" => Calm(S, a, b)
  BY <1>1, <1>3, <1>4
<1> QED
  BY <1>5 DEF h

\* fast_transfer, a part of the response was read: the server's end goes on reading,
\* or the client's has something to send.
LEMMA RelayPartLives ==
  ASSUME Inv, Live(server), NEW f \in Fd, RelayPart(f)
  PROVE  Live(server')
<1> DEFINE S == server
           h == S.regs[f].handler
           T == Buffer(S, f, "some")
           U == Watch(T, h.it[1], {"OUT", "RDHUP"})
<1>1. /\ Good(S) /\ S \in Server /\ S.regs[f].place # <<>> /\ h.kind = "relay_in"
      /\ Returns(U)
  BY DEF Inv, Good, RelayPart, Reads, Handles, Used, Closed, regs, H
<1>2. PICK c \in Fd, s \in Fd : /\ f = s /\ h.it = <<c, s>>
                                /\ LivePair(S, c, s) /\ Busy(S.regs[c], S.regs[s])
                                /\ Calm(S, c, s)
  BY <1>1, HandlerLives
<1>3. h.it[1] = c /\ c # s
  BY <1>2 DEF LivePair
<1>4. /\ Sets(S, T, s) /\ T.regs[s].interest = S.regs[s].interest
      /\ T.regs[s].handler = S.regs[s].handler
  BY <1>2, BufferSets DEF LivePair
<1> HIDE DEF T
<1>5. LivePair(T, c, s) /\ Calm(T, c, s)
  BY <1>2, <1>4, PairSetsCalm
<1>6. /\ Sets(T, U, c) /\ U.regs[c].interest = {"OUT", "RDHUP"}
      /\ U.regs[c].handler = T.regs[c].handler
  BY <1>3, <1>5, WatchSets DEF LivePair
<1> HIDE DEF U
<1>7. LivePair(U, c, s) /\ Calm(U, c, s)
  BY <1>5, <1>6, PairSetsCalm
<1>8. /\ U.regs[c].handler = S.regs[c].handler
      /\ U.regs[s].handler = h /\ U.regs[s].interest = S.regs[s].interest
  BY <1>2, <1>3, <1>4, <1>6 DEF Sets
<1>9. Busy(U.regs[c], U.regs[s])
  BY <1>1, <1>2, <1>6, <1>8 DEF Busy
<1>10. Live(U)
  BY <1>7, <1>9, PairIsLive DEF Calm
<1> QED
  BY <1>1, <1>10, ReturnsLive

\* ... and all of it: the client's end sends the rest.
LEMMA RelayReadLives ==
  ASSUME Inv, Live(server), NEW f \in Fd, RelayRead(f)
  PROVE  Live(server')
<1> DEFINE S == server
           h == S.regs[f].handler
<1>1. /\ Good(S) /\ S \in Server /\ S.regs[f].place # <<>> /\ h.kind = "relay_in"
  BY DEF Inv, Good, RelayRead, Reads, Handles, Used, Closed, regs, H
<1>2. PICK saved \in SUBSET {h.rq.host}, closed \in BOOLEAN :
        Returns(SendServerResponse([S EXCEPT !.cached = @ \cup saved], h.it, h.rq, closed))
  BY DEF RelayRead, H, regs
<1>3. PICK c \in Fd, s \in Fd : f \in {c, s} /\ h.it = <<c, s>> /\ LivePair(S, c, s) /\ Calm(S, c, s)
  BY <1>1, HandlerLives
<1> DEFINE T == [S EXCEPT !.cached = @ \cup saved]
<1>4. T.regs = S.regs /\ Sets(S, T, c)
  BY <1>3, CachedSets DEF LivePair
<1>5. Returns(SendServerResponse(T, <<c, s>>, h.rq, closed))
  BY <1>2, <1>3
<1> HIDE DEF T
<1>6. LivePair(T, c, s) /\ Calm(T, c, s)
  BY <1>3, <1>4, PairSetsCalm
<1>7. Live(SendServerResponse(T, <<c, s>>, h.rq, closed))
  BY <1>6, RespondsLive
<1> QED
  BY <1>5, <1>7, ReturnsLive

\* The first request of a client is read: it asks for its host.
LEMMA FirstRequestReadLives ==
  ASSUME Inv, Live(server), NEW f \in Fd, NEW rq \in Request, FirstRequestRead(f, rq)
  PROVE  Live(server')
<1> DEFINE S == server
           T == Watch(S, f, {})
<1>1. /\ Good(S) /\ S \in Server /\ S.regs[f].place # <<>> /\ S.regs[f].handler.kind = "read"
      /\ S.regs[f].handler.next = "first"
      /\ Returns(ConnectToServer(T, f, rq, "handle"))
  BY DEF Inv, Good, FirstRequestRead, Reads, Handles, Used, Closed, regs, H
<1>2. S.regs[f].place = <<f>>
  <2>1. ASSUME NEW c \in Fd, NEW s \in Fd, PairAt(S, f, c, s) PROVE FALSE
    BY <1>1, <2>1 DEF PairAt, HasPair, AtServer, AtClient
  <2> QED
    BY <1>1, <2>1 DEF Good, OkAt, Placed, LoneAt
<1>3. LiveLone(S, f)
  BY <1>1, <1>2, LivesAlone
<1>4. Sets(S, T, f)
  BY <1>3, WatchSets DEF LiveLone
<1> HIDE DEF T
<1>5. LiveLone(T, f)
  BY <1>3, <1>4, LoneSets
<1>6. Live(ConnectToServer(T, f, rq, "handle"))
  BY <1>5, LoneAsks
<1> QED
  BY <1>1, <1>6, ReturnsLive

\* A further request of a client: the pair goes on, or the client asks.
LEMMA ClientReusedLives ==
  ASSUME Inv, Live(server), NEW f \in Fd, NEW rq \in Request, ClientReused(f, rq)
  PROVE  Live(server')
<1> DEFINE S == server
           h == S.regs[f].handler
           T == Watch(S, f, {})
<1>1. /\ Good(S) /\ S \in Server /\ S.regs[f].place # <<>> /\ h.kind = "read" /\ h.next = "again"
      /\ \/ Returns(HandleRequest(T, h.it, rq))
         \/ Returns(Reconnect(T, h.it, rq, "handle"))
  BY DEF Inv, Good, ClientReused, Reads, Handles, Used, Closed, regs, H
<1>2. PICK c \in Fd, s \in Fd : f \in {c, s} /\ h.it = <<c, s>> /\ LivePair(S, c, s) /\ Calm(S, c, s)
  BY <1>1, HandlerLives
<1>3. Sets(S, T, f) /\ T.regs[f].handler = h
  BY <1>2, WatchSets DEF LivePair
<1> HIDE DEF T
<1>4. LivePair(T, c, s) /\ Calm(T, c, s)
  BY <1>2, <1>3, PairSetsCalm
<1>5. Live(HandleRequest(T, <<c, s>>, rq)) /\ Live(Reconnect(T, <<c, s>>, rq, "handle"))
  BY <1>4, HandlesLive, ReconnectsLive
<1> QED
  BY <1>1, <1>2, <1>5, ReturnsLive

\* The answer to a conditional request.
LEMMA ValidatedLives ==
  ASSUME Inv, Live(server), NEW f \in Fd, Validated(f)
  PROVE  Live(server')
<1> DEFINE S == server
           h == S.regs[f].handler
           T == Watch(S, f, {})
           U == [T EXCEPT !.cached = @ \ {h.rq.host}]
<1>1. /\ Good(S) /\ S \in Server /\ S.regs[f].place # <<>> /\ h.kind = "read"
      /\ h.next = "validation"
      /\ \E closed \in BOOLEAN :
           \/ Returns(SendServerResponse(T, h.it, h.rq, closed))
           \/ Returns(Reconnect(U, h.it, h.rq, "transfer"))
           \/ Returns(FastTransfer(U, h.it, h.rq))
  BY DEF Inv, Good, Validated, Reads, Handles, Used, Closed, regs, H
<1>2. PICK c \in Fd, s \in Fd : /\ f \in {c, s} /\ h.it = <<c, s>> /\ h.rq \in Request
                                /\ LivePair(S, c, s) /\ Calm(S, c, s)
  BY <1>1, HandlerLives
<1>3. Sets(S, T, f) /\ T.regs[f].handler = h
  BY <1>2, WatchSets DEF LivePair
<1> HIDE DEF T
<1>4. LivePair(T, c, s) /\ Calm(T, c, s)
  BY <1>2, <1>3, PairSetsCalm
<1>5. U.regs = T.regs /\ Sets(T, U, c)
  BY <1>4, CachedSets DEF LivePair
<1> HIDE DEF U
<1>6. LivePair(U, c, s) /\ Calm(U, c, s)
  BY <1>4, <1>5, PairSetsCalm
<1>7. /\ \A closed \in BOOLEAN : Live(SendServerResponse(T, <<c, s>>, h.rq, closed))
      /\ Live(Reconnect(U, <<c, s>>, h.rq, "transfer"))
      /\ Live(FastTransfer(U, <<c, s>>, h.rq))
  BY <1>2, <1>4, <1>6, RespondsLive, ReconnectsLive, HandlesLive
<1> QED
  BY <1>1, <1>2, <1>7, ReturnsLive

\* fast_transfer, what was read is written: the server's end is still relayed from.
LEMMA RelayWrittenLives ==
  ASSUME Inv, Live(server), NEW f \in Fd, RelayWritten(f)
  PROVE  Live(server')
<1> DEFINE S == server
           h == S.regs[f].handler
           T == Buffer(S, h.it[2], "empty")
           U == Watch(T, f, S.regs[f].interest \ {"OUT"})
<1>1. /\ Good(S) /\ S \in Server /\ S.regs[f].place # <<>> /\ h.kind = "relay_out"
      /\ Returns(U)
  BY DEF Inv, Good, RelayWritten, Writes, Handles, Used, Closed, regs, H
<1>2. PICK c \in Fd, s \in Fd : /\ f = c /\ h.it = <<c, s>>
                                /\ LivePair(S, c, s) /\ Busy(S.regs[c], S.regs[s])
                                /\ Calm(S, c, s)
  BY <1>1, HandlerLives
<1>3. h.it[2] = s /\ c # s
  BY <1>2 DEF LivePair
<1>4. /\ Sets(S, T, s) /\ T.regs[s].interest = S.regs[s].interest
      /\ T.regs[s].handler = S.regs[s].handler
  BY <1>2, <1>3, BufferSets DEF LivePair
<1> HIDE DEF T
<1>5. LivePair(T, c, s) /\ Calm(T, c, s)
  BY <1>2, <1>4, PairSetsCalm
<1>6. Sets(T, U, c) /\ U.regs[c].handler = T.regs[c].handler
  BY <1>2, <1>5, WatchSets DEF LivePair
<1> HIDE DEF U
<1>7. LivePair(U, c, s) /\ Calm(U, c, s)
  BY <1>5, <1>6, PairSetsCalm
<1>8. /\ U.regs[c].handler = h
      /\ U.regs[s].handler = S.regs[s].handler /\ U.regs[s].interest = S.regs[s].interest
  BY <1>2, <1>3, <1>4, <1>6 DEF Sets
<1>9. Busy(U.regs[c], U.regs[s])
  BY <1>1, <1>2, <1>8 DEF Busy
<1>10. Live(U)
  BY <1>7, <1>9, PairIsLive DEF Calm
<1> QED
  BY <1>1, <1>10, ReturnsLive

\* A message was sent: whatever it is followed by.
LEMMA MessageSentLives ==
  ASSUME Inv, Live(server), NEW f \in Fd, MessageSent(f)
  PROVE  Live(server')
<1> DEFINE S == server
           h == S.regs[f].handler
           T == Watch(S, f, {})
<1>1. /\ Good(S) /\ S \in Server /\ S.regs[f].place # <<>> /\ h.kind = "send"
      /\ Returns(Sent(T, h.it, h.rq, h.next))
  BY DEF Inv, Good, MessageSent, Writes, Handles, Used, Closed, regs, H
<1>2. CASE h.next = "close"
  <2>1. S.regs[f].place = <<f>> /\ h.it = <<f>>
    <3>1. ASSUME NEW c \in Fd, NEW s \in Fd, PairAt(S, f, c, s) PROVE FALSE
      BY <1>1, <1>2, <3>1 DEF PairAt, HasPair, AtServer, AtClient
    <3> QED
      BY <1>1, <3>1 DEF Good, OkAt, Placed, LoneAt, HasLone
  <2>2. LiveLone(S, f)
    BY <1>1, <2>1, LivesAlone
  <2>3. Sets(S, T, f)
    BY <2>2, WatchSets DEF LiveLone
  <2> HIDE DEF T
  <2>4. LiveLone(T, f)
    BY <2>2, <2>3, LoneSets
  <2>5. Live(Close(T, <<f>>))
    BY <2>4, LoneCloseIsLive
  <2>6. Sent(T, h.it, h.rq, h.next) = Close(T, <<f>>)
    BY <1>2, <2>1 DEF Sent
  <2> QED
    BY <1>1, <2>5, <2>6, ReturnsLive
<1>3. CASE h.next # "close"
  <2>1. PICK c \in Fd, s \in Fd :
          /\ f \in {c, s} /\ h.it = <<c, s>> /\ LivePair(S, c, s) /\ Calm(S, c, s)
          /\ h.next \in {"validate", "transfer", "reuse", "tunnel"}
    BY <1>1, <1>3, HandlerLives
  <2>2. Sets(S, T, f) /\ T.regs[f].handler = h
    BY <2>1, WatchSets DEF LivePair
  <2> HIDE DEF T
  <2>3. LivePair(T, c, s) /\ Calm(T, c, s)
    BY <2>1, <2>2, PairSetsCalm
  <2>4. Live(Sent(T, <<c, s>>, h.rq, h.next))
    BY <2>1, <2>3, GoesOnLive
  <2> QED
    BY <1>1, <2>1, <2>4, ReturnsLive
<1> QED
  BY <1>2, <1>3

\* What a step of the tunnel makes of the events of an end and the buffers keeps both
\* flowing: what stops being read is full, what stops being written is empty.
LEMMA TunnelFlows ==
  ASSUME NEW here, NEW there, NEW bufs \in {"empty", "some", "full"}, NEW bufo \in {"empty", "some", "full"},
         NEW fills \in BOOLEAN, NEW drains \in BOOLEAN,
         fills => bufs # "full", drains => bufo # "empty",
         NEW in \in IF fills THEN {"some", "full"} ELSE {bufs},
         NEW out \in {bufo} \cup IF drains THEN {"empty"} ELSE {},
         "IN" \in here \/ bufs = "full", "OUT" \in here \/ bufo = "empty",
         "IN" \in there \/ bufo = "full", "OUT" \in there \/ bufs = "empty"
  PROVE  LET full  == IF fills /\ in = "full" THEN Toggled(here, "IN") ELSE here
             mine  == IF drains /\ out = "empty" THEN Toggled(full, "OUT") ELSE full
             other == there \cup (IF fills THEN {"OUT"} ELSE {})
                            \cup (IF drains /\ out # "full" THEN {"IN"} ELSE {})
         IN  /\ "IN" \in mine \/ in = "full"
             /\ "OUT" \in mine \/ out = "empty"
             /\ "IN" \in other \/ out = "full"
             /\ "OUT" \in other \/ in = "empty"
<1> DEFINE full  == IF fills /\ in = "full" THEN Toggled(here, "IN") ELSE here
           mine  == IF drains /\ out = "empty" THEN Toggled(full, "OUT") ELSE full
           other == there \cup (IF fills THEN {"OUT"} ELSE {})
                          \cup (IF drains /\ out # "full" THEN {"IN"} ELSE {})
<1>1. \A E : /\ "IN" \in Toggled(E, "OUT") <=> "IN" \in E
             /\ "OUT" \in Toggled(E, "IN") <=> "OUT" \in E
  BY DEF Toggled
<1>2. "IN" \in full \/ in = "full"
  BY DEF full
<1>3. "OUT" \in full \/ bufo = "empty"
  BY <1>1
<1> HIDE DEF full
<1>4. "IN" \in mine \/ in = "full"
  BY <1>1, <1>2
<1>5. "OUT" \in mine \/ out = "empty"
  BY <1>3
<1>6. "IN" \in other \/ out = "full"
  OBVIOUS
<1>7. "OUT" \in other \/ in = "empty"
  OBVIOUS
<1> QED
  BY <1>4, <1>5, <1>6, <1>7 DEF full

\* The tunnel moves bytes, with the events of both ends set anew.
LEMMA TunnelMovesLives ==
  ASSUME Inv, Live(server), NEW f \in Fd, TunnelMoves(f)
  PROVE  Live(server')
<1> DEFINE S == server
           h == S.regs[f].handler
           o == Other(f)
<1>1. /\ Good(S) /\ S \in Server /\ S.regs[f].place # <<>> /\ h.kind = "tunnel"
  BY DEF Inv, Good, TunnelMoves, Handles, Used, Closed, regs, H
<1>2. PICK c \in Fd, s \in Fd : /\ f \in {c, s} /\ h.it = <<c, s>>
                                /\ LivePair(S, c, s) /\ Busy(S.regs[c], S.regs[s])
  BY <1>1, HandlerLives
<1>3. c # s /\ Shaped(S)
  BY <1>2 DEF LivePair
<1>4. o \in {c, s} /\ o # f
  <2>1. regs[f].place = <<c, s>>
    BY <1>2 DEF LivePair, regs
  <2>2. Members(regs[f].place) = {c, s}
    <3>1. Members(<<c, s>>) = {c, s}
      BY Places1
    <3> QED
      BY <2>1, <3>1
  <2> QED
    BY <1>2, <1>3, <2>2 DEF Other
<1>5. /\ S.regs[f].handler.kind = "tunnel" /\ S.regs[o].handler.kind = "tunnel"
      /\ Flows(S.regs[f], S.regs[o]) /\ Flows(S.regs[o], S.regs[f])
  BY <1>1, <1>2, <1>4 DEF Busy
<1>6. /\ S.regs[f].buf \in {"empty", "some", "full"} /\ S.regs[o].buf \in {"empty", "some", "full"}
      /\ f \in Fd /\ o \in Fd
  BY <1>1, <1>2, <1>4 DEF Server, Reg
<1> DEFINE fills  == FillsUp(f)
           drains == Drains(f)
<1>7. /\ fills \in BOOLEAN /\ drains \in BOOLEAN
      /\ fills => S.regs[f].buf # "full"
      /\ drains => S.regs[o].buf # "empty"
  BY DEF FillsUp, Drains, regs
<1>8. PICK in \in IF fills THEN {"some", "full"} ELSE {S.regs[f].buf},
           out \in {S.regs[o].buf} \cup IF drains THEN {"empty"} ELSE {} :
        LET here  == S.regs[f].interest
            full  == IF fills /\ in = "full" THEN Toggled(here, "IN") ELSE here
            mine  == IF drains /\ out = "empty" THEN Toggled(full, "OUT") ELSE full
            other == S.regs[o].interest
                       \cup (IF fills THEN {"OUT"} ELSE {})
                       \cup (IF drains /\ out # "full" THEN {"IN"} ELSE {})
        IN  Returns(Watch(Watch(Buffer(Buffer(S, f, in), o, out), f, mine), o, other))
  BY DEF TunnelMoves, regs
<1> DEFINE full  == IF fills /\ in = "full" THEN Toggled(S.regs[f].interest, "IN") ELSE S.regs[f].interest
           mine  == IF drains /\ out = "empty" THEN Toggled(full, "OUT") ELSE full
           other == S.regs[o].interest
                      \cup (IF fills THEN {"OUT"} ELSE {})
                      \cup (IF drains /\ out # "full" THEN {"IN"} ELSE {})
<1> HIDE DEF o, fills, drains
<1>9. /\ "IN" \in mine \/ in = "full"
      /\ "OUT" \in mine \/ out = "empty"
      /\ "IN" \in other \/ out = "full"
      /\ "OUT" \in other \/ in = "empty"
  <2>1. /\ "IN" \in S.regs[f].interest \/ S.regs[f].buf = "full"
        /\ "OUT" \in S.regs[f].interest \/ S.regs[o].buf = "empty"
        /\ "IN" \in S.regs[o].interest \/ S.regs[o].buf = "full"
        /\ "OUT" \in S.regs[o].interest \/ S.regs[f].buf = "empty"
    BY <1>5 DEF Flows
  <2> QED
    BY <1>6, <1>7, <1>8, <2>1, TunnelFlows
<1>10. Returns(Watch(Watch(Buffer(Buffer(S, f, in), o, out), f, mine), o, other))
  BY <1>8
<1> HIDE DEF full, mine, other
<1> DEFINE T == Buffer(S, f, in)
           U == Buffer(T, o, out)
           V == Watch(U, f, mine)
           W == Watch(V, o, other)
<1>11. Sets(S, T, f) /\ T.regs[f].handler = S.regs[f].handler /\ T.regs[f].buf = in
  BY <1>3, BufferSets
<1> HIDE DEF T
<1>12. LivePair(T, c, s)
  BY <1>2, <1>11, PairSets
<1>13. Sets(T, U, o) /\ U.regs[o].handler = T.regs[o].handler /\ U.regs[o].buf = out
  BY <1>6, <1>12, BufferSets DEF LivePair
<1> HIDE DEF U
<1>14. LivePair(U, c, s)
  BY <1>4, <1>12, <1>13, PairSets
<1>15. /\ Sets(U, V, f) /\ V.regs[f].interest = mine
       /\ V.regs[f].handler = U.regs[f].handler /\ V.regs[f].buf = U.regs[f].buf
  BY <1>14, WatchSets DEF LivePair
<1> HIDE DEF V
<1>16. LivePair(V, c, s)
  BY <1>2, <1>14, <1>15, PairSets
<1>17. /\ Sets(V, W, o) /\ W.regs[o].interest = other
       /\ W.regs[o].handler = V.regs[o].handler /\ W.regs[o].buf = V.regs[o].buf
  BY <1>6, <1>16, WatchSets DEF LivePair
<1>18. Returns(W)
  BY <1>10 DEF W, V, U, T
<1> HIDE DEF W
<1>19. LivePair(W, c, s)
  BY <1>4, <1>16, <1>17, PairSets
<1>20. /\ W.regs[f].handler.kind = "tunnel" /\ W.regs[o].handler.kind = "tunnel"
       /\ W.regs[f].interest = mine /\ W.regs[o].interest = other
       /\ W.regs[f].buf = in /\ W.regs[o].buf = out
  BY <1>4, <1>5, <1>6, <1>11, <1>13, <1>15, <1>17 DEF Sets
<1>21. Flows(W.regs[f], W.regs[o]) /\ Flows(W.regs[o], W.regs[f])
  BY <1>9, <1>20 DEF Flows
<1>22. Busy(W.regs[c], W.regs[s])
  BY <1>2, <1>4, <1>20, <1>21 DEF Busy
<1>23. Live(W)
  BY <1>2, <1>4, <1>19, <1>20, <1>22, PairIsLive
<1> QED
  BY <1>18, <1>23, ReturnsLive

\* The handlers that return as they were called, or close their place.
LEMMA RestLives ==
  ASSUME Inv, Live(server), NEW f \in Fd,
         \/ InputLost(f) \/ InputBroken(f) \/ InputPart(f) \/ OutputLost(f) \/ OutputPart(f)
         \/ IdleServerDrops(f) \/ TunnelStopped(f) \/ TunnelFails(f) \/ Ignored(f)
  PROVE  Live(server')
<1> DEFINE S == server
           kinds == {"read", "relay_in", "send", "relay_out", "idle", "tunnel"}
<1>1. ASSUME Handles(f, kinds), Returns(Close(S, H(f).it)) PROVE Live(server')
  <2>1. /\ Good(S) /\ S \in Server /\ S.regs[f].place # <<>>
        /\ S.regs[f].handler.kind \notin {"connect", "dropping", "resolving"}
        /\ Returns(Close(S, S.regs[f].handler.it))
    BY <1>1 DEF Inv, Good, Handles, Used, Closed, regs, H
  <2>2. CASE LoneAt(S, f)
    <3>1. S.regs[f].place = <<f>> /\ S.regs[f].handler.it = <<f>>
      BY <2>2 DEF LoneAt, HasLone
    <3>2. Live(Close(S, <<f>>))
      BY <2>1, <3>1, LivesAlone, LoneCloseIsLive
    <3> QED
      BY <2>1, <3>1, <3>2, ReturnsLive
  <2>3. ASSUME NEW c \in Fd, NEW s \in Fd, f \in {c, s}, Pair(S, c, s), PairAt(S, f, c, s)
        PROVE  Live(server')
    <3>1. PairAt(S, c, c, s) /\ PairAt(S, s, c, s) /\ S.regs[f].handler.it = <<c, s>>
      BY <2>3 DEF Pair, PairAt, HasPair
    <3>2. Live(Close(S, <<c, s>>))
      BY <2>1, <3>1, LivesAsPair, PairCloseIsLive
    <3> QED
      BY <2>1, <3>1, <3>2, ReturnsLive
  <2> QED
    BY <2>1, <2>2, <2>3, HandlerOpens
<1>2. CASE InputPart(f) \/ OutputPart(f) \/ Ignored(f)
  BY <1>2, ReturnsLive DEF InputPart, OutputPart, Ignored
<1>3. CASE InputLost(f) \/ IdleServerDrops(f) \/ TunnelStopped(f)
  BY <1>1, <1>3 DEF InputLost, IdleServerDrops, TunnelStopped, Handles
<1>4. CASE InputBroken(f) \/ OutputLost(f) \/ TunnelFails(f)
  <2>1. \/ Halt("use after close")
        \/ Handles(f, kinds) /\ Returns(Close(S, H(f).it))
    BY <1>4 DEF InputBroken, OutputLost, TunnelFails, Handles
  <2> QED
    BY <1>1, <2>1, HaltLives
<1> QED
  BY <1>2, <1>3, <1>4

\* Every step keeps what is said here, with the invariant above.
LEMMA NextLives == Inv /\ Live(server) /\ [Next]_vars => Live(server')
<1> SUFFICES ASSUME Inv, Live(server), [Next]_vars PROVE Live(server')
  OBVIOUS
<1>1. CASE EpollWait \/ UNCHANGED vars
  <2>1. server' = server
    BY <1>1 DEF EpollWait, vars
  <2> QED
    BY <2>1
<1>2. ASSUME NEW f \in Fd, PeerCloses(f) PROVE Live(server')
  <2>1. PICK how \in {"fin", "rst"} : server' = [server EXCEPT !.regs[f].peer = how]
    BY <1>2 DEF PeerCloses
  <2> DEFINE T == [server EXCEPT !.regs[f].peer = how]
  <2>2. server \in Server
    BY DEF Inv, Good
  <2>3. /\ T.on_resolve = server.on_resolve /\ T.queries = server.queries
        /\ \A g \in Fd : /\ T.regs[g].place = server.regs[g].place
                         /\ T.regs[g].interest = server.regs[g].interest
                         /\ T.regs[g].handler = server.regs[g].handler
                         /\ T.regs[g].buf = server.regs[g].buf
    BY <2>2 DEF Server, Reg
  <2> HIDE DEF T
  <2>4. Live(T)
    BY <2>3, LiveTouch
  <2> QED
    BY <2>1, <2>4 DEF T
<1>3. CASE Interrupt \/ NoDestination
  BY <1>3, HaltLives DEF Interrupt, NoDestination
<1>4. CASE Timer
  BY <1>4, TimerLives
<1>5. CASE AcceptFails
  BY <1>5, ReturnsLive DEF AcceptFails
<1>6. CASE \E c \in Client, f \in Fd : Accept(c, f)
  BY <1>6, AcceptLives
<1>7. ASSUME NEW k \in Key, Answered(k) PROVE Live(server')
  BY <1>7, AnswerTooLateLives, AnswerNotFoundLives, AnswerFoundLives, HaltLives
     DEF Answered, AnswerNoClient
<1>8. ASSUME NEW f \in Fd, Handler(f) PROVE Live(server')
  <2>1. CASE ClientLeavesQuery(f)
    BY <2>1, ClientLeavesQueryLives
  <2>2. CASE ClientLeavesConnect(f) \/ ConnectNextAddress(f) \/ ConnectFails(f) \/ Connected(f)
    BY <2>2, ConnectLives
  <2>3. CASE \E rq \in Request : FirstRequestRead(f, rq) \/ ClientReused(f, rq)
    BY <2>3, FirstRequestReadLives, ClientReusedLives
  <2>4. CASE RelayPart(f) \/ RelayRead(f) \/ Validated(f)
    BY <2>4, RelayPartLives, RelayReadLives, ValidatedLives
  <2>5. CASE RelayWritten(f) \/ MessageSent(f) \/ TunnelMoves(f)
    BY <2>5, RelayWrittenLives, MessageSentLives, TunnelMovesLives
  <2> QED
    BY <1>8, <2>1, <2>2, <2>3, <2>4, <2>5, RestLives DEF Handler
<1> QED
  BY <1>1, <1>2, <1>3, <1>4, <1>5, <1>6, <1>7, <1>8 DEF Next, Dispatch

\* A client whose host is resolved has its entry and an answer to come ...
LEMMA LiveIsAnswered == Inv /\ Live(server) => WaiterHasAnswerComing
<1> SUFFICES ASSUME Inv, Live(server), NEW f \in Fd, Resolving(f)
             PROVE  Waits(<<f, H(f).rq.host>>) /\ server.queries[<<f, H(f).rq.host>>] > 0
  BY DEF WaiterHasAnswerComing
<1>1. /\ Good(server) /\ server.regs[f].place # <<>>
      /\ server.regs[f].handler.kind = "resolving" /\ H(f) = server.regs[f].handler
  BY DEF Inv, Resolving, Used, Closed, H, regs
<1>2. LoneAt(server, f)
  <2>1. ASSUME NEW c \in Fd, NEW s \in Fd, PairAt(server, f, c, s) PROVE FALSE
    BY <1>1, <2>1 DEF PairAt, HasPair, AtServer, AtClient
  <2> QED
    BY <1>1, <2>1 DEF Good, OkAt, Placed
<1>3. H(f).rq.host \in Host
  BY <1>1, <1>2 DEF LoneAt, HasLone, RequestOf, Request
<1>4. Coming(server, f)
  BY DEF Live, LiveAt
<1> QED
  BY <1>1, <1>3, <1>4 DEF Coming, Awaits, Asked, Waits

\* ... and everybody else has an end that waits for IN or OUT.
LEMMA LiveMoves == Inv /\ Live(server) => SomeoneMoves
<1> SUFFICES ASSUME Inv, Live(server), NEW f \in Used, H(f).kind # "resolving"
             PROVE  \E g \in Members(regs[f].place) : regs[g].interest \cap {"IN", "OUT"} # {}
  BY DEF SomeoneMoves
<1> DEFINE S == server
<1>1. /\ Good(S) /\ S \in Server /\ f \in Fd /\ S.regs[f].place # <<>>
      /\ S.regs[f].handler.kind # "resolving"
  BY DEF Inv, Good, Used, Closed, H, regs
<1>2. CASE LoneAt(S, f)
  <2>1. S.regs[f].place = <<f>> /\ S.regs[f].handler.kind \in {"read", "send"}
    BY <1>1, <1>2 DEF LoneAt, HasLone
  <2>2. Keen(S.regs[f])
    BY <1>1, <2>1 DEF Live, LiveAt
  <2>3. Members(regs[f].place) = {f}
    BY <2>1, Places1 DEF regs
  <2> QED
    BY <2>1, <2>2, <2>3 DEF Keen, regs
<1>3. ASSUME NEW c \in Fd, NEW s \in Fd, f \in {c, s}, PairAt(S, c, c, s), PairAt(S, s, c, s)
      PROVE  \E g \in Members(regs[f].place) : regs[g].interest \cap {"IN", "OUT"} # {}
  <2>1. Busy(S.regs[c], S.regs[s]) /\ S.regs[f].place = <<c, s>>
    BY <1>1, <1>3, LivesAsPair DEF PairAt
  <2>2. Members(regs[f].place) = {c, s}
    <3>1. regs[f].place = <<c, s>>
      BY <2>1 DEF regs
    <3>2. Members(<<c, s>>) = {c, s}
      BY Places1
    <3> QED
      BY <3>1, <3>2
  <2>3. \E g \in {c, s} : S.regs[g].interest \cap {"IN", "OUT"} # {}
    <3>1. CASE S.regs[c].handler.kind = "tunnel"
      BY <2>1, <3>1 DEF Busy, Flows
    <3>2. CASE S.regs[c].handler.kind # "tunnel"
      BY <2>1, <3>2 DEF Busy
    <3> QED
      BY <3>1, <3>2
  <2> QED
    BY <2>2, <2>3 DEF regs
<1> QED
  BY <1>1, <1>2, <1>3, HandlerPlace

\* All of it is invariant.
LEMMA LiveHolds == Spec => [](Inv /\ Live(server))
<1>1. Init => Inv /\ Live(server)
  BY InitInv, BlankIsLive DEF Init
<1>2. Inv /\ Live(server) /\ [Next]_vars => (Inv /\ Live(server))'
  BY NextInv, NextLives
<1> QED
  BY <1>1, <1>2, PTL DEF Spec

\* A client that waits for its host (connect_to_server) has its entry in on_resolve,
\* and the resolver still owes the answer that finds it, also when entries of
\* clients that expired are in the way.
THEOREM AnswersAreComing == Spec => []WaiterHasAnswerComing
<1>1. Inv /\ Live(server) => WaiterHasAnswerComing
  BY LiveIsAnswered
<1> QED
  BY <1>1, LiveHolds, PTL

\* No handler leaves a connection with both sides in WAIT (set_events(WAIT) and the
\* toggled events of a tunnel), in whatever order events are handled.
THEOREM ConnectionsMove == Spec => []SomeoneMoves
<1>1. Inv /\ Live(server) => SomeoneMoves
  BY LiveMoves
<1> QED
  BY <1>1, LiveHolds, PTL
==============================================================================
