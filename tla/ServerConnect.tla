---------------------------- MODULE ServerConnect ----------------------------
(***************************************************************************)
(* How a client is connected to its host (proxy_server.cpp:                *)
(* connect_to_server, the handler of the notifier and                      *)
(* make_server_connect_handler): which addresses are tried, in what order  *)
(* and on which port, and the entry of on_resolve that holds what is to be *)
(* done once a server has accepted.  The resolver is its service, the      *)
(* network decides what becomes of an attempt.                             *)
(***************************************************************************)
EXTENDS SequencesExt

CONSTANTS
  Client,    \* the clients, each with its host and its request
  Address,
  Refuses,   \* the addresses that may refuse a connection
  Type,      \* the requests there are: of "GET", "CONNECT"
  MaxIps,    \* bound: addresses of a host
  None

ASSUME ConnectAssumption ==
  /\ Refuses \subseteq Address
  /\ Type \subseteq {"GET", "CONNECT"}
  /\ MaxIps \in Nat
  /\ None \notin {"refused", "failed", "connected"}

\* What getaddrinfo() may return.
Ips == {s \in BoundedSeq(Address, MaxIps) : IsInjective(s)}

\* What the port of an attempt may be: the one of the host, or whatever was in
\* memory.
Port == {"asked", "any"}

VARIABLES
  client,      \* what has become of the client
  on_resolve,  \* the clients with an entry
  conn,        \* the connection of a client: the addresses that its connect
               \* handler holds, and the address and port the socket was given
  event,       \* what epoll has to say of the socket to the server
  found,       \* the addresses that were found for a client
  refused      \* the addresses that refused it

vars == <<client, on_resolve, conn, event, found, refused>>

Init ==
  /\ client = [c \in Client |-> "idle"]
  /\ on_resolve = {}
  /\ conn = [c \in Client |-> None]
  /\ event = [c \in Client |-> None]
  /\ found = [c \in Client |-> {}]
  /\ refused = [c \in Client |-> {}]

-----------------------------------------------------------------------------
\* resolved_ip: has_ip(), get_ip() and next_ip().

\* Mutant: it always has an address.
HasIp_Always(ips) == TRUE

\* Mutant: one address is taken for none.
HasIp_Two(ips) == Len(ips) > 1

HasIp(ips) == ips # <<>>
GetIp(ips) == IF ips = <<>> THEN None ELSE Head(ips)

\* Mutant: the first address stays.
NextIp_Same(ips) == ips

NextIp(ips) == IF ips = <<>> THEN ips ELSE Tail(ips)

\* The connect handler has a copy of the addresses, and no copy has the port.
CopiedPort == Port

\* The client is told 404: its entry is erased and its connection closed.
GivesUp(c, why) ==
  /\ client' = [client EXCEPT ![c] = why]
  /\ on_resolve' = on_resolve \ {c}
  /\ conn' = [conn EXCEPT ![c] = None]
  /\ event' = [event EXCEPT ![c] = None]

-----------------------------------------------------------------------------
\* connect_to_server().
Query(c) ==
  /\ client[c] = "idle"
  /\ client' = [client EXCEPT ![c] = "resolving"]
  /\ on_resolve' = on_resolve \cup {c}
  /\ UNCHANGED <<conn, event, found, refused>>

\* The handler of the notifier for a client that is still there: there is no
\* address,
AnswerNotFound(c) ==
  /\ client[c] = "resolving"
  /\ GivesUp(c, "not found")
  /\ UNCHANGED <<found, refused>>

\* connect() fails at once with the first,
AnswerUnreachable(c, ips) ==
  /\ client[c] = "resolving" /\ HasIp(ips)
  /\ found' = [found EXCEPT ![c] = ToSet(ips)]
  /\ GivesUp(c, "unreachable")
  /\ UNCHANGED refused

\* or the first is tried, on the port that was asked for, and the connect
\* handler takes a copy of all of them.
AnswerFound(c, ips) ==
  /\ client[c] = "resolving" /\ HasIp(ips)
  /\ found' = [found EXCEPT ![c] = ToSet(ips)]
  /\ client' = [client EXCEPT ![c] = "connecting"]
  /\ conn' = [conn EXCEPT ![c] = [ips |-> ips, to |-> GetIp(ips), port |-> "asked"]]
  /\ UNCHANGED <<on_resolve, event, refused>>

\* Mutant: the connection stays when its client goes.
Leaves_NotClosed(c) ==
  /\ client[c] \in {"resolving", "connecting"}
  /\ client' = [client EXCEPT ![c] = "gone"]
  /\ on_resolve' = on_resolve \ {c}
  /\ UNCHANGED <<conn, event, found, refused>>

\* The handlers of a client that waits: it drops the connection.
Leaves(c) ==
  /\ client[c] \in {"resolving", "connecting"}
  /\ GivesUp(c, "gone")
  /\ UNCHANGED <<found, refused>>

\* What becomes of the attempt to connect, and what of the connection while the
\* server still has its connect handler.  A server may also stay silent.
Settles(c, e) ==
  /\ client[c] = "connecting" /\ event[c] = None
  /\ e \in {"refused", "failed", "connected"}
  /\ e = "refused" => conn[c].to \in Refuses
  /\ event' = [event EXCEPT ![c] = e]
  /\ UNCHANGED <<client, on_resolve, conn, found, refused>>

Resets(c) ==
  /\ \/ client[c] = "connecting" /\ event[c] = "connected"
     \/ client[c] = "greeted" /\ event[c] = None
  /\ event' = [event EXCEPT ![c] = "failed"]
  /\ UNCHANGED <<client, on_resolve, conn, found, refused>>

\* The connect handler, epoll_core's copy of it: what it does to its addresses
\* is lost when it returns.  There is no further address,
RefusedByLast(c) ==
  /\ client[c] = "connecting" /\ event[c] = "refused"
  /\ ~HasIp(NextIp(conn[c].ips))
  /\ refused' = [refused EXCEPT ![c] = @ \cup {conn[c].to}]
  /\ GivesUp(c, "not found")
  /\ UNCHANGED found

\* the next is tried,
Retries(c) ==
  /\ client[c] = "connecting" /\ event[c] = "refused"
  /\ HasIp(NextIp(conn[c].ips))
  /\ refused' = [refused EXCEPT ![c] = @ \cup {conn[c].to}]
  /\ \E p \in CopiedPort :
       conn' = [conn EXCEPT ![c].to = GetIp(NextIp(conn[c].ips)), ![c].port = p]
  /\ event' = [event EXCEPT ![c] = None]
  /\ UNCHANGED <<client, on_resolve, found>>

\* connect() fails at once with the next, or the error is another one.
Fails(c) ==
  /\ client[c] = "connecting"
  /\ \/ event[c] = "refused" /\ HasIp(NextIp(conn[c].ips))
     \/ event[c] = "failed"
  /\ GivesUp(c, "unreachable")
  /\ UNCHANGED <<found, refused>>

\* The entry's action runs: it sends the request to the server, which has
\* another handler from then on, or 200 to the client.
Connected(c) ==
  /\ client[c] = "connecting" /\ event[c] = "connected"
  /\ on_resolve' = on_resolve \ {c}
  /\ event' = [event EXCEPT ![c] = None]
  /\ \/ "GET" \in Type /\ client' = [client EXCEPT ![c] = "served"]
     \/ "CONNECT" \in Type /\ client' = [client EXCEPT ![c] = "greeted"]
  /\ UNCHANGED <<conn, found, refused>>

\* handle_connect() after the 200: the server gets the handler of the tunnel.
Greeted(c) ==
  /\ client[c] = "greeted" /\ event[c] = None
  /\ client' = [client EXCEPT ![c] = "served"]
  /\ UNCHANGED <<on_resolve, conn, event, found, refused>>

\* The timer: nothing was heard of the server for SHORT_SOCKET_TIMEOUT since
\* the last attempt, and the entry stays.
Expires(c) ==
  /\ client[c] = "connecting" /\ event[c] = None
  /\ client' = [client EXCEPT ![c] = "expired"]
  /\ conn' = [conn EXCEPT ![c] = None]
  /\ UNCHANGED <<on_resolve, event, found, refused>>

Handles(c) == RefusedByLast(c) \/ Retries(c) \/ Fails(c) \/ Connected(c)

Ends(c) == Expires(c) \/ \E e \in {"refused", "failed", "connected"} : Settles(c, e)

Next == \E c \in Client :
          \/ Query(c) \/ AnswerNotFound(c) \/ Leaves(c) \/ Resets(c) \/ Greeted(c)
          \/ Handles(c) \/ Ends(c)
          \/ \E ips \in Ips : AnswerFound(c, ips) \/ AnswerUnreachable(c, ips)

Spec == Init /\ [][Next]_vars

\* epoll reports what there is to report, and an attempt is settled by the
\* network or in the end by the timer: set_active() gives each its own time.
FairSpec == Spec /\ \A c \in Client : WF_vars(Handles(c)) /\ WF_vars(Ends(c))

-----------------------------------------------------------------------------
\* The variables hold what their declarations say.
TypeOK ==
  /\ client \in [Client -> {"idle", "resolving", "connecting", "greeted", "served", "gone",
                            "not found", "unreachable", "expired"}]
  /\ on_resolve \subseteq Client
  /\ conn \in [Client -> [ips : Ips \ {<<>>}, to : Address, port : Port] \cup {None}]
  /\ event \in [Client -> {"refused", "failed", "connected", None}]
  /\ found \in [Client -> SUBSET Address] /\ refused \in [Client -> SUBSET Refuses]

\* Whenever the connect handler is called for an attempt to connect it finds the
\* entry of the client, which it uses as find() returned it and erases without a
\* look: also after its client left, a retry or an error.  (While the 200 of a
\* CONNECT is sent, "greeted", a reset calls it once more and there is none.)
QueryFound ==
  \A c \in Client : conn[c] # None /\ event[c] # None /\ client[c] \notin {"greeted", "served"}
                      => c \in on_resolve

\* A host is given up for want of addresses only when it has none or all of them
\* have refused.
TriedThemAll ==
  \A c \in Client : client[c] = "not found" => found[c] \subseteq refused[c]

RefusedBySecond(c) ==
  /\ event[c] = "refused" /\ Len(conn[c].ips) > 1
  /\ conn[c].to = conn[c].ips[2]

\* An attempt to connect ends - with a server, with 404 or by its timeout - unless
\* the second address of the host refuses it again and again.  (The registered
\* handler keeps its addresses: it is the second that is tried once more each time,
\* with a new timeout, and never a third.)
EndsUnlessRefused ==
  \A c \in Client : \/ []<>(client[c] # "connecting")
                    \/ []<>RefusedBySecond(c)
==============================================================================
