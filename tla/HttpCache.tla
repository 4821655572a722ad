------------------------------ MODULE HttpCache ------------------------------
(***************************************************************************)
(* The cache of responses as the connections use it (proxy_server.cpp:     *)
(* handle_client_request, handle_validation_response, fast_transfer and    *)
(* the *_cached functions), with the headers they look at (HeaderParser)   *)
(* and the map of limited size (FifoCache).  Each connection has one       *)
(* request on its way; the origin servers change what they have meanwhile. *)
(***************************************************************************)
EXTENDS HeaderParser

CONSTANTS
  Conn,
  Host, Path,
  Type,        \* the types of requests: of "GET", "POST", "PUT"
  Marks,       \* further properties that a response may have
  Hops,        \* what a client says of its connection: lists of properties
  Known,       \* the versions that clients may have seen without this proxy
  MaxSize,     \* proxy_server::MAX_CACHE_SIZE: 20000
  MaxVersion,  \* bound: versions of what is at a URL
  None

Url     == Host \X Path
Version == 1 .. MaxVersion

ASSUME CacheAssumption ==
  /\ Type \subseteq {"GET", "POST", "PUT"} /\ Known \subseteq Version
  /\ MaxSize \in Nat \ {0} /\ MaxVersion \in Nat \ {0}

(***************************************************************************)
(* A request is its line and properties.  A response has a code and        *)
(* properties too; of is what its body shows: a version of what is at a    *)
(* URL, with POST and PUT the outcome of the request, or nothing.          *)
(***************************************************************************)
Condition == {<<>>} \cup {<<Property("if-none-match", v)>> : v \in Known}

Request(host, path, type, hop, condition) ==
  [type |-> type, path |-> path,
   properties |-> <<Property("host", host)>> \o hop \o condition]

\* What the clients send.
Requests == {Request(h, p, t, hop, c) :
               h \in Host, p \in Path, t \in Type, hop \in Hops, c \in Condition}

Response(code, properties, url, of) ==
  [code |-> code, properties |-> properties, url |-> url, of |-> of]

\* What a POST or PUT results in: no version of what is there, with an etag of
\* its own.
Outcome == 0

\* The URL that a request is for.
Target(r) == <<Get(r.properties, "host"), r.path>>

\* The validators that a server gives with a version.
Validators(v) == {<<Property("etag", v)>>, <<Property("last-modified", v)>>, <<>>}

\* What the servers answer.
Headers == (UNION {Validators(v) : v \in Version \cup {Outcome}})
             \cup {ps \o ms : ps \in UNION {Validators(v) : v \in Version}, ms \in Marks}

Responses == {Response(code, ps, u, of) :
                code \in {200, 304, 500}, ps \in Headers, u \in Url, of \in Version \cup {Outcome, None}}

ListOfProperties(ps) == ps \in Seq({ps[i] : i \in DOMAIN ps})

\* A client says Proxy-Connection at most once, a server gives its validators
\* and nothing else by their names, and None is none of the values.
ASSUME HopsAssumption ==
  \A hop \in Hops : /\ ListOfProperties(hop)
                    /\ \A i, j \in Positions(hop, "proxy-connection") : i = j
ASSUME MarksAssumption ==
  \A ms \in Marks : ListOfProperties(ms) /\ ~Has(ms, "etag") /\ ~Has(ms, "last-modified")
ASSUME NoneAssumption == None \notin Responses /\ None \notin Version

VARIABLES
  cache,    \* as FifoCache
  origin,   \* the current version of every URL
  conn      \* what each connection is doing

vars == <<cache, origin, conn>>

Store == INSTANCE FifoCache WITH Key <- Url, Value <- {}, fifo <- cache

\* A connection between two requests.
Idle == [phase |-> "idle", sent |-> None, rqst |-> None, asked |-> None, copy |-> None,
         resp |-> None, shown |-> {}]

Init ==
  /\ cache = Store!Empty
  /\ origin = [u \in Url |-> 1]
  /\ conn = [c \in Conn |-> Idle]

-----------------------------------------------------------------------------
\* Mutant: the host is not part of the key.
ToUrl_NoHost(rqst) == <<CHOOSE h \in Host : TRUE, rqst.path>>

\* to_url().
ToUrl(rqst) == <<Get(rqst.properties, "host"), rqst.path>>

\* What is asked of the origin for a request, with the copy if there is one.
Started(r, copy) ==
  IF copy = None THEN [Idle EXCEPT !.phase = "transferring", !.rqst = r, !.asked = r]
  ELSE [Idle EXCEPT !.phase = "validating", !.rqst = r, !.copy = copy,
                    !.asked = [r EXCEPT !.properties = MakeValidateHeader(@, copy.properties)]]

\* get_type() takes whatever it does not know for a GET.
GetType(r) == IF r.type \in {"GET", "POST", "CONNECT"} THEN r.type ELSE "GET"

\* handle_client_request(): a GET for which there is a copy validates it, and
\* keeps it meanwhile.  A client knows no version before there is one.
Handles(c) ==
  /\ conn[c].phase = "idle"
  /\ \E sent \in Requests :
       LET r    == [sent EXCEPT !.properties = Parsed(@)]
           now  == origin[Target(r)]
           copy == IF GetType(r) = "GET" /\ Store!Has(cache, ToUrl(r))
                     THEN cache.stored[ToUrl(r)] ELSE None
       IN  /\ Has(r.properties, "if-none-match") => Get(r.properties, "if-none-match") <= now
           /\ conn' = [conn EXCEPT ![c] = [Started(r, copy) EXCEPT !.sent = sent, !.shown = {now}]]
  /\ UNCHANGED <<cache, origin>>

\* handle_validation_response() after 200 or 304: the copy is sent.
Confirmed(c) ==
  /\ conn[c].phase = "validating" /\ conn[c].resp # None
  /\ conn[c].resp.code \in {200, 304}
  /\ conn' = [conn EXCEPT ![c].phase = "answered"]
  /\ UNCHANGED <<cache, origin>>

\* ... and after any other code: the copy, or the one that took its place, is
\* deleted, and the request of the client itself is sent, to the same server or
\* over a new connection.
Rejected(c) ==
  /\ conn[c].phase = "validating" /\ conn[c].resp # None
  /\ conn[c].resp.code \notin {200, 304}
  /\ cache' = Store!Erased(cache, ToUrl(conn[c].rqst))
  /\ conn' = [conn EXCEPT ![c].phase = "transferring", ![c].asked = conn[c].rqst,
                          ![c].copy = None, ![c].resp = None]
  /\ UNCHANGED origin

\* fast_transfer(): the response is read, saved if it may be, and sent.
Transferred(c) ==
  /\ conn[c].phase = "transferring" /\ conn[c].resp # None
  /\ cache' = IF ShouldCache(conn[c].resp.properties)
                THEN Store!Inserted(cache, ToUrl(conn[c].rqst), conn[c].resp) ELSE cache
  /\ conn' = [conn EXCEPT ![c].phase = "answered"]
  /\ UNCHANGED origin

\* The response was sent, or the connection is closed, at any time.
Ends(c) ==
  /\ conn[c].phase # "idle"
  /\ conn' = [conn EXCEPT ![c] = Idle]
  /\ UNCHANGED <<cache, origin>>

-----------------------------------------------------------------------------
(***************************************************************************)
(* The origin servers.  A version has its own validators; 304 is answered  *)
(* to a condition that the current version meets, and an error at any      *)
(* time.                                                                   *)
(***************************************************************************)
Publish(u) ==
  /\ origin[u] < MaxVersion
  /\ origin' = [origin EXCEPT ![u] = @ + 1]
  /\ conn' = [c \in Conn |->
                IF conn[c].phase # "idle"
                     /\ u = Target(conn[c].rqst)
                  THEN [conn[c] EXCEPT !.shown = @ \cup {origin[u] + 1}] ELSE conn[c]]
  /\ UNCHANGED cache

Meets(ps, v) == IF Has(ps, "if-none-match") THEN Get(ps, "if-none-match") = v
                ELSE Has(ps, "if-modified-since") /\ Get(ps, "if-modified-since") = v

Answers(asked, v) ==
  LET u == Target(asked) IN
  {Response(500, <<>>, u, None)}
    \cup IF asked.type # "GET" THEN {Response(200, <<Property("etag", Outcome)>>, u, Outcome)}
         ELSE IF Meets(asked.properties, v)
                THEN {Response(304, ps, u, None) : ps \in {<<Property("etag", v)>>, <<>>}}
         ELSE {Response(200, ps \o ms, u, v) : ps \in Validators(v), ms \in Marks}

Answer(c) ==
  /\ conn[c].phase \in {"validating", "transferring"} /\ conn[c].resp = None
  /\ \E r \in Answers(conn[c].asked, origin[Target(conn[c].asked)]) :
       conn' = [conn EXCEPT ![c].resp = r]
  /\ UNCHANGED <<cache, origin>>

-----------------------------------------------------------------------------
Next == \/ \E c \in Conn : \/ Handles(c) \/ Ends(c) \/ Answer(c)
                           \/ Confirmed(c) \/ Rejected(c) \/ Transferred(c)
        \/ \E u \in Url : Publish(u)

Spec == Init /\ [][Next]_vars

-----------------------------------------------------------------------------
\* What the client is sent.
Reply(x) == IF x.copy # None THEN x.copy ELSE x.resp

\* The variables hold what their declarations say.
TypeOK ==
  /\ Len(cache.order) <= MaxSize /\ DOMAIN cache.stored \subseteq Url
  /\ \A u \in DOMAIN cache.stored : cache.stored[u] \in Responses
  /\ origin \in [Url -> Version]
  /\ \A c \in Conn :
       /\ conn[c].phase \in {"idle", "validating", "transferring", "answered"}
       /\ conn[c].phase # "idle" => conn[c].sent \in Requests
       /\ {conn[c].copy, conn[c].resp} \subseteq Responses \cup {None}
       /\ conn[c].phase = "answered" => Reply(conn[c]) # None
       /\ conn[c].shown \subseteq Version

\* Every client is answered with something that is at the URL it asked for,
\* whatever the other connections store and delete between its steps.
AnswersTheUrl ==
  \A c \in Conn : conn[c].phase = "answered" =>
    Reply(conn[c]).url = Target(conn[c].rqst)

\* A copy that is sent because the server answered 304 was the current version
\* at some time since the request was read, also if it was evicted, deleted or
\* stored anew while it was validated: the condition is that of the copy, and
\* never the one of the client.
ConfirmedIsCurrent ==
  \A c \in Conn :
    LET x == conn[c] IN
    x.phase = "answered" /\ x.copy # None /\ x.resp.code = 304 /\ x.copy.of \in Version
      => x.copy.of \in x.shown

\* What the client said of its connection: Connection, or Proxy-Connection if
\* that is all it sent.
Said(ps) == IF Has(ps, "connection") THEN Get(ps, "connection")
                                     ELSE Get(ps, "proxy-connection")

\* The origin is told of the connection what the client said, and no
\* Proxy-Connection, also when the request was replaced by one that validates a
\* copy and when it is sent after all because the copy was rejected.
ConnectionAsMeant ==
  \A c \in Conn : conn[c].asked # None =>
    LET ps == conn[c].asked.properties IN
    /\ Get(ps, "connection") = Said(conn[c].sent.properties)
    /\ ~Has(ps, "proxy-connection")

\* "Decide, can we send cached or should download response again"
\* (proxy_server.h:91): a copy that is sent was current since the request was
\* read.
CopyIsCurrent ==
  \A c \in Conn :
    LET x == conn[c] IN
    x.phase = "answered" /\ x.copy # None /\ x.copy.of \in Version => x.copy.of \in x.shown
==============================================================================
