---------------------------- MODULE MCHttpCache ------------------------------
(***************************************************************************)
(* Instances of the cache of responses: two connections that may ask for   *)
(* the same URL, on two hosts, and two versions of everything.             *)
(***************************************************************************)
EXTENDS HttpCache, TLC

Plain == {<<>>}

\* Responses that may be stored, and with a property that forbids it.
MCMarks == Plain \cup {<<Property("pragma", {"no-cache"})>>}

\* A client of a proxy, and one that says something else to the server.
MCHops == {<<Property("proxy-connection", "keep-alive")>>,
           <<Property("connection", "close"), Property("proxy-connection", "keep-alive")>>}
KeepAlive == {<<Property("connection", "keep-alive")>>}

Symmetric == Permutations(Conn) \cup Permutations(Host)
==============================================================================
