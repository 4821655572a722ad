---------------------------- MODULE MCProxyServer ----------------------------
(***************************************************************************)
(* Descriptors, clients and hosts are interchangeable.                     *)
(***************************************************************************)
EXTENDS ProxyServer, TLC

Symmetric == Permutations(Fd) \cup Permutations(Client) \cup Permutations(Host)
==============================================================================
