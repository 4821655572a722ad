------------------------------ MODULE MCTunnel -------------------------------
(***************************************************************************)
(* An instance of the tunnel: two different bytes, and a buffer that fills *)
(* up before the client has sent everything; the server answers.           *)
(***************************************************************************)
EXTENDS Tunnel

MCSent == [x \in Side |-> IF x = "client" THEN 3 ELSE 1]
==============================================================================
