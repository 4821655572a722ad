--------------------------- MODULE MCServerConnect ---------------------------
(***************************************************************************)
(* Instances of connecting: hosts of up to three addresses.                *)
(***************************************************************************)
EXTENDS ServerConnect
==============================================================================
