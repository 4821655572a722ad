----------------------------- MODULE MCResolver ------------------------------
(***************************************************************************)
(* Four calls, two of them about one host, the fourth with a port that is  *)
(* not a number.                                                           *)
(***************************************************************************)
EXTENDS Resolver, TLC

CONSTANTS c1, c2, c3, c4, a, b, d

Calls  == {c1, c2, c3, c4}
Names  == c1 :> a @@ c2 :> a @@ c3 :> b @@ c4 :> d
==============================================================================
