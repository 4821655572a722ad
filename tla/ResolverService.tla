--------------------------- MODULE ResolverService ---------------------------
(***************************************************************************)
(* What the resolver promises the server: every call of resolve_host() is  *)
(* answered at most once, with the addresses of the host it asked about or *)
(* with none, and the answers come in any order.  Until the service is     *)
(* stopped every call is answered in the end.                              *)
(***************************************************************************)
CONSTANTS Call,       \* the calls of resolve_host(), each made once
          Name,       \* the host names, without their ports
          NameOf,     \* the name each call asks about
          None        \* no addresses

VARIABLES pending,    \* the calls that wait for their answer
          answers,    \* [Call -> Name \cup {None}] on the answered calls
          open        \* false once the service is stopped

vars == <<pending, answers, open>>

Answered == DOMAIN answers

Init == pending = {} /\ answers = [c \in {} |-> None] /\ open = TRUE

Ask(c) ==
  /\ open
  /\ c \notin pending \cup Answered
  /\ pending' = pending \cup {c}
  /\ UNCHANGED <<answers, open>>

\* The addresses of a name are stood for by the name itself.
Answer(c, ips) ==
  /\ c \in pending
  /\ ips \in {NameOf[c], None}
  /\ pending' = pending \ {c}
  /\ answers' = [x \in Answered \cup {c} |-> IF x = c THEN ips ELSE answers[x]]
  /\ UNCHANGED open

Stop == open /\ open' = FALSE /\ UNCHANGED <<pending, answers>>

Next ==
  \/ Stop
  \/ \E c \in Call : Ask(c) \/ \E ips \in Name \cup {None} : Answer(c, ips)

Spec == Init /\ [][Next]_vars
==============================================================================
