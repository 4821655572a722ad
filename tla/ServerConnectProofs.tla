------------------------- MODULE ServerConnectProofs --------------------------
(***************************************************************************)
(* Connecting to hosts of any number of addresses, any of which may refuse *)
(* and for any number of clients: the connect handler finds its entry, and *)
(* no host is given up for want of addresses before all have refused.      *)
(***************************************************************************)
EXTENDS ServerConnect, SequenceTheorems, TLAPS

Attempt == [ips : Ips \ {<<>>}, to : Address, port : Port]

\* What is known of a client from what has become of it: its entry, its
\* connection, the last event, the addresses found and those that refused.  A
\* client that is resolved or connected to has its entry; the address that is
\* tried is one of those found, all of which the handler still holds.
Consistent(c) ==
  /\ client[c] \in {"connecting", "greeted", "served"} => conn[c] \in Attempt
  /\ client[c] \notin {"connecting", "greeted", "served"} => conn[c] = None
  /\ client[c] \in {"resolving", "connecting"} => c \in on_resolve
  /\ client[c] \in {"idle", "resolving"} => found[c] = {} /\ event[c] = None
  /\ client[c] = "connecting" =>
       /\ conn[c].to \in ToSet(conn[c].ips) /\ found[c] = ToSet(conn[c].ips)
       /\ event[c] = "refused" => conn[c].to \in Refuses
  /\ client[c] = "not found" => found[c] \subseteq refused[c]

Typed ==
  /\ client \in [Client -> {"idle", "resolving", "connecting", "greeted", "served", "gone",
                            "not found", "unreachable", "expired"}]
  /\ on_resolve \subseteq Client
  /\ conn \in [Client -> Attempt \cup {None}]
  /\ event \in [Client -> {"refused", "failed", "connected", None}]
  /\ found \in [Client -> SUBSET Address] /\ refused \in [Client -> SUBSET Refuses]

\* The inductive invariant.
Inv == Typed /\ \A c \in Client : Consistent(c)

-----------------------------------------------------------------------------
\* resolved_ip: while it has an address, the first is one of them.
LEMMA FirstIp ==
  ASSUME NEW ips \in Ips, HasIp(ips)
  PROVE  /\ ips \in Ips \ {<<>>} /\ ToSet(ips) \subseteq Address
         /\ GetIp(ips) \in Address /\ GetIp(ips) \in ToSet(ips)
<1>1. ips \in Seq(Address)
  BY DEF Ips, BoundedSeq, SeqOf
<1>2. ips # <<>>
  BY DEF HasIp
<1>3. Len(ips) \in Nat /\ Len(ips) > 0 /\ 1 \in DOMAIN ips
  BY <1>1, <1>2
<1>4. \A i \in DOMAIN ips : ips[i] \in Address
  BY <1>1
<1>5. GetIp(ips) = ips[1]
  BY <1>1, <1>2 DEF GetIp
<1> QED
  BY <1>2, <1>3, <1>4, <1>5 DEF ToSet

\* ... and the one behind it, if there is one, is one of them too.
LEMMA SecondIp ==
  ASSUME NEW ips \in Ips \ {<<>>}, HasIp(NextIp(ips))
  PROVE  GetIp(NextIp(ips)) \in Address /\ GetIp(NextIp(ips)) \in ToSet(ips)
<1>1. ips \in Seq(Address) /\ ips # <<>>
  BY DEF Ips, BoundedSeq, SeqOf
<1>2. NextIp(ips) = Tail(ips) /\ Tail(ips) # <<>>
  BY <1>1 DEF NextIp, HasIp
<1>3. Len(ips) \in Nat /\ Len(Tail(ips)) = Len(ips) - 1 /\ Tail(ips) \in Seq(Address)
  BY <1>1
<1>4. Len(ips) >= 2 /\ 2 \in DOMAIN ips
  BY <1>1, <1>2, <1>3
<1>5. GetIp(NextIp(ips)) = ips[2]
  BY <1>1, <1>2, <1>3, <1>4 DEF GetIp
<1> QED
  BY <1>1, <1>4, <1>5 DEF ToSet

\* Addresses without one behind the first are that one.
LEMMA OnlyIp ==
  ASSUME NEW ips \in Ips \ {<<>>}, ~HasIp(NextIp(ips)), NEW a \in ToSet(ips)
  PROVE  ToSet(ips) = {a}
<1>1. ips \in Seq(Address) /\ ips # <<>>
  BY DEF Ips, BoundedSeq, SeqOf
<1>2. Tail(ips) = <<>>
  BY <1>1 DEF NextIp, HasIp
<1>3. Len(ips) \in Nat /\ Len(Tail(ips)) = Len(ips) - 1 /\ Len(ips) > 0
  BY <1>1
<1>4. DOMAIN ips = 1 .. 1
  <2>1. Len(ips) = 1
    <3>1. Tail(ips) \in Seq(Address)
      BY <1>1
    <3>2. Len(Tail(ips)) = 0
      BY <1>2, <3>1, EmptySeq
    <3> DEFINE n == Len(ips)
               m == Len(Tail(ips))
    <3>3. n \in Nat /\ m = n - 1 /\ m = 0
      BY <1>3, <3>2
    <3> HIDE DEF n, m
    <3>4. n = 1
      BY <3>3
    <3> QED
      BY <3>4 DEF n
  <2>2. DOMAIN ips = 1 .. Len(ips)
    BY <1>1
  <2> QED
    BY <2>1, <2>2
<1>5. ToSet(ips) = {ips[1]}
  BY <1>4 DEF ToSet
<1> QED
  BY <1>5

-----------------------------------------------------------------------------
\* An attempt that is given up leaves no connection and no entry, whatever it is
\* given up for.
LEMMA GivesUpKeeps ==
  ASSUME Inv, NEW c \in Client, NEW why \in {"gone", "not found", "unreachable"},
         GivesUp(c, why),
         found' \in [Client -> SUBSET Address], refused' \in [Client -> SUBSET Refuses],
         \A d \in Client \ {c} : found'[d] = found[d] /\ refused'[d] = refused[d],
         why = "not found" => found'[c] \subseteq refused'[c]
  PROVE  Inv'
<1>1. Typed'
  BY DEF Inv, Typed, GivesUp
<1>2. Consistent(c)'
  BY DEF Inv, Typed, Consistent, GivesUp
<1>3. ASSUME NEW d \in Client \ {c} PROVE Consistent(d)'
  BY <1>3 DEF Inv, Typed, Consistent, GivesUp
<1> QED
  BY <1>1, <1>2, <1>3 DEF Inv

\* The initial states have it.
LEMMA InitInv == Init => Inv
  BY DEF Init, Inv, Typed, Consistent

\* Every step preserves the invariant.
LEMMA NextInv == Inv /\ [Next]_vars => Inv'
<1> SUFFICES ASSUME Inv, [Next]_vars PROVE Inv'
  OBVIOUS
<1>1. ASSUME NEW c \in Client, Query(c) PROVE Inv'
  BY <1>1 DEF Inv, Typed, Consistent, Query
<1>2. ASSUME NEW c \in Client, AnswerNotFound(c) PROVE Inv'
  <2>1. GivesUp(c, "not found") /\ found[c] = {} /\ found' = found /\ refused' = refused
    BY <1>2 DEF AnswerNotFound, Inv, Consistent
  <2> QED
    BY <2>1, GivesUpKeeps DEF Inv, Typed
<1>3. ASSUME NEW c \in Client, Leaves(c) PROVE Inv'
  <2>1. GivesUp(c, "gone") /\ found' = found /\ refused' = refused
    BY <1>3 DEF Leaves
  <2> QED
    BY <2>1, GivesUpKeeps DEF Inv, Typed
<1>4. ASSUME NEW c \in Client, Resets(c) PROVE Inv'
  BY <1>4 DEF Inv, Typed, Consistent, Resets
<1>5. ASSUME NEW c \in Client, Greeted(c) PROVE Inv'
  BY <1>5 DEF Inv, Typed, Consistent, Greeted
<1>6. ASSUME NEW c \in Client, RefusedByLast(c) PROVE Inv'
  <2>1. /\ conn[c] \in Attempt /\ conn[c].to \in ToSet(conn[c].ips)
        /\ found[c] = ToSet(conn[c].ips) /\ conn[c].to \in Refuses
    BY <1>6 DEF RefusedByLast, Inv, Consistent
  <2>2. found[c] = {conn[c].to}
    BY <1>6, <2>1, OnlyIp DEF RefusedByLast, Attempt
  <2>3. /\ GivesUp(c, "not found") /\ found' = found
        /\ refused' = [refused EXCEPT ![c] = @ \cup {conn[c].to}]
    BY <1>6 DEF RefusedByLast
  <2>4. /\ refused' \in [Client -> SUBSET Refuses] /\ found' \in [Client -> SUBSET Address]
        /\ \A d \in Client \ {c} : found'[d] = found[d] /\ refused'[d] = refused[d]
        /\ found'[c] \subseteq refused'[c]
    BY <2>1, <2>2, <2>3 DEF Inv, Typed
  <2> QED
    BY <2>3, <2>4, GivesUpKeeps
<1>7. ASSUME NEW c \in Client, Retries(c) PROVE Inv'
  <2>1. /\ client[c] = "connecting" /\ conn[c] \in Attempt /\ conn[c].to \in Refuses
        /\ found[c] = ToSet(conn[c].ips)
    BY <1>7 DEF Retries, Inv, Consistent
  <2> DEFINE next == GetIp(NextIp(conn[c].ips))
  <2>2. next \in Address /\ next \in ToSet(conn[c].ips)
    BY <1>7, <2>1, SecondIp DEF Retries, Attempt
  <2>3. PICK p \in Port : conn' = [conn EXCEPT ![c].to = next, ![c].port = p]
    BY <1>7 DEF Retries, CopiedPort
  <2> HIDE DEF next
  <2>4. /\ conn' = [conn EXCEPT ![c] = conn'[c]]
        /\ conn'[c] = [ips |-> conn[c].ips, to |-> next, port |-> p]
    BY <2>1, <2>3 DEF Inv, Typed, Attempt
  <2>5. /\ conn'[c] \in Attempt /\ conn'[c].ips = conn[c].ips /\ conn'[c].to = next
        /\ \A d \in Client \ {c} : conn'[d] = conn[d]
        /\ conn' \in [Client -> Attempt \cup {None}]
    <3>1. conn[c].ips \in Ips \ {<<>>}
      BY <2>1 DEF Attempt
    <3>2. conn'[c] \in Attempt /\ conn'[c].ips = conn[c].ips /\ conn'[c].to = next
      BY <2>2, <2>4, <3>1 DEF Attempt
    <3>3. \A d \in Client \ {c} : conn'[d] = conn[d]
      BY <2>4 DEF Inv, Typed
    <3>4. conn' \in [Client -> Attempt \cup {None}]
      BY <2>4, <3>2 DEF Inv, Typed
    <3> QED
      BY <3>2, <3>3, <3>4
  <2>6. /\ client' = client /\ on_resolve' = on_resolve /\ found' = found
        /\ event' = [event EXCEPT ![c] = None]
        /\ refused' = [refused EXCEPT ![c] = @ \cup {conn[c].to}]
    BY <1>7 DEF Retries
  <2>7. Typed'
    BY <2>1, <2>5, <2>6 DEF Inv, Typed
  <2>8. Consistent(c)'
    BY <2>1, <2>2, <2>5, <2>6, ConnectAssumption DEF Inv, Typed, Consistent
  <2>9. ASSUME NEW d \in Client \ {c} PROVE Consistent(d)'
    BY <2>5, <2>6, <2>9 DEF Inv, Typed, Consistent
  <2> QED
    BY <2>7, <2>8, <2>9 DEF Inv
<1>8. ASSUME NEW c \in Client, Fails(c) PROVE Inv'
  <2>1. GivesUp(c, "unreachable") /\ found' = found /\ refused' = refused
    BY <1>8 DEF Fails
  <2> QED
    BY <2>1, GivesUpKeeps DEF Inv, Typed
<1>9. ASSUME NEW c \in Client, Connected(c) PROVE Inv'
  BY <1>9 DEF Inv, Typed, Consistent, Connected
<1>10. ASSUME NEW c \in Client, Expires(c) PROVE Inv'
  BY <1>10 DEF Inv, Typed, Consistent, Expires
<1>11. ASSUME NEW c \in Client, NEW e \in {"refused", "failed", "connected"}, Settles(c, e)
       PROVE  Inv'
  BY <1>11 DEF Inv, Typed, Consistent, Settles
<1>12. ASSUME NEW c \in Client, NEW ips \in Ips, AnswerFound(c, ips) PROVE Inv'
  <2>1. /\ ips \in Ips \ {<<>>} /\ ToSet(ips) \subseteq Address
        /\ GetIp(ips) \in Address /\ GetIp(ips) \in ToSet(ips)
    BY <1>12, FirstIp DEF AnswerFound
  <2> DEFINE a == [ips |-> ips, to |-> GetIp(ips), port |-> "asked"]
  <2>2. a \in Attempt /\ a.ips = ips /\ a.to = GetIp(ips)
    BY <2>1 DEF Attempt, Port
  <2>3. /\ client[c] = "resolving" /\ client' = [client EXCEPT ![c] = "connecting"]
        /\ conn' = [conn EXCEPT ![c] = a] /\ found' = [found EXCEPT ![c] = ToSet(ips)]
        /\ UNCHANGED <<on_resolve, event, refused>>
    BY <1>12 DEF AnswerFound
  <2> HIDE DEF a
  <2>4. Typed'
    BY <2>1, <2>2, <2>3 DEF Inv, Typed
  <2>5. event[c] = None /\ None # "refused"
    BY <2>3, ConnectAssumption DEF Inv, Consistent
  <2>6. Consistent(c)'
    BY <2>1, <2>2, <2>3, <2>5 DEF Inv, Typed, Consistent
  <2>7. ASSUME NEW d \in Client \ {c} PROVE Consistent(d)'
    BY <2>3, <2>7 DEF Inv, Typed, Consistent
  <2> QED
    BY <2>4, <2>6, <2>7 DEF Inv
<1>13. ASSUME NEW c \in Client, NEW ips \in Ips, AnswerUnreachable(c, ips) PROVE Inv'
  <2>1. ToSet(ips) \subseteq Address
    BY <1>13, FirstIp DEF AnswerUnreachable
  <2>2. /\ GivesUp(c, "unreachable") /\ refused' = refused
        /\ found' = [found EXCEPT ![c] = ToSet(ips)]
    BY <1>13 DEF AnswerUnreachable
  <2> QED
    BY <2>1, <2>2, GivesUpKeeps DEF Inv, Typed
<1>14. CASE UNCHANGED vars
  BY <1>14 DEF Inv, Typed, Consistent, vars
<1> QED
  BY <1>1, <1>2, <1>3, <1>4, <1>5, <1>6, <1>7, <1>8, <1>9, <1>10, <1>11, <1>12, <1>13, <1>14
     DEF Next, Handles, Ends

\* The invariant gives what the run checks.
LEMMA InvImplies == Inv => TypeOK /\ QueryFound /\ TriedThemAll
<1> SUFFICES ASSUME Inv PROVE TypeOK /\ QueryFound /\ TriedThemAll
  OBVIOUS
<1>1. TypeOK
  BY DEF Inv, Typed, TypeOK, Attempt
<1>2. QueryFound
  <2>1. ASSUME NEW c \in Client, conn[c] # None, client[c] \notin {"greeted", "served"}
        PROVE  c \in on_resolve
    BY <2>1 DEF Inv, Consistent
  <2> QED
    BY <2>1 DEF QueryFound
<1>3. TriedThemAll
  BY DEF Inv, Consistent, TriedThemAll
<1> QED
  BY <1>1, <1>2, <1>3

-----------------------------------------------------------------------------
\* What is known of each client holds in every state of every behaviour.
THEOREM InvHolds == Spec => []Inv
  BY InitInv, NextInv, PTL DEF Spec

\* The variables of connecting keep their types.
THEOREM TypeCorrect == Spec => []TypeOK
  BY InvHolds, InvImplies, PTL

\* The connect handler finds the entry of its client whenever it is called for an
\* attempt (proxy_server.cpp:302), for any number of clients and addresses.
THEOREM EntriesAreFound == Spec => []QueryFound
  BY InvHolds, InvImplies, PTL

\* No host is given up for want of addresses (proxy_server.cpp:321) while one of
\* them has not refused, however many there are and whichever refuse.
THEOREM AllWereTried == Spec => []TriedThemAll
  BY InvHolds, InvImplies, PTL
==============================================================================
