------------------------------ MODULE BytePipe -------------------------------
(***************************************************************************)
(* What a CONNECT tunnel promises the two sides: in each direction the     *)
(* bytes that were sent arrive in their order, none lost, doubled or       *)
(* invented, and never more than Capacity of them are held on the way,     *)
(* until the tunnel is closed.                                             *)
(***************************************************************************)
EXTENDS Naturals, Sequences

CONSTANTS Side, Byte,
          Capacity     \* raw_message::BUFFER_LENGTH

VARIABLES
  sent,    \* what each side has sent
  taken,   \* how much of it left its socket
  got,     \* how much of it the other side received, as bytes
  open

vars == <<sent, taken, got, open>>

Init ==
  /\ sent = [x \in Side |-> <<>>] /\ got = [x \in Side |-> <<>>]
  /\ taken = [x \in Side |-> 0]
  /\ open = TRUE

Send(x) ==
  /\ \E b \in Byte : sent' = [sent EXCEPT ![x] = Append(@, b)]
  /\ UNCHANGED <<taken, got, open>>

\* Bytes go on in either direction or in both: into the pipe or out of it.
Move ==
  /\ open
  /\ taken' \in [Side -> Nat] /\ got' \in [Side -> Seq(Byte)]
  /\ \A x \in Side :
       /\ taken[x] <= taken'[x] /\ taken'[x] <= Len(sent[x])
       /\ taken'[x] - Len(got[x]) <= Capacity
       /\ Len(got[x]) <= Len(got'[x]) /\ Len(got'[x]) <= taken[x]
       /\ \A i \in 1 .. Len(got'[x]) : got'[x][i] = sent[x][i]
  /\ UNCHANGED <<sent, open>>

Close == open /\ open' = FALSE /\ UNCHANGED <<sent, taken, got>>

Next == (\E x \in Side : Send(x)) \/ Move \/ Close

Spec == Init /\ [][Next]_vars
==============================================================================
