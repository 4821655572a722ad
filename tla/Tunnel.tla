------------------------------- MODULE Tunnel --------------------------------
(***************************************************************************)
(* The tunnel of CONNECT: handle_connect() and the handler it registers    *)
(* for both sides (proxy_server.cpp), with the positions of the two        *)
(* raw_messages (buffered_message.cpp).  The handler of a side reads from  *)
(* it into its own message, and writes the message of the other side to    *)
(* it.  Which events epoll waits for is switched on and off by both.       *)
(***************************************************************************)
EXTENDS Naturals, Sequences

CONSTANTS Byte,
          BufferLength,  \* raw_message::BUFFER_LENGTH: 8192
          MaxSent,       \* bound: bytes that each side sends
          None

ASSUME BufferAssumption == BufferLength \in Nat \ {0}

Side     == {"client", "server"}
Other(x) == IF x = "client" THEN "server" ELSE "client"
Bits     == {"IN", "OUT", "RDHUP"}
Position == 0 .. BufferLength - 1

ASSUME SentAssumption == MaxSent \in [Side -> Nat] /\ None \notin Byte

VARIABLES
  sent,       \* what each side has sent
  fin,        \* the sides that have shut down theirs
  taken,      \* how much of what a side sent was read from its socket
  got,        \* how much of it was written to the other side, as bytes
  message,    \* the raw_message of each side
  interest,   \* what epoll waits for
  batch,      \* the events of the last epoll_wait() not handled yet
  open        \* whether the connection is there

vars == <<sent, fin, taken, got, message, interest, batch, open>>

Blank == [read_length |-> 0, write_length |-> 0, buffer |-> [i \in Position |-> None]]

\* What handle_connect() leaves behind.
Init ==
  /\ sent = [x \in Side |-> <<>>] /\ got = [x \in Side |-> <<>>]
  /\ fin = {} /\ taken = [x \in Side |-> 0]
  /\ message = [x \in Side |-> Blank]
  /\ interest = [x \in Side |-> Bits]
  /\ batch = <<>> /\ open = TRUE

-----------------------------------------------------------------------------
(***************************************************************************)
(* raw_message.                                                            *)
(***************************************************************************)
CanRead(m)  == m.read_length < BufferLength
CanWrite(m) == m.write_length < m.read_length

\* Mutant: what is read goes to the beginning of the buffer.
ReadFrom_AtStart(m, s) ==
  [m EXCEPT !.buffer = [i \in Position |-> IF i + 1 \in DOMAIN s THEN s[i + 1] ELSE @[i]],
            !.read_length = @ + Len(s)]

\* Mutant: what is read goes one position too far.
ReadFrom_OneTooFar(m, s) ==
  [m EXCEPT !.buffer = [i \in Position |->
                          IF i > m.read_length /\ i <= m.read_length + Len(s)
                            THEN s[i - m.read_length] ELSE @[i]],
            !.read_length = @ + Len(s)]

\* read_from(): the bytes s are read behind those that are there.
ReadFrom(m, s) ==
  [m EXCEPT !.buffer = [i \in Position |->
                          IF i >= m.read_length /\ i < m.read_length + Len(s)
                            THEN s[i - m.read_length + 1] ELSE @[i]],
            !.read_length = @ + Len(s)]

\* Mutant: a buffer that was written completely is not started again.
WriteTo_NoReset(m, k) == [m EXCEPT !.write_length = @ + k]

\* write_to() writes the next k bytes; the positions start again only when the
\* whole buffer was filled and written.
WriteTo(m, k) ==
  IF m.write_length + k = BufferLength
    THEN [m EXCEPT !.read_length = 0, !.write_length = 0]
    ELSE [m EXCEPT !.write_length = @ + k]

\* Mutant: every write starts with the first byte of the buffer.
Written_AtStart(m, k) == [i \in 1 .. k |-> m.buffer[i - 1]]

\* The bytes it writes.
Written(m, k) == [i \in 1 .. k |-> m.buffer[m.write_length + i - 1]]

-----------------------------------------------------------------------------
(***************************************************************************)
(* The peers and epoll_wait().                                             *)
(***************************************************************************)
Send(x) ==
  /\ x \notin fin /\ Len(sent[x]) < MaxSent[x]
  /\ \E b \in Byte : sent' = [sent EXCEPT ![x] = Append(@, b)]
  /\ UNCHANGED <<fin, taken, got, message, interest, batch, open>>

Shut(x) ==
  /\ x \notin fin /\ fin' = fin \cup {x}
  /\ UNCHANGED <<sent, taken, got, message, interest, batch, open>>

\* What epoll reports of a side, whose socket may or may not take more bytes.
Reported(x, writable) ==
  interest[x] \cap ((IF taken[x] < Len(sent[x]) \/ x \in fin THEN {"IN"} ELSE {})
                    \cup (IF x \in fin THEN {"RDHUP"} ELSE {})
                    \cup (IF writable THEN {"OUT"} ELSE {}))

Event(x) == {[side |-> x, bits |-> bits] :
               bits \in {Reported(x, TRUE), Reported(x, FALSE)} \ {{}}}

EpollWait ==
  /\ open /\ batch = <<>>
  /\ \E x \in Side : \/ \E e \in Event(x) : batch' = <<e>>
                     \/ \E e \in Event(x), o \in Event(Other(x)) : batch' = <<e, o>>
  /\ UNCHANGED <<sent, fin, taken, got, message, interest, open>>

-----------------------------------------------------------------------------
(***************************************************************************)
(* make_connect_transfer_handler().                                        *)
(***************************************************************************)
Handles(x) == open /\ batch # <<>> /\ Head(batch).side = x
Is(bit)    == bit \in Head(batch).bits

Toggled(events, bit) == (events \ {bit}) \cup ({bit} \ events)

Closes == /\ open' = FALSE /\ batch' = <<>>
          /\ UNCHANGED <<sent, fin, taken, got, message, interest>>

Stopped(x) == Handles(x) /\ Is("RDHUP") /\ Closes

Fills(x)  == Is("IN") /\ CanRead(message[x])
Drains(x) == Is("OUT") /\ CanWrite(message[Other(x)])

\* A read or a write that fails closes the connection.  (What the handler still
\* does with it is in ProxyServer, TunnelFails.)
Fails(x) == Handles(x) /\ ~Is("RDHUP") /\ (Fills(x) \/ Drains(x)) /\ Closes

\* How many bytes the read and the write of the handler move: some, if there
\* are any.
Reads(x)  == IF Fills(x)
               THEN {n \in 1 .. BufferLength - message[x].read_length :
                       taken[x] + n <= Len(sent[x])}
               ELSE {0}
Writes(x) == IF Drains(x)
               THEN 1 .. message[Other(x)].read_length - message[Other(x)].write_length
               ELSE {0}

\* Mutant: the other side is not told to wait for OUT.
AfterRead_NoOut(events, x, m) ==
  [events EXCEPT ![x] = IF CanRead(m) THEN @ ELSE Toggled(@, "IN")]

\* The events after a read into the message m of x ...
AfterRead(events, x, m) ==
  [events EXCEPT ![x] = IF CanRead(m) THEN @ ELSE Toggled(@, "IN"),
                 ![Other(x)] = IF CanWrite(m) THEN @ \cup {"OUT"} ELSE @]

\* ... and after writing the message m of the other side to x.
AfterWrite(events, x, m) ==
  [events EXCEPT ![x] = IF CanWrite(m) THEN @ ELSE Toggled(@, "OUT"),
                 ![Other(x)] = IF CanRead(m) THEN @ \cup {"IN"} ELSE @]

Transfers(x) ==
  LET o == Other(x) IN
  /\ Handles(x) /\ ~Is("RDHUP")
  /\ \E n \in Reads(x), k \in Writes(x) :
       LET mine    == ReadFrom(message[x], SubSeq(sent[x], taken[x] + 1, taken[x] + n))
           theirs  == WriteTo(message[o], k)
           filled  == IF n = 0 THEN interest ELSE AfterRead(interest, x, mine)
       IN  /\ taken' = [taken EXCEPT ![x] = @ + n]
           /\ got' = [got EXCEPT ![o] = @ \o Written(message[o], k)]
           /\ message' = [message EXCEPT ![x] = mine,
                                         ![o] = IF k = 0 THEN @ ELSE theirs]
           /\ interest' = IF k = 0 THEN filled ELSE AfterWrite(filled, x, theirs)
  /\ batch' = Tail(batch)
  /\ UNCHANGED <<sent, fin, open>>

Dispatch == \E x \in Side : Stopped(x) \/ Fails(x) \/ Transfers(x)

Next == EpollWait \/ Dispatch \/ \E x \in Side : Send(x) \/ Shut(x)

Spec == Init /\ [][Next]_vars

Reports(x, bit) == EpollWait /\ \E i \in DOMAIN batch' :
                                  batch'[i].side = x /\ bit \in batch'[i].bits

\* Handlers return; epoll_wait() passes over no side for ever, and each side
\* goes on taking what is sent to it.  Nobody has to send or to shut down.
FairSpec ==
  /\ Spec /\ WF_vars(Dispatch)
  /\ \A x \in Side : SF_vars(Reports(x, "IN")) /\ SF_vars(Reports(x, "OUT"))

-----------------------------------------------------------------------------
Message == [read_length : 0 .. BufferLength, write_length : 0 .. BufferLength,
            buffer : [Position -> Byte \cup {None}]]

\* The variables hold what their declarations say.
TypeOK ==
  /\ sent \in [Side -> Seq(Byte)] /\ got \in [Side -> Seq(Byte)]
  /\ fin \subseteq Side /\ taken \in [Side -> Nat]
  /\ message \in [Side -> Message]
  /\ interest \in [Side -> SUBSET Bits]
  /\ batch \in Seq([side : Side, bits : SUBSET Bits]) /\ open \in BOOLEAN

\* Of the stream s a side sent, t bytes were read, g has reached the other side
\* and the rest lies between the positions of m.
Holds(m, s, t, g) ==
  /\ m.write_length <= m.read_length /\ m.write_length < BufferLength
  /\ t <= Len(s)
  /\ t = Len(g) + (m.read_length - m.write_length)
  /\ \A i \in 1 .. Len(g) : g[i] = s[i]
  /\ \A i \in m.write_length .. m.read_length - 1 :
       m.buffer[i] = s[Len(g) + 1 + (i - m.write_length)]

\* Between the positions of a raw_message lie exactly the bytes that were read
\* and are not written yet, whatever the buffer held before.
BufferExact == \A x \in Side : Holds(message[x], sent[x], taken[x], got[x])

\* The events that are switched on and off by exclusive or never get out of
\* step: a side is read from unless its buffer is full, and the other side waits
\* for OUT while there is something for it.  An event of the batch that was
\* reported before the other handler ran is no exception.
EventsFollowBuffers ==
  \A x \in Side :
    /\ "IN" \in interest[x] <=> CanRead(message[x])
    /\ CanWrite(message[x]) => "OUT" \in interest[Other(x)]
    /\ "RDHUP" \in interest[x]

\* The events still to be handled were waited for and still are.
BatchCurrent ==
  /\ \A i \in DOMAIN batch : batch[i].bits \subseteq interest[batch[i].side]
  /\ \A i, j \in DOMAIN batch : batch[i].side = batch[j].side => i = j

Inv == TypeOK /\ BufferExact /\ EventsFollowBuffers /\ BatchCurrent

Pipe == INSTANCE BytePipe WITH Capacity <- BufferLength

\* The two messages with their positions and events are a pipe of bytes.
ImplementsPipe == Pipe!Spec

\* Every byte a side sends reaches the other one, unless the tunnel is closed:
\* no byte is left in a buffer with nobody waiting to write it.
EveryByteArrives ==
  \A x \in Side : \A n \in 1 .. MaxSent[x] :
    Len(sent[x]) >= n ~> Len(got[x]) >= n \/ ~open
==============================================================================
