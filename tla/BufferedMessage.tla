--------------------------- MODULE BufferedMessage ---------------------------
(***************************************************************************)
(* One buffered_message (buffered_message.h): how it is read from a socket *)
(* in pieces, recognises its end by the header's framing, keeps what it    *)
(* read as parts and writes them.  A response is written to the client     *)
(* while it is read (fast_transfer) and the rest of it by send(); a        *)
(* request is read first.  What is kept may be sent again from the cache.  *)
(*                                                                         *)
(* A message is a sequence of tokens: "n" stands for "\r\n", "0" for the   *)
(* digit, "p" for a line Proxy-Connection and "x" for anything else.       *)
(***************************************************************************)
EXTENDS Naturals, Sequences, SequencesExt

CONSTANTS
  Source,        \* what may come: [header, body, extra, framing, length]
  BufferLength,  \* buffered_message::BUFFER_LENGTH: 8192
  INF,           \* buffered_message::INF: 2^32
  SizeMod        \* how many values a size_t has: 2^64

Token   == {"n", "0", "p", "c", "x"}
Blank   == <<"n", "n">>
Chunk0  == <<"0", "n", "n">>

\* extra is what follows the message: the next one of a peer that pipelines.  A
\* header ends where its first blank line does.  length is the value of
\* Content-Length, 0 without one and its absolute value if it is negative: an int,
\* and INF is none.
ASSUME SourceAssumption ==
  /\ \A s \in Source :
       /\ s.header \in Seq(Token) /\ s.body \in Seq(Token) /\ s.extra \in Seq(Token)
       /\ s.framing \in {"length", "negative", "chunked", "none", "huge"}
       /\ IsSuffix(Blank, s.header)
       /\ \A i \in 2 .. Len(s.header) - 1 : SubSeq(s.header, i - 1, i) # Blank
       /\ s.framing = "length" => s.length = Len(s.body) /\ s.length < INF
       /\ s.framing = "negative" => s.length \in 1 .. INF - 1
  /\ BufferLength \in Nat \ {0} /\ INF \in Nat \ {0}
  /\ SizeMod \in Nat /\ SizeMod > 2 * INF

VARIABLES
  source,    \* what comes in
  relaying,  \* whether the message is written while it is read
  pos,       \* how much of it was read from the socket
  m,         \* the buffered_message
  out,       \* what was written
  wanted,    \* whether epoll waits for OUT at the receiver
  phase,     \* "reading", "sending", "sent", "closed", "died"
  use,       \* what is being sent: "message", "copy" or "request"
  saved      \* the copy in the cache

vars == <<source, relaying, pos, m, out, wanted, phase, use, saved>>

-----------------------------------------------------------------------------
(***************************************************************************)
(* The operations of buffered_message.  Its parts are counted from 1.      *)
(***************************************************************************)
Stream(s) == s.header \o s.body \o s.extra

Flat(parts) == FlattenSeq(parts)

\* to_string() of a parsed header: Proxy-Connection becomes Connection.
Rewritten(header) == [i \in DOMAIN header |-> IF header[i] = "p" THEN "c" ELSE header[i]]

Empty == [header_length |-> 0, body_length |-> INF, read |-> 0, buffer |-> <<>>,
          write_length |-> 0, cur_part |-> 1, cache |-> <<>>]

FromCache(parts) ==
  LET n == Len(Flat(parts)) IN
  [Empty EXCEPT !.body_length = n, !.read = n, !.cache = parts]

FromHeader(header, body) ==
  [Empty EXCEPT !.header_length = Len(header), !.body_length = Len(body),
                !.read = Len(body), !.cache = <<header \o body>>]

HeaderRead(msg) == msg.header_length # 0
IsRead(msg)     == msg.read >= msg.body_length

\* What is left of the part that is written.
Left(msg) == IF msg.cur_part <= Len(msg.cache)
               THEN Len(msg.cache[msg.cur_part]) - msg.write_length ELSE 0

CanWrite(msg)  == msg.cur_part # Len(msg.cache) + 1 /\ Left(msg) > 0
IsWritten(msg) == IsRead(msg) /\ msg.cur_part = Len(msg.cache) + 1

\* Mutant: a whole buffer is read whatever the length of the body.
ShouldRead_Buffer(msg) == BufferLength - Len(msg.buffer)

ShouldRead(msg) ==
  IF IsRead(msg) THEN 0
  ELSE IF msg.body_length - msg.read > BufferLength - Len(msg.buffer)
         THEN BufferLength - Len(msg.buffer) ELSE msg.body_length - msg.read

\* Where the header ends in what is buffered, 0 if it does not yet.
EndOfHeader(message) ==
  LET ends == {i \in 2 .. Len(message) : SubSeq(message, i - 1, i) = Blank}
  IN  IF ends = {} THEN 0 ELSE CHOOSE i \in ends : \A j \in ends : i <= j

\* body_length is a size_t: what is below 0 becomes a huge length.
BodyLength(s) == CASE s.framing = "length"   -> s.length
                   [] s.framing = "negative" -> SizeMod - s.length
                   [] s.framing = "chunked"  -> INF
                   [] OTHER                  -> 0

\* The end of a chunked body is looked for in the part that was just read.
AtChunkEnd(msg, message) ==
  IF msg.body_length = INF /\ IsSuffix(Chunk0, message)
    THEN [msg EXCEPT !.body_length = msg.read] ELSE msg

\* Mutant: the body that came with the header is a part of its own, if empty too.
ReadHeader_BodyApart(msg, message, end, s) ==
  LET body == SubSeq(message, end + 1, Len(message)) IN
  AtChunkEnd([msg EXCEPT !.header_length = end, !.body_length = BodyLength(s),
                         !.read = Len(body), !.buffer = <<>>,
                         !.cache = @ \o <<Rewritten(SubSeq(message, 1, end)), body>>], body)

\* The header is parsed and written anew, and what was read behind it counts as
\* body: both are the first part.
ReadHeader(msg, message, end, s) ==
  LET part == Rewritten(SubSeq(message, 1, end)) \o SubSeq(message, end + 1, Len(message)) IN
  AtChunkEnd([msg EXCEPT !.header_length = end, !.body_length = BodyLength(s),
                         !.read = Len(message) - end,
                         !.cache = Append(@, part), !.buffer = <<>>], part)

\* read_from(): the tokens are read behind those that are buffered.
ReadFrom(msg, tokens, s) ==
  LET message == msg.buffer \o tokens
      end     == EndOfHeader(message)
  IN  IF HeaderRead(msg)
        THEN AtChunkEnd([msg EXCEPT !.read = @ + Len(tokens), !.cache = Append(@, message),
                                    !.buffer = <<>>], message)
      ELSE IF end # 0 THEN ReadHeader(msg, message, end, s)
      ELSE AtChunkEnd([msg EXCEPT !.buffer = message], message)

\* std::stoi of a Content-Length that is no int, or of a status code that is no
\* number: the exception is caught by nobody.
Throws(msg, tokens, s) ==
  /\ ~HeaderRead(msg) /\ EndOfHeader(msg.buffer \o tokens) # 0
  /\ s.framing = "huge"

Written(msg, k) == SubSeq(msg.cache[msg.cur_part], msg.write_length + 1, msg.write_length + k)

\* Mutant: the position in the last part is kept for the next one.
WriteTo_NoReset(msg, k) ==
  IF k = Left(msg) THEN [msg EXCEPT !.cur_part = @ + 1] ELSE [msg EXCEPT !.write_length = @ + k]

\* write_to() of k tokens.
WriteTo(msg, k) ==
  IF k = Left(msg) THEN [msg EXCEPT !.write_length = 0, !.cur_part = @ + 1]
                   ELSE [msg EXCEPT !.write_length = @ + k]

-----------------------------------------------------------------------------
Init ==
  /\ source \in Source /\ relaying \in BOOLEAN
  /\ pos = 0 /\ m = Empty /\ out = <<>> /\ wanted = FALSE
  /\ phase = "reading" /\ use = "message" /\ saved = <<>>

\* Mutant: only the first part wakes the client.
Wakes_First(msg) == wanted \/ (relaying /\ CanWrite(msg) /\ Len(msg.cache) = 1)

\* Whether epoll waits for OUT at the client after a read of the server.
Wakes(msg)       == wanted \/ (relaying /\ CanWrite(msg))

\* The IN handler of read() and of the server in fast_transfer(): n tokens have
\* come, or more.  A message that is read goes on to send(); a response may be
\* saved.
Reads ==
  /\ phase = "reading"
  /\ \E n \in 1 .. ShouldRead(m) :
       LET tokens == SubSeq(Stream(source), pos + 1, pos + n)
           next   == ReadFrom(m, tokens, source)
       IN  /\ pos + n <= Len(Stream(source)) /\ ~Throws(m, tokens, source)
           /\ pos' = pos + n /\ m' = next
           /\ IF IsRead(next)
                THEN /\ phase' = "sending" /\ wanted' = TRUE
                     /\ saved' \in {<<>>} \cup (IF relaying THEN {next.cache} ELSE {})
                ELSE /\ wanted' = Wakes(next) /\ UNCHANGED <<phase, saved>>
  /\ UNCHANGED <<source, relaying, out, use>>

\* A full buffer without the end of a header: ::read() of 0 bytes returns at once.
ReadsNothing ==
  /\ phase = "reading" /\ ShouldRead(m) = 0 /\ pos < Len(Stream(source))
  /\ m' = ReadFrom(m, <<>>, source)
  /\ UNCHANGED <<source, relaying, pos, out, wanted, phase, use, saved>>

ReadThrows ==
  /\ phase = "reading"
  /\ \E n \in 1 .. ShouldRead(m) : /\ pos + n <= Len(Stream(source))
                                   /\ Throws(m, SubSeq(Stream(source), pos + 1, pos + n), source)
  /\ phase' = "died"
  /\ UNCHANGED <<source, relaying, pos, m, out, wanted, use, saved>>

\* The OUT handler of the client in fast_transfer().
Relays ==
  /\ phase = "reading" /\ relaying /\ wanted /\ CanWrite(m)
  /\ \E k \in 1 .. Left(m) : /\ out' = out \o Written(m, k)
                             /\ m' = WriteTo(m, k)
  /\ wanted' = CanWrite(m')
  /\ UNCHANGED <<source, relaying, pos, phase, use, saved>>

\* Mutant: the parts are counted one too far.
Sent_Beyond(msg) == IsRead(msg) /\ msg.cur_part > Len(msg.cache) + 1

Sent(msg) == IsWritten(msg)

\* The OUT handler of send().  It does not ask can_write() as fast_transfer() does.
Sends ==
  /\ phase = "sending" /\ wanted
  /\ \E k \in 1 .. Left(m) : /\ out' = out \o Written(m, k)
                             /\ m' = WriteTo(m, k)
  /\ IF Sent(m') THEN phase' = "sent" /\ wanted' = FALSE ELSE UNCHANGED <<phase, wanted>>
  /\ UNCHANGED <<source, relaying, pos, use, saved>>

\* A read or a write fails, or a peer is gone: the connection is closed.
Closes ==
  /\ phase \in {"reading", "sending"} /\ phase' = "closed"
  /\ UNCHANGED <<source, relaying, pos, m, out, wanted, use, saved>>

\* The next request for the URL: a validation request is made and sent ...
SendsRequest ==
  /\ phase = "sent" /\ use = "message" /\ saved # <<>>
  /\ m' = FromHeader(Rewritten(source.header), <<>>)
  /\ out' = <<>> /\ wanted' = TRUE /\ phase' = "sending" /\ use' = "request"
  /\ UNCHANGED <<source, relaying, pos, saved>>

\* ... and if the server agrees the copy is sent.
SendsCopy ==
  /\ phase = "sent" /\ use = "request"
  /\ m' = FromCache(saved)
  /\ out' = <<>> /\ wanted' = TRUE /\ phase' = "sending" /\ use' = "copy"
  /\ UNCHANGED <<source, relaying, pos, saved>>

Next == Reads \/ ReadsNothing \/ ReadThrows \/ Relays \/ Sends \/ Closes
          \/ SendsRequest \/ SendsCopy

Spec == Init /\ [][Next]_vars

\* Handlers of a socket that can be written run, and a peer that has begun a
\* message sends all of it.
FairSpec == Spec /\ WF_vars(Reads) /\ WF_vars(Relays) /\ WF_vars(Sends)

-----------------------------------------------------------------------------
\* The variables hold what their declarations say.
TypeOK ==
  /\ source \in Source /\ relaying \in BOOLEAN /\ wanted \in BOOLEAN
  /\ pos \in 0 .. Len(Stream(source))
  /\ m.read \in Nat /\ m.body_length \in Nat /\ m.write_length \in Nat
  /\ Len(m.buffer) <= BufferLength
  /\ \A i \in DOMAIN m.cache : m.cache[i] \in Seq(Token) /\ m.cache[i] # <<>>
  /\ m.cur_part \in 1 .. Len(m.cache) + 1
  /\ phase \in {"reading", "sending", "sent", "closed", "died"}
  /\ use \in {"message", "copy", "request"}

\* What is to be written in all.
Whole == CASE use = "request" -> Rewritten(source.header)
           [] use = "copy"    -> Flat(saved)
           [] OTHER -> IF HeaderRead(m)
                         THEN Rewritten(source.header)
                                \o SubSeq(Stream(source), Len(source.header) + 1, pos)
                         ELSE <<>>

\* The parts hold what was read, the header rewritten, and what was written is
\* the beginning of that: nothing is lost, doubled or reordered where one part
\* ends and the next begins, or where send() goes on after fast_transfer().
WrittenInOrder ==
  /\ Flat(m.cache) = Whole
  /\ IsPrefix(out, Whole)
  /\ Len(out) = Len(Flat(SubSeq(m.cache, 1, m.cur_part - 1))) + m.write_length
  /\ phase = "sent" => out = Whole

Length(s) == Len(s.header) + Len(s.body)

\* With Content-Length, a message is read exactly when all of it was, and what
\* comes after it is read only together with the header.
LengthExact ==
  source.framing = "length" /\ use = "message" =>
    /\ IsRead(m) <=> pos >= Length(source)
    /\ pos > Length(source) => Len(m.cache) = 1

\* What is read while relaying is written although the rest is still to come: the
\* client waits for OUT as soon as there is a part, and XOR never switches the
\* event off for one that is left.
RelayedInTime ==
  \A n \in 1 .. 9 : relaying /\ HeaderRead(m) /\ use = "message" /\ pos >= n
                      ~> Len(out) >= n \/ use # "message" \/ phase = "closed"

\* A message that was read, a validation request and a copy are sent to their end:
\* send() goes on where fast_transfer() stopped, and stops behind the last part.
EverythingSent == phase = "sending" ~> phase \in {"sent", "closed"}
==============================================================================
