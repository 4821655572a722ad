---------------------------- MODULE TunnelProofs -----------------------------
(***************************************************************************)
(* The tunnel of CONNECT is a pipe of bytes in both directions for every   *)
(* BufferLength and every set of bytes.                                    *)
(***************************************************************************)
EXTENDS Tunnel, SequenceTheorems, TLAPS

\* A handler that has nothing to read leaves the message alone.
LEMMA ReadFromNothing ==
  ASSUME NEW m \in Message
  PROVE  ReadFrom(m, <<>>) = m
<1> DEFINE b == [i \in Position |-> IF i >= m.read_length /\ i < m.read_length + 0
                                      THEN <<>>[i - m.read_length + 1] ELSE m.buffer[i]]
<1>1. m.read_length \in Nat /\ m.read_length + 0 = m.read_length /\ Len(<<>>) = 0
  BY BufferAssumption DEF Message
<1>2. \A i \in Position : ~(i >= m.read_length /\ i < m.read_length + 0)
  BY <1>1, BufferAssumption DEF Position
<1>3. b = m.buffer
  BY <1>2 DEF Message
<1>4. ReadFrom(m, <<>>) = [m EXCEPT !.buffer = b, !.read_length = m.read_length + 0]
  BY <1>1 DEF ReadFrom
<1> HIDE DEF b
<1> QED
  BY <1>1, <1>3, <1>4 DEF Message

\* What was read is appended to what the message holds.
LEMMA ReadFromHolds ==
  ASSUME NEW m \in Message, NEW s \in Seq(Byte), NEW g \in Seq(Byte), NEW t \in Nat,
         Holds(m, s, t, g),
         NEW n \in 1 .. BufferLength - m.read_length, t + n <= Len(s)
  PROVE  LET r == ReadFrom(m, SubSeq(s, t + 1, t + n)) IN
         /\ r \in Message /\ Holds(r, s, t + n, g)
         /\ r.write_length = m.write_length /\ r.read_length = m.read_length + n
<1> DEFINE rl == m.read_length
           wl == m.write_length
           gl == Len(g)
           q == SubSeq(s, t + 1, t + n)
           b == [i \in Position |-> IF i >= rl /\ i < rl + n
                                      THEN q[i - rl + 1] ELSE m.buffer[i]]
           r == [m EXCEPT !.buffer = b, !.read_length = rl + n]
<1>0. /\ BufferLength \in Nat /\ m.buffer \in [Position -> Byte \cup {None}]
      /\ rl \in Nat /\ wl \in Nat /\ gl \in Nat /\ Len(s) \in Nat
      /\ n \in Nat /\ n > 0 /\ rl + n <= BufferLength
      /\ wl <= rl /\ wl < BufferLength /\ t = gl + (rl - wl)
  BY BufferAssumption DEF Message, Holds
<1>1. /\ \A i \in 1 .. gl : g[i] = s[i]
      /\ \A i \in wl .. rl - 1 : m.buffer[i] = s[gl + 1 + (i - wl)]
  BY DEF Holds
<1>2. /\ q \in Seq(Byte) /\ Len(q) = n
      /\ \A i \in 1 .. n : q[i] = s[t + i]
  <2>1. \A i \in t + 1 .. t + n : s[i] \in Byte
    <3>1. \A i \in t + 1 .. t + n : i \in 1 .. Len(s)
      BY <1>0
    <3> QED
      BY <3>1, ElementOfSeq
  <2>2. /\ q \in Seq(Byte) /\ Len(q) = IF t + 1 <= t + n THEN t + n - (t + 1) + 1 ELSE 0
        /\ \A i \in 1 .. t + n - (t + 1) + 1 : q[i] = s[t + 1 + i - 1]
    BY <2>1, SubSeqProperties, t + 1 \in Int, t + n \in Int
  <2>3. t + 1 <= t + n /\ t + n - (t + 1) + 1 = n
    BY <1>0
  <2>4. \A i \in 1 .. n : t + 1 + i - 1 = t + i
    BY <1>0
  <2> HIDE DEF q
  <2>5. q \in Seq(Byte) /\ Len(q) = n
    BY <2>2, <2>3
  <2>6. ASSUME NEW i \in 1 .. n PROVE q[i] = s[t + i]
    BY <2>2, <2>3, <2>4
  <2> QED
    BY <2>5, <2>6
<1> HIDE DEF q
<1>3. ReadFrom(m, q) = r
  BY <1>2 DEF ReadFrom, Message
<1> HIDE DEF rl, wl, gl
<1>4. b \in [Position -> Byte \cup {None}]
  <2>1. ASSUME NEW i \in Position PROVE b[i] \in Byte \cup {None}
    <3>1. CASE i >= rl /\ i < rl + n
      <4>1. i - rl + 1 \in 1 .. n
        BY <1>0, <3>1 DEF Position
      <4> QED
        BY <1>2, <3>1, <4>1, ElementOfSeq
    <3> QED
      BY <1>0, <3>1
  <2> QED
    BY <2>1
<1>5. ASSUME NEW i \in wl .. rl + n - 1
      PROVE  b[i] = s[gl + 1 + (i - wl)]
  <2>1. i \in Position
    BY <1>0 DEF Position
  <2>2. CASE i >= rl
    <3>1. /\ i - rl + 1 \in 1 .. n
          /\ t + (i - rl + 1) = gl + 1 + (i - wl)
      BY <1>0, <2>2
    <3>2. b[i] = q[i - rl + 1]
      BY <1>0, <2>1, <2>2
    <3> QED
      BY <1>2, <3>1, <3>2
  <2>3. CASE i < rl
    <3>1. i \in wl .. rl - 1 /\ b[i] = m.buffer[i]
      BY <1>0, <2>1, <2>3
    <3> QED
      BY <1>1, <3>1
  <2> QED
    BY <1>0, <2>2, <2>3
<1> HIDE DEF b
<1>6. /\ r \in Message /\ r.buffer = b /\ r.read_length = rl + n
      /\ r.write_length = wl
  <2>1. rl + n \in 0 .. BufferLength
    BY <1>0
  <2> QED
    BY <1>4, <2>1 DEF Message, wl
<1>7. Holds(r, s, t + n, g)
  <2>1. t + n = gl + (rl + n - wl) /\ wl <= rl + n
    BY <1>0
  <2> HIDE DEF r
  <2> QED
    BY <1>0, <1>1, <1>5, <1>6, <2>1 DEF Holds, gl
<1> QED
  BY <1>3, <1>6, <1>7 DEF q, rl, wl

\* What is written are the next bytes of the stream, and it leaves the message.
LEMMA WriteToHolds ==
  ASSUME NEW m \in Message, NEW s \in Seq(Byte), NEW g \in Seq(Byte), NEW t \in Nat,
         Holds(m, s, t, g),
         NEW k \in 1 .. m.read_length - m.write_length
  PROVE  LET w == WriteTo(m, k)
             h == g \o Written(m, k)
         IN  /\ w \in Message /\ h \in Seq(Byte) /\ Len(h) = Len(g) + k
             /\ Holds(w, s, t, h)
<1> DEFINE rl == m.read_length
           wl == m.write_length
           gl == Len(g)
           w == WriteTo(m, k)
           z == Written(m, k)
           h == g \o z
<1>0. /\ BufferLength \in Nat /\ BufferLength > 0
      /\ rl \in 0 .. BufferLength /\ wl \in Nat /\ gl \in Nat /\ Len(s) \in Nat
      /\ wl <= rl /\ wl < BufferLength /\ t = gl + (rl - wl) /\ t <= Len(s)
      /\ k \in Nat /\ k > 0 /\ wl + k <= rl
  BY BufferAssumption DEF Message, Holds
<1>1. /\ \A i \in 1 .. gl : g[i] = s[i]
      /\ \A i \in wl .. rl - 1 : m.buffer[i] = s[gl + 1 + (i - wl)]
  BY DEF Holds
<1>2. z = [i \in 1 .. k |-> m.buffer[wl + i - 1]]
  BY DEF Written
<1>3. /\ w \in Message
      /\ w.buffer = m.buffer
      /\ \/ wl + k = BufferLength /\ w.read_length = 0 /\ w.write_length = 0
         \/ wl + k # BufferLength /\ w.read_length = rl /\ w.write_length = wl + k
  <2>1. wl + k \in 0 .. BufferLength /\ 0 \in 0 .. BufferLength
    BY <1>0
  <2>2. CASE wl + k = BufferLength
    BY <2>1, <2>2 DEF Message, WriteTo
  <2>3. CASE wl + k # BufferLength
    BY <2>1, <2>3 DEF Message, WriteTo
  <2> QED
    BY <2>2, <2>3
<1> HIDE DEF rl, wl, gl, w, z
<1>4. \A i \in 1 .. k : z[i] = s[gl + i]
  <2>1. ASSUME NEW i \in 1 .. k PROVE z[i] = s[gl + i]
    <3> DEFINE j == wl + i - 1
    <3>1. j \in wl .. rl - 1 /\ gl + 1 + (j - wl) = gl + i
      BY <1>0
    <3>2. z[i] = m.buffer[j]
      BY <1>2
    <3> QED
      BY <1>1, <3>1, <3>2
  <2> QED
    BY <2>1
<1>5. z \in Seq(Byte) /\ Len(z) = k
  <2>1. \A i \in 1 .. k : gl + i \in 1 .. Len(s)
    BY <1>0
  <2>2. \A i \in 1 .. k : z[i] \in Byte
    BY <1>4, <2>1, ElementOfSeq
  <2>3. z \in [1 .. k -> Byte]
    BY <1>2, <2>2
  <2> QED
    BY <1>0, <2>3
<1>6. /\ h \in Seq(Byte) /\ Len(h) = gl + k
      /\ \A i \in 1 .. gl + k : h[i] = IF i <= gl THEN g[i] ELSE z[i - gl]
  BY <1>5, ConcatProperties DEF gl
<1> HIDE DEF h
<1>7. \A i \in 1 .. gl + k : h[i] = s[i]
  <2>1. ASSUME NEW i \in 1 .. gl + k PROVE h[i] = s[i]
    <3>1. CASE i <= gl
      BY <1>0, <1>1, <1>6, <3>1
    <3>2. CASE i > gl
      <4>1. i - gl \in 1 .. k /\ gl + (i - gl) = i
        BY <1>0, <3>2
      <4>2. h[i] = z[i - gl]
        BY <1>0, <1>6, <3>2
      <4> QED
        BY <1>4, <4>1, <4>2
    <3> QED
      BY <1>0, <3>1, <3>2
  <2> QED
    BY <2>1
<1>8. Holds(w, s, t, h)
  <2>1. CASE wl + k = BufferLength
    <3>1. /\ w.read_length = 0 /\ w.write_length = 0
          /\ t = Len(h) + (0 - 0) /\ 0 .. 0 - 1 = {}
      BY <1>0, <1>3, <1>6, <2>1
    <3>2. /\ w.write_length <= w.read_length /\ w.write_length < BufferLength
          /\ t = Len(h) + (w.read_length - w.write_length)
          /\ w.write_length .. w.read_length - 1 = {}
      BY <1>0, <3>1, BufferAssumption
    <3>3. \A i \in 1 .. Len(h) : h[i] = s[i]
      BY <1>6, <1>7
    <3>4. t <= Len(s)
      BY <1>0
    <3> QED
      BY <3>2, <3>3, <3>4 DEF Holds
  <2>2. CASE wl + k # BufferLength
    <3>1. w.read_length = rl /\ w.write_length = wl + k /\ w.buffer = m.buffer
      BY <1>3, <2>2
    <3>2. /\ wl + k < BufferLength /\ t = Len(h) + (rl - (wl + k))
      BY <1>0, <1>6, <2>2
    <3>3. ASSUME NEW i \in wl + k .. rl - 1
          PROVE  m.buffer[i] = s[Len(h) + 1 + (i - (wl + k))]
      <4>1. i \in wl .. rl - 1 /\ Len(h) + 1 + (i - (wl + k)) = gl + 1 + (i - wl)
        BY <1>0, <1>6
      <4> QED
        BY <1>1, <4>1
    <3> QED
      BY <1>0, <1>6, <1>7, <3>1, <3>2, <3>3 DEF Holds
  <2> QED
    BY <2>1, <2>2
<1> QED
  BY <1>3, <1>6, <1>8 DEF h, z, w, gl

\* More bytes behind those that were read change nothing in the message.
LEMMA SendHolds ==
  ASSUME NEW m \in Message, NEW s \in Seq(Byte), NEW g \in Seq(Byte), NEW t \in Nat,
         Holds(m, s, t, g), NEW b \in Byte
  PROVE  Holds(m, Append(s, b), t, g)
<1> DEFINE z == Append(s, b)
<1>0. /\ m.read_length \in Nat /\ m.write_length \in Nat
      /\ Len(s) \in Nat /\ Len(g) \in Nat
  BY BufferAssumption DEF Message
<1>1. /\ m.write_length <= m.read_length /\ m.write_length < BufferLength
      /\ t <= Len(s) /\ t = Len(g) + (m.read_length - m.write_length)
      /\ \A i \in 1 .. Len(g) : g[i] = s[i]
      /\ \A i \in m.write_length .. m.read_length - 1 :
           m.buffer[i] = s[Len(g) + 1 + (i - m.write_length)]
  BY DEF Holds
<1>2. Len(z) = Len(s) + 1 /\ \A i \in 1 .. Len(s) : z[i] = s[i]
  BY AppendProperties
<1> HIDE DEF z
<1>3. t <= Len(z)
  BY <1>0, <1>1, <1>2
<1>4. ASSUME NEW i \in 1 .. Len(g) PROVE g[i] = z[i]
  <2>1. i \in 1 .. Len(s)
    BY <1>0, <1>1
  <2> QED
    BY <1>1, <1>2, <2>1
<1>5. ASSUME NEW i \in m.write_length .. m.read_length - 1
      PROVE  m.buffer[i] = z[Len(g) + 1 + (i - m.write_length)]
  <2>1. Len(g) + 1 + (i - m.write_length) \in 1 .. Len(s)
    BY <1>0, <1>1
  <2> QED
    BY <1>1, <1>2, <2>1
<1> QED
  <2>1. Holds(m, z, t, g)
    BY <1>1, <1>3, <1>4, <1>5 DEF Holds
  <2> QED
    BY <2>1 DEF z

-----------------------------------------------------------------------------
\* What the handler of x makes of the two messages: n bytes of x more are read,
\* and k bytes of the other side are written to x.
LEMMA HandlerMoves ==
  ASSUME Inv, NEW x \in Side, NEW n \in Reads(x), NEW k \in Writes(x)
  PROVE  LET o      == Other(x)
             mine   == ReadFrom(message[x], SubSeq(sent[x], taken[x] + 1, taken[x] + n))
             theirs == IF k = 0 THEN message[o] ELSE WriteTo(message[o], k)
             h      == got[o] \o Written(message[o], k)
         IN  /\ n \in Nat /\ taken[x] + n <= Len(sent[x])
             /\ mine \in Message /\ Holds(mine, sent[x], taken[x] + n, got[x])
             /\ mine.write_length = message[x].write_length
             /\ mine.read_length = message[x].read_length + n
             /\ theirs \in Message /\ h \in Seq(Byte)
             /\ Holds(theirs, sent[o], taken[o], h)
             /\ Len(got[o]) <= Len(h)
<1> DEFINE o      == Other(x)
           mine   == ReadFrom(message[x], SubSeq(sent[x], taken[x] + 1, taken[x] + n))
           theirs == IF k = 0 THEN message[o] ELSE WriteTo(message[o], k)
           h      == got[o] \o Written(message[o], k)
<1>0. /\ o \in Side
      /\ \A y \in Side : /\ sent[y] \in Seq(Byte) /\ got[y] \in Seq(Byte)
                         /\ taken[y] \in Nat /\ message[y] \in Message
                         /\ Holds(message[y], sent[y], taken[y], got[y])
  BY DEF Inv, TypeOK, BufferExact, Side, Other
<1>1. /\ n \in Nat /\ taken[x] + n <= Len(sent[x])
      /\ mine \in Message /\ Holds(mine, sent[x], taken[x] + n, got[x])
      /\ mine.write_length = message[x].write_length
      /\ mine.read_length = message[x].read_length + n
  <2>1. CASE Fills(x)
    <3>1. n \in 1 .. BufferLength - message[x].read_length /\ taken[x] + n <= Len(sent[x])
      BY <2>1 DEF Reads
    <3>2. /\ message[x] \in Message /\ sent[x] \in Seq(Byte) /\ got[x] \in Seq(Byte)
          /\ taken[x] \in Nat /\ Holds(message[x], sent[x], taken[x], got[x])
      BY <1>0
    <3>3. n \in Nat
      BY <1>0, <3>1, BufferAssumption DEF Message
    <3> QED
      BY <3>1, <3>2, <3>3, ReadFromHolds
  <2>2. CASE ~Fills(x)
    <3>1. n = 0
      BY <2>2 DEF Reads
    <3> DEFINE m == message[x]
               q == SubSeq(sent[x], taken[x] + 1, taken[x] + n)
    <3>2. q = <<>>
      <4>1. taken[x] + n < taken[x] + 1 /\ taken[x] + n \in Int /\ taken[x] + 1 \in Int
        BY <1>0, <3>1
      <4> QED
        BY <4>1, SubSeqEmpty
    <3>3. m \in Message /\ Len(<<>>) = 0 /\ m.read_length \in Nat
      BY <1>0, BufferAssumption DEF Message
    <3> HIDE DEF q, m
    <3>5. ReadFrom(m, <<>>) = m
      BY <3>3, ReadFromNothing
    <3>6. mine = m /\ taken[x] + n = taken[x] /\ m.read_length + n = m.read_length
      <4>1. mine = m
        BY <3>2, <3>5 DEF m, q
      <4>2. taken[x] + 0 = taken[x] /\ m.read_length + 0 = m.read_length
        BY <1>0, <3>3
      <4> QED
        BY <3>1, <4>1, <4>2
    <3>7. taken[x] <= Len(sent[x])
      BY <1>0 DEF Holds
    <3> QED
      BY <1>0, <3>1, <3>6, <3>7 DEF m
  <2> QED
    BY <2>1, <2>2
<1>2. /\ theirs \in Message /\ h \in Seq(Byte)
      /\ Holds(theirs, sent[o], taken[o], h)
      /\ Len(got[o]) <= Len(h)
  <2>1. CASE Drains(x)
    <3>1. k \in 1 .. message[o].read_length - message[o].write_length /\ k # 0
      BY <2>1, BufferAssumption DEF Writes
    <3>2. /\ WriteTo(message[o], k) \in Message /\ h \in Seq(Byte)
          /\ Len(h) = Len(got[o]) + k
          /\ Holds(WriteTo(message[o], k), sent[o], taken[o], h)
      <4>1. /\ message[o] \in Message /\ sent[o] \in Seq(Byte) /\ got[o] \in Seq(Byte)
            /\ taken[o] \in Nat /\ Holds(message[o], sent[o], taken[o], got[o])
        BY <1>0
      <4> HIDE DEF o
      <4> QED
        BY <4>1, <3>1, WriteToHolds
    <3>3. Len(got[o]) \in Nat /\ k \in Nat
      BY <1>0, <3>1
    <3> HIDE DEF h, o
    <3> QED
      BY <3>1, <3>2, <3>3
  <2>2. CASE ~Drains(x)
    <3>1. k = 0
      BY <2>2 DEF Writes
    <3>2. Written(message[o], k) = <<>>
      BY <3>1 DEF Written
    <3>3. h = got[o]
      BY <1>0, <3>2, ConcatEmptySeq
    <3>4. Len(got[o]) \in Nat /\ Len(got[o]) <= Len(got[o])
      BY <1>0
    <3>5. theirs = message[o]
      BY <3>1
    <3> HIDE DEF h, theirs, o
    <3> QED
      BY <1>0, <3>3, <3>4, <3>5
  <2> QED
    BY <2>1, <2>2
<1> QED
  BY <1>1, <1>2

\* The events the handler leaves follow the two messages it leaves.
LEMMA HandlerEvents ==
  ASSUME Inv, NEW x \in Side, Handles(x), NEW n \in Reads(x), NEW k \in Writes(x)
  PROVE  LET o      == Other(x)
             mine   == ReadFrom(message[x], SubSeq(sent[x], taken[x] + 1, taken[x] + n))
             theirs == IF k = 0 THEN message[o] ELSE WriteTo(message[o], k)
             filled == IF n = 0 THEN interest ELSE AfterRead(interest, x, mine)
             after  == IF k = 0 THEN filled ELSE AfterWrite(filled, x, theirs)
         IN  /\ after \in [Side -> SUBSET Bits]
             /\ "IN" \in after[x] <=> CanRead(mine)
             /\ "IN" \in after[o] <=> CanRead(theirs)
             /\ CanWrite(mine) => "OUT" \in after[o]
             /\ CanWrite(theirs) => "OUT" \in after[x]
             /\ "RDHUP" \in after[x] /\ "RDHUP" \in after[o]
             /\ interest[o] \subseteq after[o]
<1> DEFINE o      == Other(x)
           mine   == ReadFrom(message[x], SubSeq(sent[x], taken[x] + 1, taken[x] + n))
           theirs == IF k = 0 THEN message[o] ELSE WriteTo(message[o], k)
           filled == IF n = 0 THEN interest ELSE AfterRead(interest, x, mine)
           after  == IF k = 0 THEN filled ELSE AfterWrite(filled, x, theirs)
<1>0. /\ o \in Side /\ o # x /\ x \in Side /\ Other(o) = x /\ Other(x) = o
      /\ interest \in [Side -> SUBSET Bits]
      /\ \A y \in Side : /\ "IN" \in interest[y] <=> CanRead(message[y])
                         /\ CanWrite(message[y]) => "OUT" \in interest[Other(y)]
                         /\ "RDHUP" \in interest[y]
  BY DEF Inv, TypeOK, EventsFollowBuffers, Side, Other
<1>1. /\ n # 0 => CanRead(message[x])
      /\ n = 0 => /\ CanRead(mine) <=> CanRead(message[x])
                  /\ CanWrite(mine) <=> CanWrite(message[x])
  <2>1. n # 0 => CanRead(message[x])
    BY DEF Reads, Fills
  <2>2. /\ mine.write_length = message[x].write_length
        /\ mine.read_length = message[x].read_length + n
    BY HandlerMoves
  <2>3. message[x].read_length \in Nat /\ message[x].read_length + 0 = message[x].read_length
    BY BufferAssumption DEF Inv, TypeOK, Message
  <2> HIDE DEF mine
  <2> QED
    BY <2>1, <2>2, <2>3 DEF CanRead, CanWrite
<1>2. k # 0 => CanWrite(message[o]) /\ "OUT" \in interest[x]
  BY <1>0 DEF Writes, Drains
<1>3. k # 0 => CanRead(theirs) \/ ~CanRead(message[o])
  <2>1. ASSUME k # 0
        PROVE  \/ theirs.read_length = message[o].read_length
               \/ theirs.read_length = 0
    BY <1>0, <2>1 DEF WriteTo, Inv, TypeOK, Message
  <2> QED
    BY <2>1, BufferAssumption DEF CanRead
<1> HIDE DEF mine, theirs, o
<1>4. /\ filled \in [Side -> SUBSET Bits]
      /\ "IN" \in filled[x] <=> CanRead(mine)
      /\ "IN" \in filled[o] <=> CanRead(message[o])
      /\ CanWrite(mine) => "OUT" \in filled[o]
      /\ "OUT" \in interest[x] => "OUT" \in filled[x]
      /\ "RDHUP" \in filled[x] /\ "RDHUP" \in filled[o]
      /\ interest[o] \subseteq filled[o]
  <2>1. CASE n = 0
    <3>1. filled = interest
      BY <2>1
    <3> HIDE DEF filled
    <3> QED
      BY <1>0, <1>1, <2>1, <3>1
  <2>2. CASE n # 0
    <3>1. filled = AfterRead(interest, x, mine)
      BY <2>2
    <3>2. "IN" \in interest[x]
      BY <1>0, <1>1, <2>2
    <3>3. filled = [interest EXCEPT ![x] = IF CanRead(mine) THEN interest[x]
                                                          ELSE Toggled(interest[x], "IN"),
                                    ![o] = IF CanWrite(mine) THEN interest[o] \cup {"OUT"}
                                                           ELSE interest[o]]
      BY <1>0, <3>1 DEF AfterRead, o
    <3>4. /\ filled[x] = IF CanRead(mine) THEN interest[x] ELSE interest[x] \ {"IN"}
          /\ filled[o] = IF CanWrite(mine) THEN interest[o] \cup {"OUT"} ELSE interest[o]
      BY <1>0, <3>2, <3>3 DEF Toggled
    <3> HIDE DEF filled
    <3> QED
      BY <1>0, <3>2, <3>3, <3>4 DEF Bits, Toggled
  <2> QED
    BY <2>1, <2>2
<1> HIDE DEF filled
<1> QED
  <2>1. CASE k = 0
    <3>1. theirs = message[o] /\ after = filled
      BY <2>1 DEF theirs
    <3>2. CanWrite(message[o]) => "OUT" \in interest[x]
      BY <1>0
    <3> QED
      BY <1>4, <3>1, <3>2 DEF mine, theirs, o, filled
  <2>2. CASE k # 0
    <3>1. after = [filled EXCEPT ![x] = IF CanWrite(theirs) THEN filled[x]
                                                         ELSE Toggled(filled[x], "OUT"),
                                 ![o] = IF CanRead(theirs) THEN filled[o] \cup {"IN"}
                                                        ELSE filled[o]]
      BY <1>0, <1>4, <2>2 DEF AfterWrite, o
    <3>2. "OUT" \in filled[x]
      BY <1>2, <1>4, <2>2
    <3>3. /\ after[x] = IF CanWrite(theirs) THEN filled[x] ELSE filled[x] \ {"OUT"}
          /\ after[o] = IF CanRead(theirs) THEN filled[o] \cup {"IN"} ELSE filled[o]
      BY <1>0, <1>4, <3>1, <3>2 DEF Toggled
    <3>4. after \in [Side -> SUBSET Bits]
      BY <1>0, <1>4, <3>1 DEF Bits, Toggled
    <3> HIDE DEF after
    <3>5. /\ "IN" \in after[x] <=> CanRead(mine)
          /\ "IN" \in after[o] <=> CanRead(theirs)
          /\ CanWrite(mine) => "OUT" \in after[o]
          /\ CanWrite(theirs) => "OUT" \in after[x]
          /\ "RDHUP" \in after[x] /\ "RDHUP" \in after[o]
          /\ interest[o] \subseteq after[o]
      BY <1>3, <1>4, <2>2, <3>2, <3>3
    <3> QED
      BY <3>4, <3>5 DEF after, mine, theirs, o, filled
  <2> QED
    BY <2>1, <2>2

-----------------------------------------------------------------------------
\* What handle_connect() leaves behind is in order.
LEMMA InitInv == Init => Inv
<1> SUFFICES ASSUME Init PROVE Inv
  OBVIOUS
<1>1. Blank \in Message /\ Blank.read_length = 0 /\ Blank.write_length = 0
  BY BufferAssumption DEF Blank, Message
<1>2. TypeOK
  BY <1>1 DEF Init, TypeOK, Bits
<1>3. Holds(Blank, <<>>, 0, <<>>)
  <2>1. Len(<<>>) = 0 /\ 0 .. 0 - 1 = {} /\ 1 .. 0 = {} /\ 0 = 0 + (0 - 0)
    OBVIOUS
  <2> QED
    BY <1>1, <2>1, BufferAssumption DEF Holds
<1>4. BufferExact
  BY <1>3 DEF Init, BufferExact
<1>5. EventsFollowBuffers
  BY <1>1, BufferAssumption DEF Init, EventsFollowBuffers, CanRead, CanWrite, Bits, Side, Other
<1>6. BatchCurrent
  BY DEF Init, BatchCurrent
<1> QED
  BY <1>2, <1>4, <1>5, <1>6 DEF Inv

\* The peers touch neither the messages nor what epoll waits for.
LEMMA PeerInv ==
  ASSUME Inv, NEW x \in Side, Send(x) \/ Shut(x)
  PROVE  Inv'
<1>1. CASE Send(x)
  <2>1. PICK b \in Byte : sent' = [sent EXCEPT ![x] = Append(@, b)]
    BY <1>1 DEF Send
  <2>2. /\ sent' \in [Side -> Seq(Byte)]
        /\ UNCHANGED <<fin, taken, got, message, interest, batch, open>>
    BY <1>1, <2>1 DEF Send, Inv, TypeOK
  <2>3. TypeOK'
    BY <2>2 DEF Inv, TypeOK
  <2>4. ASSUME NEW y \in Side PROVE Holds(message[y], sent'[y], taken[y], got[y])
    <3>1. /\ message[y] \in Message /\ sent[y] \in Seq(Byte) /\ got[y] \in Seq(Byte)
          /\ taken[y] \in Nat /\ Holds(message[y], sent[y], taken[y], got[y])
      BY DEF Inv, TypeOK, BufferExact
    <3>2. sent'[y] = IF y = x THEN Append(sent[y], b) ELSE sent[y]
      BY <2>1 DEF Inv, TypeOK
    <3> QED
      BY <3>1, <3>2, SendHolds
  <2>5. BufferExact'
    BY <2>2, <2>4 DEF BufferExact
  <2> QED
    BY <2>2, <2>3, <2>5 DEF Inv, EventsFollowBuffers, BatchCurrent
<1>2. CASE Shut(x)
  BY <1>2 DEF Shut, Inv, TypeOK, BufferExact, EventsFollowBuffers, BatchCurrent
<1> QED
  BY <1>1, <1>2

\* epoll_wait() returns an event for one side or for both, of what it waits for.
LEMMA EpollWaitInv ==
  ASSUME Inv, EpollWait
  PROVE  Inv'
<1>1. UNCHANGED <<sent, fin, taken, got, message, interest, open>>
  BY DEF EpollWait
<1>2. \A y \in Side : \A e \in Event(y) :
        /\ e.side = y /\ e.bits \subseteq interest[y]
        /\ e \in [side : Side, bits : SUBSET Bits]
  BY DEF Event, Reported, Inv, TypeOK
<1>3. PICK x \in Side : \/ \E e \in Event(x) : batch' = <<e>>
                        \/ \E e \in Event(x), o \in Event(Other(x)) : batch' = <<e, o>>
  BY DEF EpollWait
<1>4. Other(x) \in Side /\ Other(x) # x
  BY DEF Side, Other
<1>5. /\ batch' \in Seq([side : Side, bits : SUBSET Bits])
      /\ \A i \in DOMAIN batch' : batch'[i].bits \subseteq interest[batch'[i].side]
      /\ \A i, j \in DOMAIN batch' : batch'[i].side = batch'[j].side => i = j
  <2> DEFINE Current(b) ==
               /\ b \in Seq([side : Side, bits : SUBSET Bits])
               /\ \A i \in DOMAIN b : b[i].bits \subseteq interest[b[i].side]
               /\ \A i, j \in DOMAIN b : b[i].side = b[j].side => i = j
  <2>1. ASSUME NEW e \in Event(x) PROVE Current(<<e>>)
    BY <1>2
  <2>2. ASSUME NEW e \in Event(x), NEW o \in Event(Other(x)) PROVE Current(<<e, o>>)
    BY <1>2, <1>4
  <2> QED
    BY <1>3, <2>1, <2>2
<1> QED
  BY <1>1, <1>5 DEF Inv, TypeOK, BufferExact, EventsFollowBuffers, BatchCurrent

\* Closing the connection leaves the messages as they are.
LEMMA ClosesInv ==
  ASSUME Inv, Closes
  PROVE  Inv'
<1>1. TypeOK' /\ BufferExact' /\ EventsFollowBuffers'
  <2>1. TypeOK'
    <3>1. open' \in BOOLEAN
      BY DEF Closes
    <3>2. UNCHANGED <<sent, fin, taken, got, message, interest>> /\ batch' = <<>>
      BY DEF Closes
    <3> QED
      BY <3>1, <3>2 DEF Inv, TypeOK
  <2>2. BufferExact' /\ EventsFollowBuffers'
    BY DEF Closes, Inv, BufferExact, EventsFollowBuffers
  <2> QED
    BY <2>1, <2>2
<1>2. batch' = <<>> /\ DOMAIN <<>> = {}
  BY DEF Closes
<1>3. BatchCurrent'
  BY <1>2 DEF BatchCurrent
<1> QED
  BY <1>1, <1>3 DEF Inv

\* A handler moves bytes in both directions and sets the events to match.  The
\* event of the other side, if it is still to be handled, stays one that is
\* waited for.
LEMMA TransfersInv ==
  ASSUME Inv, NEW x \in Side, Transfers(x)
  PROVE  Inv'
<1> DEFINE o == Other(x)
<1>0. o \in Side /\ o # x /\ Other(o) = x /\ Side = {x, o}
  BY DEF Side, Other
<1>1. PICK n \in Reads(x), k \in Writes(x) :
        LET mine   == ReadFrom(message[x], SubSeq(sent[x], taken[x] + 1, taken[x] + n))
            theirs == WriteTo(message[o], k)
            filled == IF n = 0 THEN interest ELSE AfterRead(interest, x, mine)
        IN  /\ taken' = [taken EXCEPT ![x] = @ + n]
            /\ got' = [got EXCEPT ![o] = @ \o Written(message[o], k)]
            /\ message' = [message EXCEPT ![x] = mine, ![o] = IF k = 0 THEN @ ELSE theirs]
            /\ interest' = IF k = 0 THEN filled ELSE AfterWrite(filled, x, theirs)
  BY DEF Transfers
<1> DEFINE mine   == ReadFrom(message[x], SubSeq(sent[x], taken[x] + 1, taken[x] + n))
           theirs == IF k = 0 THEN message[o] ELSE WriteTo(message[o], k)
           h      == got[o] \o Written(message[o], k)
           filled == IF n = 0 THEN interest ELSE AfterRead(interest, x, mine)
           after  == IF k = 0 THEN filled ELSE AfterWrite(filled, x, theirs)
<1>2. Handles(x) /\ batch' = Tail(batch) /\ UNCHANGED <<sent, fin, open>>
  BY DEF Transfers
<1>3. /\ taken' = [taken EXCEPT ![x] = taken[x] + n]
      /\ got' = [got EXCEPT ![o] = h]
      /\ message' = [message EXCEPT ![x] = mine, ![o] = theirs]
      /\ interest' = after
  <2>1. taken' = [taken EXCEPT ![x] = taken[x] + n] /\ got' = [got EXCEPT ![o] = h]
    BY <1>1
  <2>2. message' = [message EXCEPT ![x] = mine, ![o] = theirs]
    BY <1>0, <1>1 DEF Inv, TypeOK
  <2>3. interest' = after
    BY <1>1
  <2> QED
    BY <2>1, <2>2, <2>3
<1>4. /\ n \in Nat /\ mine \in Message /\ Holds(mine, sent[x], taken[x] + n, got[x])
      /\ theirs \in Message /\ h \in Seq(Byte) /\ Holds(theirs, sent[o], taken[o], h)
  BY HandlerMoves
<1>5. /\ after \in [Side -> SUBSET Bits]
      /\ "IN" \in after[x] <=> CanRead(mine)
      /\ "IN" \in after[o] <=> CanRead(theirs)
      /\ CanWrite(mine) => "OUT" \in after[o]
      /\ CanWrite(theirs) => "OUT" \in after[x]
      /\ "RDHUP" \in after[x] /\ "RDHUP" \in after[o]
      /\ interest[o] \subseteq after[o]
  BY <1>2, HandlerEvents
<1> HIDE DEF mine, theirs, h, filled, after, o
<1>6. /\ message' \in [Side -> Message] /\ message'[x] = mine /\ message'[o] = theirs
      /\ taken' \in [Side -> Nat] /\ taken'[x] = taken[x] + n /\ taken'[o] = taken[o]
      /\ got' \in [Side -> Seq(Byte)] /\ got'[x] = got[x] /\ got'[o] = h
  BY <1>0, <1>3, <1>4 DEF Inv, TypeOK
<1>7. /\ batch # <<>> /\ Head(batch).side = x
      /\ batch \in Seq([side : Side, bits : SUBSET Bits])
  BY <1>2 DEF Handles, Inv, TypeOK
<1>8. /\ batch' \in Seq([side : Side, bits : SUBSET Bits])
      /\ \A i \in DOMAIN batch' : i + 1 \in DOMAIN batch /\ batch'[i] = batch[i + 1]
      /\ 1 \in DOMAIN batch /\ batch[1].side = x
      /\ \A i \in DOMAIN batch' : i \in Nat /\ i + 1 # 1
  BY <1>2, <1>7, HeadTailProperties
<1>9. TypeOK'
  BY <1>2, <1>3, <1>5, <1>6, <1>8 DEF Inv, TypeOK
<1>10. BufferExact'
  <2>1. Holds(message'[x], sent'[x], taken'[x], got'[x])
    BY <1>2, <1>4, <1>6
  <2>2. Holds(message'[o], sent'[o], taken'[o], got'[o])
    BY <1>2, <1>4, <1>6
  <2> QED
    BY <1>0, <2>1, <2>2 DEF BufferExact
<1>11. EventsFollowBuffers'
  <2>1. ASSUME NEW y \in Side
        PROVE  /\ "IN" \in interest'[y] <=> CanRead(message'[y])
               /\ CanWrite(message'[y]) => "OUT" \in interest'[Other(y)]
               /\ "RDHUP" \in interest'[y]
    <3>1. CASE y = x
      BY <1>3, <1>5, <1>6, <3>1 DEF o
    <3>2. CASE y = o
      BY <1>0, <1>3, <1>5, <1>6, <3>2
    <3> QED
      BY <1>0, <3>1, <3>2
  <2> QED
    BY <2>1 DEF EventsFollowBuffers
<1>12. BatchCurrent'
  <2>1. ASSUME NEW i \in DOMAIN batch'
        PROVE  batch'[i].bits \subseteq interest'[batch'[i].side]
    <3>1. /\ i + 1 \in DOMAIN batch /\ i + 1 # 1 /\ batch'[i] = batch[i + 1]
      BY <1>8
    <3>2. batch[i + 1].bits \subseteq interest[batch[i + 1].side] /\ batch[i + 1].side # x
      BY <1>8, <3>1 DEF Inv, BatchCurrent
    <3>3. batch[i + 1].side = o
      <4>1. batch[i + 1] \in [side : Side, bits : SUBSET Bits]
        <5>1. i + 1 \in 1 .. Len(batch)
          BY <1>7, <3>1, LenProperties
        <5> QED
          BY <1>7, <5>1, ElementOfSeq
      <4> QED
        BY <1>0, <3>2, <4>1
    <3> QED
      BY <1>3, <1>5, <3>1, <3>2, <3>3
  <2>2. ASSUME NEW i \in DOMAIN batch', NEW j \in DOMAIN batch',
               batch'[i].side = batch'[j].side
        PROVE  i = j
    <3>1. i + 1 = j + 1
      BY <1>8, <2>2 DEF Inv, BatchCurrent
    <3> QED
      BY <1>8, <3>1
  <2> QED
    BY <2>1, <2>2 DEF BatchCurrent
<1> QED
  BY <1>9, <1>10, <1>11, <1>12 DEF Inv

\* Every step keeps the invariant.
LEMMA NextInv == Inv /\ [Next]_vars => Inv'
<1> SUFFICES ASSUME Inv, [Next]_vars PROVE Inv'
  OBVIOUS
<1>1. CASE EpollWait
  BY <1>1, EpollWaitInv
<1>2. ASSUME NEW x \in Side, Stopped(x) \/ Fails(x) PROVE Inv'
  BY <1>2, ClosesInv DEF Stopped, Fails
<1>3. ASSUME NEW x \in Side, Transfers(x) PROVE Inv'
  BY <1>3, TransfersInv
<1>4. ASSUME NEW x \in Side, Send(x) \/ Shut(x) PROVE Inv'
  BY <1>4, PeerInv
<1>5. CASE UNCHANGED vars
  BY <1>5 DEF vars, Inv, TypeOK, BufferExact, EventsFollowBuffers, BatchCurrent
<1> QED
  BY <1>1, <1>2, <1>3, <1>4, <1>5 DEF Next, Dispatch

\* The invariant holds in every state.
LEMMA Invariance == Spec => []Inv
<1>1. Init => Inv
  BY InitInv
<1>2. Inv /\ [Next]_vars => Inv'
  BY NextInv
<1> QED
  BY <1>1, <1>2, PTL DEF Spec

-----------------------------------------------------------------------------
(***************************************************************************)
(* The results.                                                            *)
(***************************************************************************)
\* The variables of the tunnel keep their types.
THEOREM TypeCorrect == Spec => []TypeOK
BY Invariance, PTL DEF Inv

\* Whatever the two buffers held before, what is written to a side are the bytes
\* the other one sent: raw_message loses, doubles and reorders none.
THEOREM BuffersExact == Spec => []BufferExact
BY Invariance, PTL DEF Inv

\* The events switched on and off by the handlers of both sides never get out of
\* step with the buffers.
THEOREM EventsFollow == Spec => []EventsFollowBuffers
BY Invariance, PTL DEF Inv

\* No handler is called for an event nobody waits for any more.
THEOREM BatchesCurrent == Spec => []BatchCurrent
BY Invariance, PTL DEF Inv

\* A handler moves bytes on in the pipe.
LEMMA TransfersMove ==
  ASSUME Inv, Inv', NEW x \in Side, Transfers(x)
  PROVE  Pipe!Move
<1> DEFINE o == Other(x)
<1>0. o \in Side /\ o # x /\ Side = {x, o}
  BY DEF Side, Other
<1>1. PICK n \in Reads(x), k \in Writes(x) :
        /\ taken' = [taken EXCEPT ![x] = @ + n]
        /\ got' = [got EXCEPT ![o] = @ \o Written(message[o], k)]
  BY DEF Transfers
<1> DEFINE h == got[o] \o Written(message[o], k)
<1>2. n \in Nat /\ Len(got[o]) <= Len(h)
  BY HandlerMoves
<1>3. \A y \in Side : /\ taken[y] \in Nat /\ taken'[y] \in Nat
                     /\ sent[y] \in Seq(Byte) /\ sent'[y] \in Seq(Byte)
                     /\ got[y] \in Seq(Byte) /\ got'[y] \in Seq(Byte)
                     /\ message[y] \in Message /\ message'[y] \in Message
                     /\ Holds(message'[y], sent'[y], taken'[y], got'[y])
                     /\ Holds(message[y], sent[y], taken[y], got[y])
  BY DEF Inv, TypeOK, BufferExact
<1>4. UNCHANGED <<sent, open>> /\ open
  BY DEF Transfers, Handles
<1> HIDE DEF h, o
<1>5. /\ taken'[x] = taken[x] + n /\ taken'[o] = taken[o]
      /\ got'[x] = got[x] /\ got'[o] = h
  BY <1>0, <1>1 DEF Inv, TypeOK, h
<1>6. ASSUME NEW y \in Side
      PROVE  /\ taken[y] <= taken'[y] /\ taken'[y] <= Len(sent[y])
             /\ taken'[y] - Len(got[y]) <= BufferLength
             /\ Len(got[y]) <= Len(got'[y]) /\ Len(got'[y]) <= taken[y]
             /\ \A i \in 1 .. Len(got'[y]) : got'[y][i] = sent[y][i]
  <2>1. /\ Len(got[y]) \in Nat /\ Len(got'[y]) \in Nat /\ BufferLength \in Nat
        /\ taken'[y] <= Len(sent[y])
        /\ \A i \in 1 .. Len(got'[y]) : got'[y][i] = sent[y][i]
    BY <1>3, <1>4, BufferAssumption DEF Holds
  <2>2. \A m \in Message, s \in Seq(Byte), g \in Seq(Byte), t \in Nat :
          Holds(m, s, t, g) => Len(g) <= t /\ t <= Len(g) + BufferLength
    <3> SUFFICES ASSUME NEW m \in Message, NEW s \in Seq(Byte), NEW g \in Seq(Byte),
                        NEW t \in Nat, Holds(m, s, t, g)
                 PROVE  Len(g) <= t /\ t <= Len(g) + BufferLength
      OBVIOUS
    <3> DEFINE rl == m.read_length
               wl == m.write_length
               gl == Len(g)
    <3>1. /\ rl \in Nat /\ wl \in Nat /\ rl <= BufferLength /\ wl <= rl
          /\ gl \in Nat /\ BufferLength \in Nat /\ t = gl + (rl - wl)
      BY BufferAssumption DEF Message, Holds
    <3> HIDE DEF rl, wl, gl
    <3> QED
      BY <3>1 DEF gl
  <2>3. CASE y = x
    <3>1. taken'[x] <= Len(got'[x]) + BufferLength /\ Len(got[x]) <= taken[x]
      BY <1>3, <2>2
    <3> QED
      BY <1>2, <1>3, <1>5, <2>1, <2>3, <3>1
  <2>4. CASE y = o
    <3>1. taken[o] <= Len(got[o]) + BufferLength /\ Len(got'[o]) <= taken'[o]
      BY <1>0, <1>3, <2>2
    <3> QED
      BY <1>0, <1>2, <1>3, <1>5, <2>1, <2>4, <3>1
  <2> QED
    BY <1>0, <2>3, <2>4
<1>7. taken' \in [Side -> Nat] /\ got' \in [Side -> Seq(Byte)]
  BY DEF Inv, TypeOK
<1> QED
  BY <1>4, <1>6, <1>7 DEF Pipe!Move

\* The tunnel is a pipe of bytes in each direction that holds no more than one
\* buffer: every step of the handlers is a step of the pipe, or none.
THEOREM TunnelIsPipe == Spec => ImplementsPipe
<1>1. Init => Pipe!Init
  BY DEF Init, Pipe!Init
<1>2. Inv /\ Inv' /\ [Next]_vars => [Pipe!Next]_Pipe!vars
  <2> SUFFICES ASSUME Inv, Inv', [Next]_vars PROVE [Pipe!Next]_Pipe!vars
    OBVIOUS
  <2>1. CASE EpollWait
    BY <2>1 DEF EpollWait, Pipe!vars
  <2>2. ASSUME NEW x \in Side, Stopped(x) \/ Fails(x) PROVE Pipe!Close
    BY <2>2 DEF Stopped, Fails, Handles, Closes, Pipe!Close
  <2>3. ASSUME NEW x \in Side, Transfers(x) PROVE Pipe!Move
    BY <2>3, TransfersMove
  <2>4. ASSUME NEW x \in Side, Send(x) PROVE Pipe!Send(x)
    BY <2>4 DEF Send, Pipe!Send
  <2>5. ASSUME NEW x \in Side, Shut(x) PROVE UNCHANGED Pipe!vars
    BY <2>5 DEF Shut, Pipe!vars
  <2>6. CASE UNCHANGED vars
    BY <2>6 DEF vars, Pipe!vars
  <2> QED
    BY <2>1, <2>2, <2>3, <2>4, <2>5, <2>6 DEF Next, Dispatch, Pipe!Next
<1> QED
  BY <1>1, <1>2, Invariance, PTL DEF Spec, ImplementsPipe, Pipe!Spec
==============================================================================
