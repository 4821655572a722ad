----------------------------- MODULE EpollQueue ------------------------------
(***************************************************************************)
(* How epoll_queue ages what it keeps (epoll_queue.cpp): the elements of   *)
(* sockets and of connections, their timeouts, and the timer whose handler *)
(* closes those that expired.  Time is counted in periods of the timer     *)
(* (TICK_INTERVAL seconds); the loop may be late in reading it.            *)
(***************************************************************************)
EXTENDS Integers

CONSTANTS
  Count,     \* the elements there may be, 1 .. Count in the order of their list
  Timeout,   \* the timeouts in use: 240, 1200 and 2^32
  MaxTime,   \* bound: periods
  MaxDue,    \* bound: expirations of the timer that wait to be read
  None

ASSUME QueueAssumption ==
  /\ Count \in Nat /\ Timeout \subseteq Nat
  /\ MaxTime \in Nat /\ MaxDue \in Nat
  /\ None \notin Nat

TickInterval == 2
Id           == 1 .. Count
Kind         == {"socket", "connection"}

VARIABLES
  elems,   \* the elements: [kind, timeout, expires_in], and for the properties
           \* when it was last active (touched), how many expirations were not
           \* read by then (late) and the timeout that counts (granted)
  ticks,   \* epoll_queue::ticks
  now,     \* periods that have passed
  due,     \* expirations of the timer not read yet
  ticked   \* how many the handler read last

vars == <<elems, ticks, now, due, ticked>>

Init ==
  /\ elems = [i \in Id |-> None]
  /\ ticks = 0 /\ now = 0 /\ due = 0 /\ ticked = 0

-----------------------------------------------------------------------------
\* An element of this kind and timeout that is active now.
Active(kind, t) == [kind |-> kind, timeout |-> t, expires_in |-> ticks + t,
                    touched |-> now, late |-> due, granted |-> t]

\* Mutant: an element that is active keeps its time.
Touched_Keeps(e) == [Active(e.kind, e.timeout) EXCEPT !.expires_in = e.expires_in]

\* Mutant: expires_in is what is left of the timeout.
Touched_Left(e) == [Active(e.kind, e.timeout) EXCEPT !.expires_in = e.timeout - ticks]

\* set_active().
Touched(e) == Active(e.kind, e.timeout)

\* save_registration(), also of an element that is moved, and make_connection().
Save(i, kind, t) ==
  /\ elems[i] = None
  /\ elems' = [elems EXCEPT ![i] = Active(kind, t)]
  /\ UNCHANGED <<ticks, now, due, ticked>>

SetActive(i) ==
  /\ elems[i] # None
  /\ elems' = [elems EXCEPT ![i] = Touched(@)]
  /\ UNCHANGED <<ticks, now, due, ticked>>

\* The timeout of a connection changes from its next activity on.
ChangeTimeout(i, t) ==
  /\ elems[i] # None /\ elems[i].kind = "connection"
  /\ elems' = [elems EXCEPT ![i].timeout = t]
  /\ UNCHANGED <<ticks, now, due, ticked>>

Close(i) ==
  /\ elems[i] # None
  /\ elems' = [elems EXCEPT ![i] = None]
  /\ UNCHANGED <<ticks, now, due, ticked>>

Expire ==
  /\ now < MaxTime /\ due < MaxDue
  /\ now' = now + 1 /\ due' = due + 1
  /\ UNCHANGED <<elems, ticks, ticked>>

\* What ticks is when the sockets are looked at, and the connections.
TicksFor(kind) == IF kind = "socket" THEN ticks + due * TickInterval
                                     ELSE ticks + due * TickInterval + due

Expired == {i \in Id : elems[i] # None /\ elems[i].expires_in <= TicksFor(elems[i].kind)}

\* Mutant: the iterator moves on after erase() has moved it.
Closed_Skips == {i \in Expired : i - 1 \notin Expired}

Closed == Expired

\* Mutant: ticks is advanced once.
Ticks_Once == ticks + due * TickInterval

\* ticks is advanced twice.
Ticks == ticks + due * TickInterval + due

\* The handler of the timer.
Tick ==
  /\ due > 0
  /\ elems' = [i \in Id |-> IF i \in Closed THEN None ELSE elems[i]]
  /\ ticks' = Ticks
  /\ ticked' = due /\ due' = 0
  /\ UNCHANGED now

Next ==
  \/ \E i \in Id :
       \/ SetActive(i) \/ Close(i)
       \/ \E t \in Timeout : ChangeTimeout(i, t) \/ \E kind \in Kind : Save(i, kind, t)
  \/ Expire \/ Tick

Spec == Init /\ [][Next]_vars

-----------------------------------------------------------------------------
Elem == [kind : Kind, timeout : Nat, expires_in : Nat, touched : Nat, late : Nat, granted : Nat]

\* The variables hold what their declarations say.
TypeOK ==
  /\ elems \in [Id -> Elem \cup {None}]
  /\ ticks \in Nat /\ now \in Nat /\ due \in Nat /\ ticked \in Nat

\* Ticks run at three for two seconds: what is registered while the handler of
\* the timer is late has aged already by the periods that were not read.
Ages ==
  /\ ticks = 3 * (now - due)
  /\ \A i \in Id : elems[i] # None =>
       LET e == elems[i] IN
       /\ e.late <= e.touched /\ e.touched <= now
       /\ e.expires_in = 3 * (e.touched - e.late) + e.granted

\* Nothing is idle for longer than its timeout in ticks, except for what the
\* timer has not reported yet or reported at once the last time.
NothingLingers ==
  \A i \in Id : elems[i] # None =>
    3 * (now - elems[i].touched) <= elems[i].granted + 3 * due + ticked

\* The timer closes nothing that was active within its timeout in ticks, that is
\* two thirds of it in seconds, less what the loop was late.
NotEarly ==
  [][\A i \in Id : Tick /\ elems[i] # None /\ elems'[i] = None =>
       3 * (now - elems[i].touched + elems[i].late) >= elems[i].granted]_vars
==============================================================================
