-------------------------- MODULE EpollQueueProofs ---------------------------
(***************************************************************************)
(* What the ticks of epoll_queue mean in time, for every number of         *)
(* elements, every set of timeouts and any delay of the timer.  The        *)
(* invariant is that of the runs: Ages ties expires_in to time, and with   *)
(* it a look at the timer bounds how long the survivors have been idle.    *)
(***************************************************************************)
EXTENDS EpollQueue, TLAPS

\* What Ages and NothingLingers say of one element, at a given time.
AgeOf(e, n) == /\ e.late <= e.touched /\ e.touched <= n
               /\ e.expires_in = 3 * (e.touched - e.late) + e.granted

IdleOf(e, n, d, k) == 3 * (n - e.touched) <= e.granted + 3 * d + k

Inv == TypeOK /\ Ages /\ NothingLingers

\* The invariant, element by element.
LEMMA InvByElement ==
  Inv <=> /\ TypeOK /\ ticks = 3 * (now - due)
          /\ \A i \in Id : elems[i] # None =>
               AgeOf(elems[i], now) /\ IdleOf(elems[i], now, due, ticked)
  BY DEF Inv, Ages, NothingLingers, AgeOf, IdleOf

\* Nothing is registered at first.
LEMMA InitInv == Init => Inv
  BY SMT DEF Init, Inv, TypeOK, Ages, NothingLingers, Id

\* An element that becomes active now has its whole timeout before it.
LEMMA FreshElement ==
  ASSUME NEW e \in Elem, now \in Nat, due \in Nat, ticked \in Nat, due <= now,
         ticks = 3 * (now - due), e.touched = now, e.late = due,
         e.expires_in = ticks + e.granted
  PROVE  AgeOf(e, now) /\ IdleOf(e, now, due, ticked)
  BY SMT DEF Elem, AgeOf, IdleOf

\* Registering, being active, a new timeout and closing touch one element.
LEMMA OneElement ==
  ASSUME Inv, NEW i \in Id, NEW e \in Elem \cup {None},
         e # None => AgeOf(e, now) /\ IdleOf(e, now, due, ticked),
         elems' = [elems EXCEPT ![i] = e], UNCHANGED <<ticks, now, due, ticked>>
  PROVE  Inv'
<1>1. TypeOK' BY DEF Inv, TypeOK
<1>2. ASSUME NEW j \in Id, elems'[j] # None
      PROVE  AgeOf(elems'[j], now') /\ IdleOf(elems'[j], now', due', ticked')
  <2>1. CASE j = i BY <1>2, <2>1 DEF Inv, TypeOK
  <2>2. CASE j # i BY <1>2, <2>2, InvByElement DEF Inv, TypeOK
  <2> QED BY <2>1, <2>2
<1>3. ticks' = 3 * (now' - due') BY InvByElement
<1> QED BY <1>1, <1>2, <1>3 DEF Inv, Ages, NothingLingers, AgeOf, IdleOf

\* An expiration that is not read adds to what may be late.
LEMMA ExpireInv ==
  ASSUME Inv, Expire
  PROVE  Inv'
<1>1. TypeOK' BY DEF Inv, TypeOK, Expire
<1>2. ASSUME NEW j \in Id, elems'[j] # None
      PROVE  AgeOf(elems'[j], now') /\ IdleOf(elems'[j], now', due', ticked')
  <2>1. elems'[j] = elems[j] /\ elems[j] \in Elem BY <1>2 DEF Inv, TypeOK, Expire
  <2>2. AgeOf(elems[j], now) /\ IdleOf(elems[j], now, due, ticked)
    BY <2>1, <1>2, InvByElement
  <2> QED BY SMT, <2>1, <2>2 DEF AgeOf, IdleOf, Elem, Inv, TypeOK, Expire
<1>3. ticks' = 3 * (now' - due') BY SMT, InvByElement DEF Inv, TypeOK, Expire
<1> QED BY <1>1, <1>2, <1>3 DEF Inv, Ages, NothingLingers, AgeOf, IdleOf

\* What the timer does not close has been idle for less than its timeout and
\* the periods that were late.
LEMMA Survivor ==
  ASSUME Inv, NEW j \in Id, elems[j] # None, j \notin Expired
  PROVE  IdleOf(elems[j], now, 0, due)
<1>1. elems[j] \in Elem BY DEF Inv, TypeOK
<1>2. AgeOf(elems[j], now) /\ ticks = 3 * (now - due) BY InvByElement
<1>3. ~(elems[j].expires_in <= TicksFor(elems[j].kind)) BY DEF Expired
<1>4. TicksFor(elems[j].kind) \in Int /\ TicksFor(elems[j].kind) >= ticks + 2 * due
  BY SMT DEF Inv, TypeOK, TicksFor, TickInterval
<1> QED BY SMT, <1>1, <1>2, <1>3, <1>4 DEF AgeOf, IdleOf, Elem, Inv, TypeOK

\* The handler of the timer.
LEMMA TickInv ==
  ASSUME Inv, Tick
  PROVE  Inv'
<1>1. TypeOK'
  <2>1. elems' \in [Id -> Elem \cup {None}] BY DEF Inv, TypeOK, Tick
  <2>2. ticks' \in Nat BY SMT DEF Inv, TypeOK, Tick, Ticks, TickInterval
  <2> QED BY SMT, <2>1, <2>2 DEF Inv, TypeOK, Tick
<1>2. ASSUME NEW j \in Id, elems'[j] # None
      PROVE  AgeOf(elems'[j], now') /\ IdleOf(elems'[j], now', due', ticked')
  <2>1. elems'[j] = elems[j] /\ j \notin Expired BY <1>2 DEF Tick, Closed
  <2>2. IdleOf(elems[j], now, 0, due) BY <2>1, <1>2, Survivor
  <2>3. AgeOf(elems[j], now) BY <2>1, <1>2, InvByElement
  <2> QED BY <2>1, <2>2, <2>3 DEF Tick
<1>3. ticks' = 3 * (now' - due')
  BY SMT, InvByElement DEF Inv, TypeOK, Tick, Ticks, TickInterval
<1> QED BY <1>1, <1>2, <1>3 DEF Inv, Ages, NothingLingers, AgeOf, IdleOf

\* There are never more expirations to read than there were periods.
LEMMA DueIsPast == Inv => due <= now
  BY SMT, InvByElement DEF Inv, TypeOK

\* Every step keeps the invariant.
LEMMA NextInv ==
  ASSUME Inv, [Next]_vars
  PROVE  Inv'
<1> USE QueueAssumption
<1>1. ASSUME NEW i \in Id, NEW t \in Timeout, NEW kind \in Kind, Save(i, kind, t)
      PROVE  Inv'
  <2>1. Active(kind, t) \in Elem BY <1>1, SMT DEF Active, Inv, TypeOK, Elem
  <2>2. /\ Active(kind, t).touched = now /\ Active(kind, t).late = due
        /\ Active(kind, t).expires_in = ticks + Active(kind, t).granted
    BY DEF Active
  <2>3. AgeOf(Active(kind, t), now) /\ IdleOf(Active(kind, t), now, due, ticked)
    BY <2>1, <2>2, FreshElement, DueIsPast, InvByElement DEF Inv, TypeOK
  <2> QED BY <1>1, <2>1, <2>3, OneElement DEF Save
<1>2. ASSUME NEW i \in Id, SetActive(i)
      PROVE  Inv'
  <2>1. elems[i] \in Elem BY <1>2 DEF SetActive, Inv, TypeOK
  <2>2. /\ Touched(elems[i]) \in Elem
        /\ Touched(elems[i]).touched = now /\ Touched(elems[i]).late = due
        /\ Touched(elems[i]).expires_in = ticks + Touched(elems[i]).granted
    BY <2>1, SMT DEF Touched, Active, Elem, Inv, TypeOK
  <2>3. AgeOf(Touched(elems[i]), now) /\ IdleOf(Touched(elems[i]), now, due, ticked)
    BY <2>2, FreshElement, DueIsPast, InvByElement DEF Inv, TypeOK
  <2>4. elems' = [elems EXCEPT ![i] = Touched(elems[i])] BY <1>2 DEF SetActive
  <2> QED BY <1>2, <2>2, <2>3, <2>4, OneElement DEF SetActive
<1>3. ASSUME NEW i \in Id, NEW t \in Timeout, ChangeTimeout(i, t)
      PROVE  Inv'
  <2> DEFINE e == [elems[i] EXCEPT !.timeout = t]
  <2>1. elems[i] \in Elem BY <1>3 DEF ChangeTimeout, Inv, TypeOK
  <2>2. /\ e \in Elem /\ e.touched = elems[i].touched /\ e.late = elems[i].late
        /\ e.granted = elems[i].granted /\ e.expires_in = elems[i].expires_in
    BY <2>1 DEF Elem
  <2>3. AgeOf(elems[i], now) /\ IdleOf(elems[i], now, due, ticked)
    BY <1>3, InvByElement DEF ChangeTimeout
  <2>4. AgeOf(e, now) /\ IdleOf(e, now, due, ticked) BY <2>2, <2>3 DEF AgeOf, IdleOf
  <2>5. elems' = [elems EXCEPT ![i] = e] BY <1>3 DEF ChangeTimeout
  <2> QED BY <1>3, <2>2, <2>4, <2>5, OneElement DEF ChangeTimeout
<1>4. ASSUME NEW i \in Id, Close(i)
      PROVE  Inv'
  BY <1>4, OneElement DEF Close
<1>5. CASE UNCHANGED vars
  BY <1>5 DEF vars, Inv, TypeOK, Ages, NothingLingers
<1> QED BY <1>1, <1>2, <1>3, <1>4, <1>5, ExpireInv, TickInv DEF Next

\* The invariant holds in every state.
LEMMA Invariance == Spec => []Inv
  BY InitInv, NextInv, PTL DEF Spec

\* Type correctness of the queue.
THEOREM TypeCorrect == Spec => []TypeOK
<1>1. Inv => TypeOK BY DEF Inv
<1> QED BY <1>1, Invariance, PTL

\* ticks and expires_in stand for time: three ticks a period, less the periods
\* the handler of the timer was late with when the element was active.
THEOREM TicksAreTime == Spec => []Ages
<1>1. Inv => Ages BY DEF Inv
<1> QED BY <1>1, Invariance, PTL

\* Nothing stays idle for longer than its timeout, but for what the timer has
\* still to report or reported at once the last time.
THEOREM IdleAreClosed == Spec => []NothingLingers
<1>1. Inv => NothingLingers BY DEF Inv
<1> QED BY <1>1, Invariance, PTL

\* The timer closes nothing that was active within its timeout in ticks.
LEMMA ClosedWasIdle ==
  ASSUME Inv, Tick, NEW i \in Id, elems[i] # None, elems'[i] = None
  PROVE  3 * (now - elems[i].touched + elems[i].late) >= elems[i].granted
<1>1. elems[i] \in Elem BY DEF Inv, TypeOK
<1>2. AgeOf(elems[i], now) /\ ticks = 3 * (now - due) BY InvByElement
<1>3. elems[i].expires_in <= TicksFor(elems[i].kind)
  BY DEF Tick, Closed, Expired
<1>4. TicksFor(elems[i].kind) \in Int /\ TicksFor(elems[i].kind) <= ticks + 3 * due
  BY SMT DEF Inv, TypeOK, TicksFor, TickInterval
<1> QED BY SMT, <1>1, <1>2, <1>3, <1>4 DEF AgeOf, Elem, Inv, TypeOK

\* What the timer closes was idle for its timeout, at three ticks a period.
THEOREM ClosesOnlyIdle == Spec => NotEarly
<1>1. Inv /\ [Next]_vars =>
        [\A i \in Id : Tick /\ elems[i] # None /\ elems'[i] = None =>
           3 * (now - elems[i].touched + elems[i].late) >= elems[i].granted]_vars
  BY ClosedWasIdle
<1> QED BY <1>1, Invariance, PTL DEF Spec, NotEarly
==============================================================================
