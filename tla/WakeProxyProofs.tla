-------------------------- MODULE WakeProxyProofs --------------------------
(***************************************************************************)
(* No wakeup is lost, whether one task or two drive the connection.        *)
(***************************************************************************)
EXTENDS WakeProxy, TLAPS

\* Every step of a poll, of the transport and of wake_by_ref keeps the types.
LEMMA TypeInductive == TypeOK /\ [Next]_vars => TypeOK'
<1> SUFFICES ASSUME TypeOK, [Next]_vars PROVE TypeOK'
  OBVIOUS
<1> USE DEF Kinds, Dirs, None, NoPoll, Polling
<1>k. \A k \in Kinds : TaskOf(k) \in Kinds
  BY WakeAssumption DEF TaskOf
<1>p. poll.stage # None => poll.kind \in Kinds /\ poll.dir \in Dirs
  BY DEF TypeOK
<1>1. ASSUME NEW k \in Kinds, Begin(k) PROVE TypeOK'
  BY <1>1 DEF Begin, TypeOK
<1>2. CASE TryReady
  BY <1>2, <1>p DEF TryReady, UseReady, TypeOK
<1>3. CASE TryPending
  BY <1>3, <1>p DEF TryPending, TypeOK
<1>4. CASE SetWaker
  BY <1>4, <1>p, <1>k DEF SetWaker, TypeOK
<1>5. CASE PollReady
  BY <1>5, <1>p DEF PollReady, UseReady, TypeOK
<1>6. CASE PollPending
  BY <1>6, <1>p DEF PollPending, TypeOK
<1>7. ASSUME NEW d \in Dirs, Event(d) PROVE TypeOK'
  BY <1>7 DEF Event, TypeOK
<1>8. ASSUME NEW d \in Dirs, TakeRead(d) \/ TakeWrite(d) PROVE TypeOK'
  BY <1>8 DEF TakeRead, TakeWrite, TakeWaker, TypeOK
<1>9. ASSUME NEW d \in Dirs, Wake(d) PROVE TypeOK'
  BY <1>9 DEF Wake, TypeOK
<1>10. CASE UNCHANGED vars
  BY <1>10 DEF vars, TypeOK
<1>11. QED
  BY <1>1, <1>2, <1>3, <1>4, <1>5, <1>6, <1>7, <1>8, <1>9, <1>10
     DEF Next, PollStep, wake_by_ref

\* Every step keeps the inductive invariant.
LEMMA WakeInductive == TypeOK /\ WakeInv /\ [Next]_vars => WakeInv'
<1> SUFFICES ASSUME TypeOK, WakeInv, [Next]_vars PROVE WakeInv'
  OBVIOUS
<1> USE DEF Kinds, Dirs, None, NoPoll, Polling
<1>p. poll.stage # None => poll.kind \in Kinds /\ poll.dir \in Dirs
  BY DEF TypeOK
<1>t. \A k \in Kinds : TaskOf(k) \in Kinds
  BY WakeAssumption DEF TaskOf
<1>1. ASSUME NEW k \in Kinds, Begin(k) PROVE WakeInv'
  BY <1>1 DEF Begin, TypeOK, WakeInv, UnderWaker, Held, ToTake
<1>2. CASE TryReady
  BY <1>2, <1>p DEF TryReady, UseReady, TypeOK, WakeInv, UnderWaker, Held, ToTake
<1>3. CASE TryPending
  BY <1>3, <1>p DEF TryPending, TypeOK, WakeInv, UnderWaker, Held, ToTake
<1>4. CASE SetWaker
  BY <1>4, <1>p, <1>t DEF SetWaker, TypeOK, WakeInv, UnderWaker, Held, ToTake
<1>5. CASE PollReady
  BY <1>5, <1>p DEF PollReady, UseReady, TypeOK, WakeInv, UnderWaker, Held, ToTake
<1>6. CASE PollPending
  BY <1>6, <1>p DEF PollPending, TypeOK, WakeInv, UnderWaker, Held, ToTake
<1>7. ASSUME NEW d \in Dirs, Event(d) PROVE WakeInv'
  BY <1>7 DEF Event, TypeOK, WakeInv, UnderWaker, Held, ToTake
<1>8. ASSUME NEW d \in Dirs, TakeRead(d) \/ TakeWrite(d) PROVE WakeInv'
  BY <1>8, <1>t DEF TakeRead, TakeWrite, TakeWaker, TypeOK, WakeInv, UnderWaker, Held, ToTake
<1>9. ASSUME NEW d \in Dirs, Wake(d) PROVE WakeInv'
  <2>1. \A k \in Kinds : Held(k) => woken'[k] \/ Held(k)'
    BY <1>9, <1>t, Zenon DEF Wake, TypeOK, Held
  <2>2. \A k \in Kinds : woken[k] => woken'[k]
    BY <1>9 DEF Wake, TypeOK
  <2>3. \A k \in Kinds, e \in Dirs : ToTake(k, e) => ToTake(k, e)'
    BY <1>9 DEF Wake, TypeOK, ToTake
  <2>4. UNCHANGED <<ready, registered, waker, poll, waiting>>
    BY <1>9 DEF Wake
  <2>5. QED BY <2>1, <2>2, <2>3, <2>4 DEF WakeInv, UnderWaker, TypeOK
<1>10. CASE UNCHANGED vars
  BY <1>10 DEF vars, WakeInv, UnderWaker, Held, ToTake
<1>11. QED
  BY <1>1, <1>2, <1>3, <1>4, <1>5, <1>6, <1>7, <1>8, <1>9, <1>10
     DEF Next, PollStep, wake_by_ref

\* A parked task whose direction is ready has been woken or is about to be,
\* at every point where wake_by_ref may interleave with a poll.
THEOREM NoWakeupLost == Spec => []NoLostWakeup
<1>1. Init => TypeOK /\ WakeInv
  BY DEF Init, TypeOK, WakeInv, UnderWaker, Kinds, Dirs, None, NoPoll
<1>2. TypeOK /\ WakeInv => NoLostWakeup
  BY DEF WakeInv, NoLostWakeup, TypeOK, Kinds, Dirs
<1>3. QED BY <1>1, <1>2, TypeInductive, WakeInductive, PTL DEF Spec
=============================================================================
