--------------------------- MODULE LLMLeaseProofs ---------------------------
(* Safety of the LLM lease for any set of calls and any priorities, and   *)
(* the order in which it is granted.                                        *)
EXTENDS LLMLease, TLAPS

\* What the three invariants need together: a queued call can be counted on
\* to be suspended or woken, and the one holder is the one _active names.
LeaseInv ==
    /\ TypeOK
    /\ OneHolder
    /\ QueueIsSuspended
    /\ NoLostWakeup
    /\ \A c \in Calls : earlier[c] \subseteq waiters

LEMMA NotifyAllWakes ==
    ASSUME NEW f \in [Calls -> PCs], NEW c \in Calls
    PROVE  /\ NotifyAll(f) \in [Calls -> PCs]
           /\ NotifyAll(f)[c] # "blocked"
           /\ NotifyAll(f)[c] = "holding" <=> f[c] = "holding"
           /\ NotifyAll(f)[c] \in {"blocked", "woken"} <=> f[c] \in {"blocked", "woken"}
  BY DEF NotifyAll, PCs

LEMMA LeaseInit == Init => LeaseInv
  BY CallsAssumption
  DEF Init, LeaseInv, TypeOK, PCs, OneHolder, QueueIsSuspended, NoLostWakeup, IsFirst

LEMMA LeaseStep == LeaseInv /\ [Next]_vars => LeaseInv'
<1> SUFFICES ASSUME LeaseInv, [Next]_vars PROVE LeaseInv'
  OBVIOUS
<1> USE CallsAssumption, PriorityAssumption, PatientAssumption
<1>1. ASSUME NEW c \in Calls, EnterOrGiveUp(c) PROVE LeaseInv'
  <2>1. UNCHANGED <<waiters, earlier>>
    BY <1>1 DEF EnterOrGiveUp
  <2>2. CASE active = NoCall /\ waiters = {}
    <3>1. active' = c /\ pc' = [pc EXCEPT ![c] = "holding"]
      BY <1>1, <2>2 DEF EnterOrGiveUp
    <3>2. active' # NoCall
      BY <3>1
    <3> QED
      BY <2>1, <2>2, <3>1, <3>2
      DEF LeaseInv, TypeOK, PCs, OneHolder, QueueIsSuspended, NoLostWakeup
  <2>3. CASE ~(active = NoCall /\ waiters = {})
    <3>1. UNCHANGED <<pc, active>>
      BY <1>1, <2>3 DEF EnterOrGiveUp
    <3> QED
      BY <2>1, <3>1
      DEF LeaseInv, TypeOK, OneHolder, QueueIsSuspended, NoLostWakeup, IsFirst, Before
  <2> QED BY <2>2, <2>3
<1>2. ASSUME NEW c \in Calls, EnterOrQueue(c) PROVE LeaseInv'
  <2>0. pc[c] = "outside" /\ c \notin waiters
    BY <1>2 DEF LeaseInv, TypeOK, QueueIsSuspended, EnterOrQueue
  <2>1. CASE active = NoCall /\ IsFirst(c, waiters \cup {c}, earlier)
    <3>1. /\ active' = c
          /\ pc' = [pc EXCEPT ![c] = "holding"]
          /\ UNCHANGED <<waiters, earlier>>
      BY <1>2, <2>1 DEF EnterOrQueue
    <3>2. active' # NoCall
      BY <3>1
    <3> QED
      BY <2>0, <2>1, <3>1, <3>2
      DEF LeaseInv, TypeOK, PCs, OneHolder, QueueIsSuspended, NoLostWakeup
  <2>2. CASE ~(active = NoCall /\ IsFirst(c, waiters \cup {c}, earlier))
    <3>1. /\ waiters' = waiters \cup {c}
          /\ earlier' = [earlier EXCEPT ![c] = waiters]
          /\ pc' = [pc EXCEPT ![c] = "blocked"]
          /\ active' = active
      BY <1>2, <2>2 DEF EnterOrQueue
    <3>2. \A d \in Calls : d # c => earlier'[d] = earlier[d] /\ pc'[d] = pc[d]
      BY <3>1 DEF LeaseInv, TypeOK
    <3>3. ASSUME active' = NoCall, NEW d \in Calls, IsFirst(d, waiters', earlier')
          PROVE  pc'[d] = "woken"
      <4>1. CASE d = c
        <5>1. ASSUME NEW e \in waiters
              PROVE  Before(c, e, earlier)
          <6>1. Before(c, e, earlier') /\ e # c
            BY <2>0, <3>1, <3>3, <4>1, <5>1 DEF IsFirst
          <6> QED BY <6>1, <3>2, <5>1 DEF Before, LeaseInv, TypeOK
        <5> QED BY <2>2, <3>1, <3>3, <4>1, <5>1 DEF IsFirst
      <4>2. CASE d # c
        <5>1. IsFirst(d, waiters, earlier)
          BY <2>0, <3>1, <3>2, <3>3, <4>2 DEF IsFirst, Before, LeaseInv, TypeOK
        <5> QED
          BY <3>1, <3>2, <3>3, <4>2, <5>1 DEF LeaseInv, TypeOK, NoLostWakeup
      <4> QED BY <4>1, <4>2
    <3>4. /\ earlier' \in [Calls -> SUBSET Calls]
          /\ \A d \in Calls : earlier'[d] \subseteq waiters'
      BY <3>1 DEF LeaseInv, TypeOK
    <3>5. NoLostWakeup'
      BY <3>3 DEF NoLostWakeup
    <3> QED
      BY <2>0, <3>1, <3>4, <3>5 DEF LeaseInv, TypeOK, PCs, OneHolder, QueueIsSuspended
  <2> QED BY <2>1, <2>2
<1>3. ASSUME NEW c \in Calls, Resume(c) PROVE LeaseInv'
  <2>0. pc[c] = "woken" /\ c \in waiters
    BY <1>3 DEF LeaseInv, QueueIsSuspended, Resume
  <2>1. CASE active = NoCall /\ IsFirst(c, waiters, earlier)
    <3>1. Dequeue(c) /\ active' = c /\ pc' = [pc EXCEPT ![c] = "holding"]
      BY <1>3, <2>1 DEF Resume
    <3>2. active' # NoCall
      BY <3>1
    <3>3. /\ earlier' \in [Calls -> SUBSET Calls]
          /\ waiters' = waiters \ {c}
          /\ \A d \in Calls : earlier'[d] \subseteq waiters'
      BY <3>1 DEF Dequeue, LeaseInv, TypeOK
    <3> QED
      BY <2>0, <2>1, <3>1, <3>2, <3>3
      DEF LeaseInv, TypeOK, PCs, OneHolder, QueueIsSuspended, NoLostWakeup
  <2>2. CASE ~(active = NoCall /\ IsFirst(c, waiters, earlier))
    <3>1. pc' = [pc EXCEPT ![c] = "blocked"] /\ UNCHANGED <<waiters, active, earlier>>
      BY <1>3, <2>2 DEF Resume
    <3>2. NoLostWakeup'
      BY <2>2, <3>1 DEF LeaseInv, TypeOK, NoLostWakeup, IsFirst, Before
    <3> QED
      BY <2>0, <3>1, <3>2 DEF LeaseInv, TypeOK, PCs, OneHolder, QueueIsSuspended
  <2> QED BY <2>1, <2>2
<1>4. ASSUME NEW c \in Calls, Cancel(c) PROVE LeaseInv'
  <2> DEFINE g == [pc EXCEPT ![c] = "outside"]
  <2>1. g \in [Calls -> PCs]
    BY DEF LeaseInv, TypeOK, PCs
  <2>2. /\ pc' = NotifyAll(g) /\ waiters' = waiters \ {c}
        /\ active' = active
        /\ pc[c] \in {"blocked", "woken"}
    BY <1>4 DEF Cancel, Dequeue
  <2> HIDE DEF g
  <2>3. ASSUME NEW d \in Calls
        PROVE  /\ pc'[d] # "blocked"
               /\ pc'[d] = "holding" <=> g[d] = "holding"
               /\ pc'[d] \in {"blocked", "woken"} <=> g[d] \in {"blocked", "woken"}
    BY <2>1, <2>2, NotifyAllWakes
  <2>4. \A d \in Calls : g[d] = IF d = c THEN "outside" ELSE pc[d]
    BY DEF g, LeaseInv, TypeOK
  <2>5. pc' \in [Calls -> PCs]
    BY <2>1, <2>2, NotifyAllWakes
  <2>6. /\ earlier' \in [Calls -> SUBSET Calls]
        /\ \A d \in Calls : earlier'[d] \subseteq waiters'
    BY <1>4 DEF Cancel, Dequeue, LeaseInv, TypeOK
  <2>7. NoLostWakeup'
    BY <2>2, <2>3, <2>4, <2>5 DEF NoLostWakeup, IsFirst, LeaseInv, PCs, QueueIsSuspended
  <2> QED
    BY <2>2, <2>3, <2>4, <2>5, <2>6, <2>7
    DEF LeaseInv, TypeOK, OneHolder, QueueIsSuspended
<1>5. ASSUME NEW c \in Calls, Leave(c) PROVE LeaseInv'
  <2> DEFINE g == [pc EXCEPT ![c] = "outside"]
  <2>1. g \in [Calls -> PCs]
    BY DEF LeaseInv, TypeOK, PCs
  <2>2. /\ pc' = NotifyAll(g) /\ active' = NoCall /\ active = c
        /\ UNCHANGED <<waiters, earlier>>
        /\ pc[c] = "holding"
    BY <1>5 DEF Leave, LeaseInv, OneHolder
  <2> HIDE DEF g
  <2>3. ASSUME NEW d \in Calls
        PROVE  /\ pc'[d] # "blocked"
               /\ pc'[d] = "holding" <=> g[d] = "holding"
               /\ pc'[d] \in {"blocked", "woken"} <=> g[d] \in {"blocked", "woken"}
    BY <2>1, <2>2, NotifyAllWakes
  <2>4. \A d \in Calls : g[d] = IF d = c THEN "outside" ELSE pc[d]
    BY DEF g, LeaseInv, TypeOK
  <2>5. pc' \in [Calls -> PCs]
    BY <2>1, <2>2, NotifyAllWakes
  <2> QED
    BY <2>2, <2>3, <2>4, <2>5
    DEF LeaseInv, TypeOK, PCs, OneHolder, QueueIsSuspended, NoLostWakeup, IsFirst
<1>6. CASE UNCHANGED vars
  BY <1>6
  DEF vars, LeaseInv, TypeOK, OneHolder, QueueIsSuspended, NoLostWakeup, IsFirst, Before
<1> QED
  BY <1>1, <1>2, <1>3, <1>4, <1>5, <1>6 DEF Next

\* LLM calls are serialised: at any time at most one call is inside the leased
\* section, and it is the one the coordinator's _active names.
THEOREM LeaseIsExclusive == Spec => []OneHolder
<1>1. LeaseInv => OneHolder
  BY DEF LeaseInv
<1> QED
  BY LeaseInit, LeaseStep, <1>1, PTL DEF Spec

\* Cancelling any queued call at any moment loses no wake-up: a free lease
\* with a non-empty queue always has the head of the queue runnable.
THEOREM LeaseLosesNoWakeup == Spec => []NoLostWakeup
<1>1. LeaseInv => NoLostWakeup
  BY DEF LeaseInv
<1> QED
  BY LeaseInit, LeaseStep, <1>1, PTL DEF Spec

\* The state of the coordinator has its types, and a call is queued exactly while it
\* is suspended or woken, however calls are cancelled: no waiter is left behind that
\* would block the queue (_enter's except clause).
THEOREM LeaseTypes == Spec => [](TypeOK /\ QueueIsSuspended)
<1>1. LeaseInv => TypeOK /\ QueueIsSuspended
  BY DEF LeaseInv
<1> QED
  BY LeaseInit, LeaseStep, <1>1, PTL DEF Spec

-----------------------------------------------------------------------------
(* The order in which the lease is given.                                   *)

\* One step lets nobody overtake who is not more urgent.
LEMMA StepOvertakesNone ==
    ASSUME LeaseInv, Next,
           NEW c \in waiters \cap waiters', NEW d \in Calls,
           Priority[c] <= Priority[d], d \notin Ahead(c)
    PROVE  d \notin Ahead(c)' /\ (active' = d => active = d)
<1> USE CallsAssumption, PriorityAssumption DEF LeaseInv, TypeOK, Ahead
<1>0. d \in waiters => ~Before(d, c, earlier)
  OBVIOUS
<1>1. ASSUME NEW e \in Calls, EnterOrGiveUp(e)
      PROVE  d \notin Ahead(c)' /\ (active' = d => active = d)
  <2>1. UNCHANGED <<waiters, active, earlier>>
    BY <1>1 DEF EnterOrGiveUp
  <2> QED BY <2>1 DEF Before
<1>2. ASSUME NEW e \in Calls, EnterOrQueue(e)
      PROVE  d \notin Ahead(c)' /\ (active' = d => active = d)
  <2>1. /\ e \notin waiters /\ waiters' \subseteq waiters \cup {e}
        /\ earlier'[c] = earlier[c]
    BY <1>2 DEF EnterOrQueue, QueueIsSuspended
  <2>2. ~(Before(d, c, earlier))
    BY <1>0 DEF Before
  <2>3. active' = active \/ (active' = e /\ Before(e, c, earlier))
    BY <1>2, <2>1 DEF EnterOrQueue, IsFirst
  <2> QED BY <2>1, <2>2, <2>3 DEF Before
<1>3. ASSUME NEW e \in Calls, Resume(e)
      PROVE  d \notin Ahead(c)' /\ (active' = d => active = d)
  <2>1. /\ waiters' \subseteq waiters /\ earlier'[c] \subseteq earlier[c]
        /\ active' = active \/ (active' = e /\ IsFirst(e, waiters, earlier) /\ e # c)
    BY <1>3 DEF Resume, Dequeue
  <2> QED BY <1>0, <2>1 DEF IsFirst, Before
<1>4. ASSUME NEW e \in Calls, Cancel(e) \/ Leave(e)
      PROVE  d \notin Ahead(c)' /\ (active' = d => active = d)
  <2>1. waiters' \subseteq waiters /\ earlier'[c] \subseteq earlier[c]
    BY <1>4 DEF Cancel, Leave, Dequeue
  <2>2. active' \in {active, NoCall}
    BY <1>4 DEF Cancel, Leave
  <2> QED BY <1>0, <2>1, <2>2 DEF Before
<1> QED BY <1>1, <1>2, <1>3, <1>4 DEF Next

\* The lease is given by urgency, then by arrival: a call that queues is overtaken only
\* by more urgent ones, whatever is cancelled and whoever runs first after a wake-up
\* (_enter's min over priority and ticket).
THEOREM LeaseKeepsOrder == Spec => NoOvertaking
<1>1. LeaseInv /\ [Next]_vars
        => [\A c \in waiters \cap waiters', d \in Calls :
              Priority[c] <= Priority[d] /\ d \notin Ahead(c) =>
                  d \notin Ahead(c)' /\ (active' = d => active = d)]_vars
  BY StepOvertakesNone
<1> QED
  BY <1>1, LeaseInit, LeaseStep, PTL DEF Spec, NoOvertaking
=============================================================================
