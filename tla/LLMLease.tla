------------------------------ MODULE LLMLease ------------------------------
(***************************************************************************)
(* The priority-aware lease that serialises LLM inference                  *)
(* (backends/llm_lease.py, LLMLeaseCoordinator).                           *)
(*                                                                         *)
(* The coordinator runs on one asyncio event loop.  Its condition's lock   *)
(* is never held across an await other than Condition.wait(), which gives  *)
(* it up, so everything a caller does between two suspensions is one       *)
(* atomic step here.  A caller that notify_all() has released is not       *)
(* running yet: it is "woken", and anything may happen before it runs --   *)
(* a newcomer may enter, another woken caller may run, or the woken caller *)
(* itself may be cancelled.                                                *)
(*                                                                         *)
(* Tickets are only ever compared between calls that queue, and a queued   *)
(* call's is smaller than that of any later arrival.  What is kept of them *)
(* is therefore which of the queued calls came earlier; so a call may come *)
(* back for the lease without end and the state stays finite.              *)
(***************************************************************************)
EXTENDS Naturals

CONSTANTS
    Calls,        \* the coroutines that ask for the lease
    Priority,     \* Priority[c]: smaller runs first (GUARDIAN_PRIORITY = 0)
    Patient,      \* the calls made with wait=True
    NoCall        \* _active is None

ASSUME CallsAssumption == NoCall \notin Calls
ASSUME PriorityAssumption == Priority \in [Calls -> Nat]
ASSUME PatientAssumption == Patient \subseteq Calls

VARIABLES
    pc,           \* where each call is: see PCs
    waiters,      \* _waiters, the queued calls
    active,       \* _active
    earlier       \* the queued calls whose ticket is smaller than each queued call's

vars == <<pc, waiters, active, earlier>>

PCs == {"outside", "blocked", "woken", "holding"}

TypeOK ==
    /\ pc \in [Calls -> PCs]
    /\ waiters \subseteq Calls
    /\ active \in Calls \cup {NoCall}
    /\ earlier \in [Calls -> SUBSET Calls]

Init ==
    /\ pc = [c \in Calls |-> "outside"]
    /\ waiters = {}
    /\ active = NoCall
    /\ earlier = [c \in Calls |-> {}]

-----------------------------------------------------------------------------
\* The order of the queue: priority first, then arrival.
Before(c, d, first) ==
    \/ Priority[c] < Priority[d]
    \/ Priority[c] = Priority[d] /\ c \in first[d]

\* waiter == min(self._waiters, key=(priority, ticket))
IsFirst(c, queue, first) ==
    /\ c \in queue
    /\ \A d \in queue \ {c} : Before(c, d, first)

\* self._waiters.remove(waiter), with what the others' tickets said of it.
Dequeue(c) ==
    /\ waiters' = waiters \ {c}
    /\ earlier' = [d \in Calls |-> IF d = c THEN {} ELSE earlier[d] \ {c}]

\* Condition.notify_all(): every call suspended in wait() becomes runnable.
NotifyAll(counters) ==
    [c \in Calls |-> IF counters[c] = "blocked" THEN "woken" ELSE counters[c]]

-----------------------------------------------------------------------------
(* Faulty variants, one per property, that the mutation runs put in place of *)
(* the action they are named after.  No specification uses them.             *)

\* The loop condition forgets to look at _active.
ResumeIgnoringHolder(c) ==
    /\ pc[c] = "woken"
    /\ IF IsFirst(c, waiters, earlier)
       THEN Dequeue(c) /\ active' = c /\ pc' = [pc EXCEPT ![c] = "holding"]
       ELSE pc' = [pc EXCEPT ![c] = "blocked"] /\ UNCHANGED <<waiters, active, earlier>>

\* The except clause removes the waiter but notifies nobody.
CancelSilently(c) ==
    /\ pc[c] \in {"blocked", "woken"}
    /\ Dequeue(c)
    /\ pc' = [pc EXCEPT ![c] = "outside"]
    /\ UNCHANGED active

\* A patient newcomer takes a free lease without looking at the queue.
EnterOrBarge(c) ==
    /\ c \in Patient
    /\ pc[c] = "outside"
    /\ IF active = NoCall
       THEN /\ active' = c
            /\ pc' = [pc EXCEPT ![c] = "holding"]
            /\ UNCHANGED <<waiters, earlier>>
       ELSE /\ waiters' = waiters \cup {c}
            /\ earlier' = [earlier EXCEPT ![c] = waiters]
            /\ pc' = [pc EXCEPT ![c] = "blocked"]
            /\ UNCHANGED active

-----------------------------------------------------------------------------
\* wait=False: LLMLeaseBusy unless the lease is free and nobody queues.
EnterOrGiveUp(c) ==
    /\ c \notin Patient
    /\ pc[c] = "outside"
    /\ IF active = NoCall /\ waiters = {}
       THEN active' = c /\ pc' = [pc EXCEPT ![c] = "holding"]
       ELSE UNCHANGED <<active, pc>>
    /\ UNCHANGED <<waiters, earlier>>

\* wait=True: join the queue behind all that are in it; run on without
\* suspending when the loop condition already lets this call through.
EnterOrQueue(c) ==
    /\ c \in Patient
    /\ pc[c] = "outside"
    /\ IF active = NoCall /\ IsFirst(c, waiters \cup {c}, earlier)
       THEN /\ active' = c
            /\ pc' = [pc EXCEPT ![c] = "holding"]
            /\ UNCHANGED <<waiters, earlier>>
       ELSE /\ waiters' = waiters \cup {c}
            /\ earlier' = [earlier EXCEPT ![c] = waiters]
            /\ pc' = [pc EXCEPT ![c] = "blocked"]
            /\ UNCHANGED active

\* A woken call re-evaluates the loop condition of _enter.
Resume(c) ==
    /\ pc[c] = "woken"
    /\ IF active = NoCall /\ IsFirst(c, waiters, earlier)
       THEN /\ Dequeue(c)
            /\ active' = c
            /\ pc' = [pc EXCEPT ![c] = "holding"]
       ELSE /\ pc' = [pc EXCEPT ![c] = "blocked"]
            /\ UNCHANGED <<waiters, active, earlier>>

\* CancelledError out of wait(): leave the queue and notify the others.
Cancel(c) ==
    /\ pc[c] \in {"blocked", "woken"}
    /\ Dequeue(c)
    /\ pc' = NotifyAll([pc EXCEPT ![c] = "outside"])
    /\ UNCHANGED active

\* The body ends, by return, exception or cancellation: _leave.
Leave(c) ==
    /\ pc[c] = "holding"
    /\ IF active = c
       THEN active' = NoCall /\ pc' = NotifyAll([pc EXCEPT ![c] = "outside"])
       ELSE pc' = [pc EXCEPT ![c] = "outside"] /\ UNCHANGED active
    /\ UNCHANGED <<waiters, earlier>>

Next ==
    \E c \in Calls :
        \/ EnterOrGiveUp(c)
        \/ EnterOrQueue(c)
        \/ Resume(c)
        \/ Cancel(c)
        \/ Leave(c)

\* The event loop runs every ready coroutine, and an inference call ends (it
\* has a timeout).  Nobody is obliged to ask for the lease or to cancel, and
\* anybody may come back for it for ever.
Fairness == \A c \in Calls : WF_vars(Resume(c)) /\ WF_vars(Leave(c))

Spec == Init /\ [][Next]_vars /\ Fairness

-----------------------------------------------------------------------------
\* At most one call is inside the leased section, and it is the one _active
\* names: LLM calls are serialised whatever is cancelled in the meantime.
OneHolder == \A c \in Calls : pc[c] = "holding" <=> active = c

\* A queued call is suspended or about to run, and nothing else is queued: a
\* cancelled call leaves no waiter behind that would block the queue forever.
QueueIsSuspended == \A c \in Calls : c \in waiters <=> pc[c] \in {"blocked", "woken"}

\* No lost wake-up: whenever the lease is free and somebody queues, the call
\* at the head of the queue has been woken.  Cancellation of a woken call,
\* which swallows its notification, must pass the wake-up on.
NoLostWakeup ==
    active = NoCall =>
        \A c \in Calls : IsFirst(c, waiters, earlier) => pc[c] = "woken"

\* While a call queues, only a more urgent call may get ahead of it: any other that
\* takes the lease before it was ahead of it already, whatever is cancelled and
\* whoever is woken first.
Ahead(c) == {d \in waiters : Before(d, c, earlier)}

NoOvertaking ==
    [][\A c \in waiters \cap waiters', d \in Calls :
        Priority[c] <= Priority[d] /\ d \notin Ahead(c) =>
            d \notin Ahead(c)' /\ (active' = d => active = d)]_vars

\* Nobody starves behind calls that are not more urgent: a queued call is served (or
\* cancelled) if from some time on no more urgent call asks, however the less urgent
\* ones and those of its own class come back for the lease without end.
Urgent(c) == {d \in Calls : Priority[d] < Priority[c]}
ServedUnlessUrgent ==
    \A c \in Patient :
        (c \in waiters /\ [](\A d \in Urgent(c) : pc[d] = "outside")) ~> c \notin waiters
=============================================================================
