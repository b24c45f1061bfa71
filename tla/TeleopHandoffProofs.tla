------------------------ MODULE TeleopHandoffProofs ------------------------
(* Safety of the handoff registry and its sessions, for any handoffs and    *)
(* any number of sessions.                                                  *)
EXTENDS TeleopHandoff, TLAPS

\* The three are inductive together: that a stopped or stranded session is out
\* of the way of a later one rests on where its handler is (TypeOK).
RegistryInv ==
    /\ TypeOK
    /\ SessionsContained
    /\ ConfirmedIsReleased

LEMMA RegistryInit == Init => RegistryInv
  BY NamesAssumption
  DEF Init, RegistryInv, TypeOK, Statuses, SessionsContained, ConfirmedIsReleased

\* A stop leaves a released session released and no stopped session active.
LEMMA StopAllStops ==
    ASSUME TypeOK, NEW S \in SUBSET Sessions
    PROVE  /\ StopAll(S) \in [Sessions -> {"unused", "active", "stopped", "released"}]
           /\ \A s \in Sessions : StopAll(S)[s] = "active" <=> session[s] = "active" /\ s \notin S
           /\ \A s \in Sessions : StopAll(S)[s] = "released" <=> session[s] = "released"
           /\ \A s \in Sessions : StopAll(S)[s] = "unused" <=> session[s] = "unused"
  BY DEF TypeOK, StopAll

LEMMA RegistryStep == RegistryInv /\ [Next]_vars => RegistryInv'
<1> SUFFICES ASSUME RegistryInv, [Next]_vars PROVE RegistryInv'
  OBVIOUS
<1> USE NamesAssumption
<1> USE DEF RegistryInv
<1>1. ASSUME NEW s \in Sessions, Launch(s) PROVE RegistryInv'
  BY <1>1 DEF Launch, TypeOK, Statuses, SessionsContained, ConfirmedIsReleased
<1>2. ASSUME NEW s \in Sessions, Bind(s) PROVE RegistryInv'
  <2>1. /\ scope[s] \in Transfers
        /\ status[scope[s]] = "pending"
        /\ bound' = [bound EXCEPT ![scope[s]] = s]
        /\ call' = [call EXCEPT ![s] = "none"]
        /\ UNCHANGED <<status, session, scope, stranded>>
        /\ bound[scope[s]] \in {s, NoSession}
    BY <1>2 DEF Bind, MayBind, TypeOK
  <2>2. TypeOK'
    BY <2>1 DEF TypeOK
  <2>3. SessionsContained'
    BY <2>1 DEF TypeOK, SessionsContained
  <2>4. ConfirmedIsReleased'
    BY <2>1 DEF TypeOK, ConfirmedIsReleased
  <2> QED BY <2>2, <2>3, <2>4
<1>3. ASSUME NEW s \in Sessions, BindRefused(s) PROVE RegistryInv'
  BY <1>3 DEF BindRefused, TypeOK, Statuses, SessionsContained, ConfirmedIsReleased
<1>4. ASSUME NEW s \in Sessions, Undo(s) PROVE RegistryInv'
  <2>1. CASE session' = StopAll({s}) /\ UNCHANGED stranded
    BY <1>4, <2>1, StopAllStops
    DEF Undo, TypeOK, Statuses, SessionsContained, ConfirmedIsReleased
  <2>2. CASE stranded' = stranded \cup {s} /\ UNCHANGED session
    BY <1>4, <2>2
    DEF Undo, TypeOK, Statuses, SessionsContained, ConfirmedIsReleased
  <2> QED BY <1>4, <2>1, <2>2 DEF Undo
<1>5. ASSUME NEW s \in Sessions, Stop(s) PROVE RegistryInv'
  BY <1>5 DEF Stop, TypeOK, Statuses, SessionsContained, ConfirmedIsReleased
<1>6. ASSUME NEW s \in Sessions, Release(s) PROVE RegistryInv'
  BY <1>6 DEF Release, TypeOK, Statuses, SessionsContained, ConfirmedIsReleased
<1>7. ASSUME NEW s \in Sessions, NEW h \in Requests, AskStart(s, h) PROVE RegistryInv'
  BY <1>7, RequestAssumption DEF AskStart, TypeOK, Statuses, SessionsContained, ConfirmedIsReleased
<1>8. ASSUME NEW h \in Transfers, Confirm(h) PROVE RegistryInv'
  BY <1>8 DEF Confirm, TypeOK, Statuses, SessionsContained, ConfirmedIsReleased
<1>9. ASSUME NEW h \in Transfers, Create(h) PROVE RegistryInv'
  BY <1>9 DEF Create, TypeOK, Statuses, SessionsContained, ConfirmedIsReleased
<1>10. ASSUME NEW h \in Transfers, NEW ok \in BOOLEAN, Attach(h, ok) PROVE RegistryInv'
  BY <1>10 DEF Attach, TypeOK, Statuses, SessionsContained, ConfirmedIsReleased
<1>11. ASSUME NEW failing \in SUBSET Sessions, Cancel(failing) PROVE RegistryInv'
  <2> DEFINE S == BoundTo(Open) \ failing
  <2>1. S \in SUBSET Sessions
    BY DEF BoundTo
  <2>2. /\ session' = StopAll(S)
        /\ stranded' = stranded \cup failing
        /\ UNCHANGED <<bound, scope, call>>
        /\ status' \in [Transfers -> Statuses]
        /\ \A h \in Transfers : h \in Open => status'[h] = "cancelled"
        /\ \A h \in Transfers : h \notin Open => status'[h] = status[h]
    BY <1>11 DEF Cancel, TypeOK, Statuses
  <2>3. TypeOK'
    BY <2>1, <2>2, StopAllStops DEF TypeOK
  <2>4. SessionsContained'
    <3> SUFFICES ASSUME NEW s \in Sessions, session'[s] = "active",
                        call'[s] = "none", s \notin stranded', scope'[s] # NoTransfer
                 PROVE  FALSE
      BY DEF SessionsContained
    <3>1. session[s] = "active" /\ s \notin S
      BY <2>1, <2>2, StopAllStops
    <3>2. /\ scope[s] \in Transfers
          /\ scope[s] \in Open
          /\ bound[scope[s]] = s
      BY <2>2, <3>1 DEF SessionsContained, Open, TypeOK
    <3>3. s \in BoundTo(Open)
      BY <3>2 DEF BoundTo
    <3> QED BY <2>2, <3>1, <3>3
  <2>5. ConfirmedIsReleased'
    BY <2>1, <2>2, StopAllStops DEF ConfirmedIsReleased, TypeOK
  <2> QED BY <2>3, <2>4, <2>5
<1>12. ASSUME NEW s \in Sessions, AnswerUnbound(s) PROVE RegistryInv'
  BY <1>12 DEF AnswerUnbound, TypeOK, Statuses, SessionsContained, ConfirmedIsReleased
<1>13. ASSUME UNCHANGED vars PROVE RegistryInv'
  BY <1>13 DEF vars, TypeOK, SessionsContained, ConfirmedIsReleased
<1> QED
  BY <1>1, <1>2, <1>3, <1>4, <1>5, <1>6, <1>7, <1>8, <1>9, <1>10, <1>11, <1>12, <1>13
  DEF Next, Popup, Run, Handler

LEMMA RegistryInvariant == Safe => []RegistryInv
  BY RegistryInit, RegistryStep, PTL DEF Safe

\* Every variable keeps its type, and a start handler its session
\* (main.py, post_lerobot_teleoperate_start).
THEOREM RegistryTypes == Safe => []TypeOK
  BY RegistryInvariant, PTL DEF RegistryInv

\* No session that was asked for a handoff teleoperates once that is not pending, or
\* beside the one bound to it, when its handler has returned and unless stopping it
\* failed; sessions asked for without one are the operator's own.
THEOREM SessionsAreContained == Safe => []SessionsContained
  BY RegistryInvariant, PTL DEF RegistryInv

\* What the operator confirmed was done by a session that has released the port
\* and the camera.
THEOREM ConfirmationIsReleased == Safe => []ConfirmedIsReleased
  BY RegistryInvariant, PTL DEF RegistryInv

\* A step leaves concluded handoffs alone.
LEMMA ConclusionStep ==
    ASSUME TypeOK, [Next]_vars, NEW h \in Transfers, status[h] \in Final
    PROVE  status'[h] = status[h]
  <1> USE DEF Final, TypeOK
  <1>1. ASSUME NEW s \in Sessions, Handler(s) \/ Stop(s) \/ Release(s)
        PROVE  status' = status
    BY <1>1 DEF Handler, Launch, Bind, BindRefused, AnswerUnbound, Undo, Stop, Release
  <1>2. ASSUME NEW s \in Sessions, NEW g \in Requests, AskStart(s, g)
        PROVE  status' = status
    BY <1>2 DEF AskStart
  <1>3. ASSUME NEW g \in Transfers, Confirm(g) \/ Create(g) \/ \E ok \in BOOLEAN : Attach(g, ok)
        PROVE  status'[h] = status[h]
    BY <1>3 DEF Confirm, Create, Attach
  <1>4. ASSUME NEW failing \in SUBSET Sessions, Cancel(failing)
        PROVE  status'[h] = status[h]
    BY <1>4 DEF Cancel, Open
  <1> QED
    BY <1>1, <1>2, <1>3, <1>4 DEF Next, Popup, Run, vars

\* What Vision judged is not cancelled afterwards, and a cancelled handoff is
\* neither confirmed nor judged (cancel_run, confirm, attach).
THEOREM ConclusionsStand == Safe => ConclusionStands
<1>1. TypeOK /\ [Next]_vars =>
        [\A h \in Transfers : status[h] \in Final => status'[h] = status[h]]_vars
  BY ConclusionStep
<1> QED
  BY <1>1, RegistryTypes, PTL DEF Safe, ConclusionStands
=============================================================================
