---------------------------- MODULE TeleopHandoff ----------------------------
(***************************************************************************)
(* The transfer of a specimen by the operator: the registry of handoffs    *)
(* (utils/operator_teleop_handoff.py), the web handlers that start, stop   *)
(* and confirm a teleoperation session for one (app/main.py), and the      *)
(* cancellation of a run's handoffs (app/controller.py).                   *)
(*                                                                         *)
(* The registry's operations are atomic (its lock, one event loop).  A     *)
(* session is started and stopped on other threads: between the start of   *)
(* its process and its binding to the handoff anything may happen.  The    *)
(* run that waits for a handoff is PlanningTail.                           *)
(*                                                                         *)
(* A start may also be asked for without a handoff, at the bench, or with  *)
(* only one of the token and the run id; such a session is left to the     *)
(* operator: the handler binds it to nothing and does not stop it.         *)
(***************************************************************************)
EXTENDS Naturals, FiniteSets

CONSTANTS
    Transfers,     \* the handoffs (tokens) one run may create
    Sessions,      \* teleoperation sessions, each started at most once
    Requests,      \* what a request for a session may name: a handoff, or none
    NoTransfer,    \* no handoff
    NoSession      \* no teleop_session_id

ASSUME NamesAssumption == NoTransfer \notin Transfers /\ NoSession \notin Sessions
ASSUME RequestAssumption == Requests \subseteq Transfers \cup {NoTransfer}

VARIABLES
    status,        \* record["status"], "none" before create
    bound,         \* record["teleop_session_id"]
    session,       \* the bridge's session and what its stop released
    scope,         \* the handoff the request for the session names in full
    call,          \* where the start handler of the session is
    stranded       \* sessions whose stop was tried and failed

vars == <<status, bound, session, scope, call, stranded>>

\* "blocked" and "confirmed" are Vision's answers.
Statuses == {"none", "pending", "operator_confirmed", "confirmed", "blocked",
             "cancelled"}
Final == {"confirmed", "blocked", "cancelled"}

TypeOK ==
    /\ status \in [Transfers -> Statuses]
    /\ bound \in [Transfers -> Sessions \cup {NoSession}]
    /\ session \in [Sessions -> {"unused", "active", "stopped", "released"}]
    /\ scope \in [Sessions -> Transfers \cup {NoTransfer}]
    /\ call \in [Sessions -> {"none", "starting", "binding", "undoing"}]
    /\ stranded \subseteq Sessions
    /\ \A s \in Sessions :
        /\ call[s] = "starting" => session[s] = "unused"
        /\ call[s] \in {"binding", "undoing"} => session[s] # "unused"
        /\ call[s] = "undoing" => scope[s] \in Transfers

Init ==
    /\ status = [h \in Transfers |-> "none"]
    /\ bound = [h \in Transfers |-> NoSession]
    /\ session = [s \in Sessions |-> "unused"]
    /\ scope = [s \in Sessions |-> NoTransfer]
    /\ call = [s \in Sessions |-> "none"]
    /\ stranded = {}

-----------------------------------------------------------------------------
(* Faulty variants, one per property, that the mutation runs put in place of *)
(* the definition they are named after.  No specification uses them.         *)

\* The last session to be bound replaces the one before it.
MayBindAnother(s) == status[scope[s]] = "pending"

\* A confirmation is taken from any stopped session.
ConfirmStopped(h) ==
    /\ status[h] = "pending"
    /\ bound[h] # NoSession
    /\ session[bound[h]] \in {"stopped", "released"}
    /\ status' = [status EXCEPT ![h] = "operator_confirmed"]
    /\ UNCHANGED <<bound, session, scope, call, stranded>>

\* The handoff that Vision has already judged is cancelled as well.
OpenUnlessCancelled == {h \in Transfers : status[h] \notin {"none", "cancelled"}}

-----------------------------------------------------------------------------
(* The run.                                                                 *)

\* create: a new token for each handoff.
Create(h) ==
    /\ status[h] = "none"
    /\ status' = [status EXCEPT ![h] = "pending"]
    /\ UNCHANGED <<bound, session, scope, call, stranded>>

\* attach_vision_verification: Vision's evidence is judged once.
Attach(h, ok) ==
    /\ status[h] = "operator_confirmed"
    /\ status' = [status EXCEPT ![h] = IF ok THEN "confirmed" ELSE "blocked"]
    /\ UNCHANGED <<bound, session, scope, call, stranded>>

\* _cancel_operator_teleop_handoffs: every open handoff is cancelled and its
\* session stopped; stopping those in failing raises, which is only noted.
Open == {h \in Transfers : status[h] \in {"pending", "operator_confirmed"}}
BoundTo(H) == {bound[h] : h \in H} \cap Sessions

StopAll(S) == [s \in Sessions |-> IF s \in S /\ session[s] = "active"
                                  THEN "stopped" ELSE session[s]]

Cancel(failing) ==
    /\ failing \subseteq {s \in BoundTo(Open) : session[s] = "active"}
    /\ status' = [h \in Transfers |-> IF h \in Open THEN "cancelled" ELSE status[h]]
    /\ session' = StopAll(BoundTo(Open) \ failing)
    /\ stranded' = stranded \cup failing
    /\ UNCHANGED <<bound, scope, call>>

-----------------------------------------------------------------------------
(* The handlers of the operator's popup.                                    *)

\* bind_session takes the first session of a handoff that is still pending.
MayBind(s) == status[scope[s]] = "pending" /\ bound[scope[s]] \in {s, NoSession}

\* A faulty variant of BindRefused: the handler does not stop the session that
\* the registry refuses.
BindRefusedOnly(s) ==
    /\ call[s] = "binding" /\ scope[s] # NoTransfer
    /\ ~MayBind(s)
    /\ call' = [call EXCEPT ![s] = "none"]
    /\ UNCHANGED <<status, bound, session, scope, stranded>>

\* A popup asks for a session, for handoff h or for none; nothing looks at the
\* handoff yet.
AskStart(s, h) ==
    /\ call[s] = "none" /\ session[s] = "unused" /\ scope[s] = NoTransfer
    /\ h # NoTransfer => status[h] # "none"
    /\ scope' = [scope EXCEPT ![s] = h]
    /\ call' = [call EXCEPT ![s] = "starting"]
    /\ UNCHANGED <<status, bound, session, stranded>>

\* The bridge starts the process, or refuses.
Launch(s) ==
    /\ call[s] = "starting"
    /\ \/ /\ session' = [session EXCEPT ![s] = "active"]
          /\ call' = [call EXCEPT ![s] = "binding"]
       \/ /\ session' = session
          /\ call' = [call EXCEPT ![s] = "none"]
    /\ UNCHANGED <<status, bound, scope, stranded>>

\* bind_session, by the handler that started the session.
Bind(s) ==
    /\ call[s] = "binding" /\ scope[s] # NoTransfer
    /\ MayBind(s)
    /\ bound' = [bound EXCEPT ![scope[s]] = s]
    /\ call' = [call EXCEPT ![s] = "none"]
    /\ UNCHANGED <<status, session, scope, stranded>>

\* The handoff is consumed, or has another session.
BindRefused(s) ==
    /\ call[s] = "binding" /\ scope[s] # NoTransfer
    /\ ~MayBind(s)
    /\ call' = [call EXCEPT ![s] = "undoing"]
    /\ UNCHANGED <<status, bound, session, scope, stranded>>

\* A request without a handoff is answered with the session; one that names half of
\* it with 409 TELEOP_HANDOFF_BINDING_INVALID.  Either way the session goes on.  (The
\* third ground of that 409 does not arise: an answer of the bridge that is ok names
\* its session.)
AnswerUnbound(s) ==
    /\ call[s] = "binding" /\ scope[s] = NoTransfer
    /\ call' = [call EXCEPT ![s] = "none"]
    /\ UNCHANGED <<status, bound, session, scope, stranded>>

\* The handler stops the session it could not bind; the stop may fail.
Undo(s) ==
    /\ call[s] = "undoing"
    /\ call' = [call EXCEPT ![s] = "none"]
    /\ \/ session' = StopAll({s}) /\ UNCHANGED stranded
       \/ /\ session[s] = "active"
          /\ stranded' = stranded \cup {s}
          /\ UNCHANGED session
    /\ UNCHANGED <<status, bound, scope>>

\* The operator stops the session, or its process ends.
Stop(s) ==
    /\ session[s] = "active"
    /\ session' = [session EXCEPT ![s] = "stopped"]
    /\ UNCHANGED <<status, bound, scope, call, stranded>>

\* _teleoperate_release_contract: the port is free and the camera is back.
Release(s) ==
    /\ session[s] = "stopped"
    /\ session' = [session EXCEPT ![s] = "released"]
    /\ UNCHANGED <<status, bound, scope, call, stranded>>

\* confirm, with the status of the bound session read in the same handler
\* without an await between.
Confirm(h) ==
    /\ status[h] = "pending"
    /\ bound[h] # NoSession
    /\ session[bound[h]] = "released"
    /\ status' = [status EXCEPT ![h] = "operator_confirmed"]
    /\ UNCHANGED <<bound, session, scope, call, stranded>>

-----------------------------------------------------------------------------
Handler(s) ==
    Launch(s) \/ Bind(s) \/ BindRefused(s) \/ AnswerUnbound(s) \/ Undo(s)

Popup ==
    \/ \E s \in Sessions : Handler(s) \/ Stop(s) \/ Release(s)
    \/ \E s \in Sessions, h \in Requests : AskStart(s, h)
    \/ \E h \in Transfers : Confirm(h)

Run ==
    \/ \E h \in Transfers : Create(h) \/ \E ok \in BOOLEAN : Attach(h, ok)
    \/ \E failing \in SUBSET Sessions : Cancel(failing)

Next == Popup \/ Run

Safe == Init /\ [][Next]_vars

\* A handler that was called goes on: the bridge answers or times out.
Spec == Safe /\ \A s \in Sessions : WF_vars(Handler(s))

-----------------------------------------------------------------------------
\* A session that no handler holds any more teleoperates only for its pending
\* handoff: it is the one bound to it.  The exceptions are sessions whose stop
\* was tried and failed, and those that were asked for without a handoff or with
\* half of one.
SessionsContained ==
    \A s \in Sessions :
        /\ session[s] = "active" /\ call[s] = "none" /\ s \notin stranded
        /\ scope[s] # NoTransfer
        => status[scope[s]] = "pending" /\ bound[scope[s]] = s

\* A handoff counts as transferred only when its own session has given the
\* robot's port and the camera back.
ConfirmedIsReleased ==
    \A h \in Transfers : status[h] \in {"operator_confirmed", "confirmed", "blocked"} =>
        bound[h] \in Sessions /\ session[bound[h]] = "released"

\* A concluded handoff keeps its conclusion: a late stop does not cancel what
\* Vision has judged, and nothing is judged after it was cancelled.
ConclusionStands ==
    [][\A h \in Transfers : status[h] \in Final => status'[h] = status[h]]_vars

\* The session of a popup that named its handoff and outlived it is stopped, or known
\* not to be.
StraySessionEnds ==
    \A s \in Sessions, h \in Transfers :
        session[s] = "active" /\ scope[s] = h /\ status[h] \in Final
            ~> session[s] # "active" \/ s \in stranded

\* Every session that no handler holds is bound to a pending handoff or known not to
\* have stopped.  It does not hold: a request that names half of its handoff is
\* refused (main.py, post_lerobot_teleoperate_start) and its session goes on, like
\* one that the operator asked for at the bench.
NoLooseSession ==
    \A s \in Sessions :
        session[s] = "active" /\ call[s] = "none" /\ s \notin stranded =>
            \E h \in Transfers : status[h] = "pending" /\ bound[h] = s
=============================================================================
