----------------------------- MODULE PlanningTail -----------------------------
(***************************************************************************)
(* The rest of a cycle started from the planning chat, after its specimen  *)
(* is made: app/controller.py, _run_planning_loop_tail.  Instead of run()  *)
(* it calls RunLoop's step() until the Guardian has reviewed the cycle or  *)
(* the run ends, and between two steps it                                  *)
(*   - waits while a result or an entry is held by a review,               *)
(*   - asks the operator to carry the specimen over by teleoperation when  *)
(*     Manipulation only did its preflight, and has Vision verify it,      *)
(*   - holds, or ends, when the step left the run paused.                  *)
(*                                                                         *)
(* The steps are RunLoop's actions between two "top"s, the transfers those *)
(* of TeleopHandoff; this module adds the tail between them.               *)
(***************************************************************************)
EXTENDS RunLoop

CONSTANTS
    DESIGN,        \* Stage.DESIGN, where the next cycle begins
    MANIPULATION,  \* Stage.MANIPULATION
    EQUIPMENT,     \* Stage.EQUIPMENT
    TailStart,     \* the stage after the specimen's
    Hybrid,        \* _hybrid_operator_teleop_required
    LastCycle,     \* cycle_index >= total_cycles
    Transfers, Sessions, Requests, NoTransfer, NoSession   \* as in TeleopHandoff

ASSUME TailAssumption ==
    /\ {DESIGN, MANIPULATION, EQUIPMENT, TailStart} \subseteq Stages
    /\ Cardinality({DESIGN, MANIPULATION, EQUIPMENT, VISION, GUARDIAN}) = 5
    /\ TailStart # DESIGN
    /\ Hybrid \in BOOLEAN /\ LastCycle \in BOOLEAN
ASSUME RegistryAssumption ==
    /\ NoTransfer \notin Transfers /\ NoSession \notin Sessions
    /\ Requests \subseteq Transfers \cup {NoTransfer}

VARIABLES
    tail,          \* where _run_planning_loop_tail is suspended: see TailPCs
    before,        \* before_stage
    entry,         \* orchestrator_waiting_entry: by a review, for a new capture
    captured,      \* orchestrator_observation_task belongs to this cycle
    help,          \* stages whose intervention record says "waiting"
    review,        \* the decision in guardian_payload
    token,         \* the handoff that is waited for, then active_teleop_handoff_token
    owed,          \* history: the transfer of a Manipulation that ran: see Debts
    status, bound, session, scope, call, stranded   \* TeleopHandoff

Registry == INSTANCE TeleopHandoff

records  == <<status, bound, session, scope, call, stranded>>
judgment == <<help, review, owed>>
entering == <<entry, captured>>
tailVars == <<tail, before, entering, judgment, token>>
tvars    == <<vars, tailVars, records>>

TailPCs == {"begin",       \* the tail has not set its first stage
            "top",         \* the head of its loop
            "stepping",    \* in step(), pc says where
            "stepped",     \* step() has returned
            "waiting",     \* in _wait_for_operator_teleop_handoff
            "holding",     \* in _wait_for_vision_intervention_resume
            "ended"}

Decisions == {"continue", "stop", "error"}

Debts == {"none",      \* none has run, or Vision has verified its transfer
          "due",       \* it is due: no question of an earlier entry stood then or since
          "slipped"}   \* an owner was admitted while such a question stood

TailTypeOK ==
    /\ TypeOK
    /\ Registry!TypeOK
    /\ tail \in TailPCs
    /\ before \in Stages \cup Terminal \cup {IDLE}
    /\ entry \in {"no", "review", "capture"}
    /\ captured \in BOOLEAN
    /\ help \subseteq {VISION, GUARDIAN}
    /\ review \in Decisions \cup {"none"}
    /\ token \in Transfers \cup {NoTransfer}
    /\ owed \in Debts
    /\ tail = "begin" => pc = "start"
    /\ tail \in {"top", "stepped", "waiting", "holding"} => pc = "top"
    /\ tail = "stepping" => pc \notin {"start", "top", "finished"}
    /\ tail = "waiting" => token # NoTransfer

TailInit ==
    /\ Init
    /\ Registry!Init
    /\ tail = "begin" /\ before = IDLE /\ entry = "no" /\ captured = FALSE
    /\ help = {} /\ review = "none" /\ owed = "none"
    /\ token = NoTransfer

-----------------------------------------------------------------------------
\* The run task stays where it is between two steps of the tail, except for
\* the stage and the pause that the tail itself writes.
Rest == UNCHANGED <<node, pc, flags, loop, retries, pending, resumed, hold,
                    verdict, approvals, passes, strays, lateStarts>>

Halt == stage' = COMPLETE /\ tail' = "ended" /\ UNCHANGED <<paused, started>>

Fail == stage' = ERROR /\ tail' = "ended" /\ UNCHANGED started

-----------------------------------------------------------------------------
(* Faulty variants, one per property, that the mutation runs put in place of *)
(* the definition they are named after.  No specification uses them.         *)

\* Only a held entry keeps the tail at its step.
HeldEntry == entry # "no"

\* A stop leaves the wait without cancelling the handoff.
TransferStoppedQuietly ==
    /\ tail = "waiting"
    /\ StopRequested \/ status[token] = "cancelled"
    /\ Fail
    /\ paused' = FALSE
    /\ Rest
    /\ UNCHANGED <<before, entering, judgment, token, records>>

\* The token of the handoff is not kept.
OpenTransferUnnamed ==
    /\ tail = "stepped" /\ ~StopRequested /\ entry = "no" /\ pending = NoHandoff
    /\ Hybrid /\ before = MANIPULATION /\ stage \notin Terminal
    /\ \E h \in Transfers : Registry!Create(h)
    /\ paused' = TRUE
    /\ tail' = "waiting"
    /\ Rest
    /\ UNCHANGED <<stage, started, before, entering, judgment, token>>

\* After the transfer the run goes on where the graph had chosen.
TransferConfirmedGoesOn ==
    /\ tail = "waiting"
    /\ status[token] = "operator_confirmed"
    /\ paused' = FALSE
    /\ tail' = "top"
    /\ Rest
    /\ UNCHANGED <<stage, started, before, entering, judgment, token, records>>

\* The wait for help looks at one of the three flags.
HaltHoldingOnStop ==
    /\ tail = "holding"
    /\ paused /\ stopReq
    /\ Halt
    /\ Rest
    /\ UNCHANGED <<before, entering, judgment, token, records>>

-----------------------------------------------------------------------------
(* The head of the loop.                                                    *)

BeginTail ==
    /\ tail = "begin"
    /\ IF StopRequested
       THEN stage' = COMPLETE /\ tail' = "ended" /\ UNCHANGED <<pc, started>>
       ELSE Enter(TailStart) /\ tail' = "top" /\ pc' = "top"
    /\ UNCHANGED <<node, paused, flags, loop, retries, pending, resumed, hold,
                   verdict, approvals, passes, strays, lateStarts, before, entering, judgment,
                   token, records>>

\* step(): a stop request completes the run, a terminal stage does nothing,
\* any other stage is dispatched, paused or not.
BeginStep ==
    /\ tail = "top"
    /\ before' = stage
    /\ \/ /\ StopRequested
          /\ stage' = COMPLETE /\ tail' = "stepped" /\ UNCHANGED <<node, pc>>
       \/ /\ ~StopRequested /\ stage \in Terminal
          /\ tail' = "stepped" /\ UNCHANGED <<stage, node, pc>>
       \/ /\ ~StopRequested /\ stage \in Stages
          /\ node' = stage /\ pc' = "admitting"
          /\ tail' = "stepping" /\ UNCHANGED stage
    /\ UNCHANGED <<paused, flags, loop, retries, pending, resumed, hold, verdict,
                   approvals, history, entering, judgment, token, records>>

\* The budget of steps is spent (how many it has is left open).
OutOfSteps ==
    /\ tail = "top"
    /\ pc' = "finished" /\ tail' = "ended"
    /\ UNCHANGED <<stage, node, paused, flags, loop, retries, pending, resumed, hold,
                   verdict, approvals, history, before, entering, judgment, token, records>>

-----------------------------------------------------------------------------
(* step(): RunLoop's actions, with what they do to the records the tail      *)
(* looks at.                                                                *)

Returns == tail' = IF pc' = "top" THEN "stepped" ELSE "stepping"

\* The hold for a capture goes together with the entry that waits for it; a
\* recapture forgets the observation.
StepAdmits ==
    /\ \/ RefreshObservation /\ entry' = "no" /\ captured' = FALSE
       \/ /\ ResumeHandoff \/ OwnerMissing \/ PreGate
          /\ entry' = IF entry = "capture" /\ hold = "entry" /\ hold' = "none"
                      THEN "no" ELSE entry
          /\ UNCHANGED captured
    /\ UNCHANGED judgment

\* The entry waits for a new capture, or for its review.
Consumes == node \in FreshEntries /\ captured

StepHoldsEntry ==
    /\ EntryHeld
    /\ \/ Consumes /\ hold' = "entry" /\ entry' = "capture"
       \/ ~Consumes /\ UNCHANGED hold /\ entry' = "review"
    /\ UNCHANGED <<captured, judgment>>

\* _review_stage_entry admits an entry as part of the observation, or after a
\* review.  Only the review, and the retired hold for a capture, take back what
\* had waited: a question stays if what it was asked about changed back
\* (authorization_scope) before it was answered.
Observed == captured /\ node \in FreshEntries \cup {VISION}

EntryAdmitted ==
    \/ /\ ~Supervised \/ node = GUARDIAN
       /\ UNCHANGED entering
    \/ /\ Supervised /\ Observed
       /\ entry' = IF entry = "capture" THEN "no" ELSE entry
       /\ UNCHANGED captured
    \/ /\ Supervised /\ node # GUARDIAN /\ ~Consumes
       /\ entry' = "no"
       /\ captured' = (captured \/ node = VISION)

\* What is owed once this owner is admitted, past an earlier question or not.
DebtAfter(past) ==
    LET carries == Hybrid /\ node = MANIPULATION
    IN CASE carries \/ (past /\ owed = "due") -> IF past THEN "slipped" ELSE "due"
         [] OTHER -> owed

StepStarts ==
    /\ StartOwner
    /\ EntryAdmitted
    /\ owed' = DebtAfter(node # GUARDIAN /\ entry' # "no")
    /\ UNCHANGED <<help, review>>

\* planning_runtime_event keeps the decision of a Guardian result.
StepPauses ==
    /\ PauseInStage
    /\ help' = help \cup {node}
    /\ review' = IF node = GUARDIAN THEN "continue" ELSE review
    /\ UNCHANGED <<entering, owed>>

DecisionOf(next) ==
    CASE next = COMPLETE -> "stop" [] next = ERROR -> "error" [] OTHER -> "continue"

StepSettles ==
    /\ RecordResult
    /\ help' \in {help \ {node}} \cup (IF node = VISION THEN {help} ELSE {})
    /\ review' = IF node = GUARDIAN THEN DecisionOf(pending'.next) ELSE review
    /\ captured' = (captured /\ loop' = loop)
    /\ UNCHANGED <<entry, owed>>

StepFails ==
    /\ ResultNotStorable \/ StageRaises
    /\ review' \in {review} \cup
                   (IF pc = "settling" /\ node = GUARDIAN THEN Decisions ELSE {})
    /\ \/ UNCHANGED entry /\ captured' = (captured /\ loop' = loop)
       \/ pc = "entry" /\ EntryAdmitted
    /\ UNCHANGED <<help, owed>>

StepOn ==
    /\ \/ Approved \/ AskApproval \/ Disapproved \/ OwnerReturns \/ PostGateDiverts
       \/ Routing \/ RetryStage \/ FailRun
    /\ UNCHANGED <<entering, judgment>>

Step ==
    /\ tail = "stepping"
    /\ \/ StepAdmits \/ StepHoldsEntry \/ StepStarts \/ StepPauses \/ StepSettles
       \/ StepFails \/ StepOn
    /\ Returns
    /\ UNCHANGED <<before, token, records>>

StepRaises ==
    /\ tail = "stepping"
    /\ RunRaises
    /\ tail' = "ended"
    /\ UNCHANGED <<before, entering, judgment, token, records>>

-----------------------------------------------------------------------------
(* After a step.                                                            *)

\* halt_for_control_flag
HaltAfterStep ==
    /\ tail = "stepped"
    /\ StopRequested
    /\ Halt
    /\ Rest
    /\ UNCHANGED <<before, entering, judgment, token, records>>

Held == pending # NoHandoff \/ entry # "no"

\* A result or an entry waits: nothing else is looked at.
StepAgain ==
    /\ tail = "stepped"
    /\ ~StopRequested
    /\ Held
    /\ tail' = "top"
    /\ UNCHANGED <<vars, before, entering, judgment, token, records>>

Ready == tail = "stepped" /\ ~StopRequested /\ ~Held

NeedsTransfer == Hybrid /\ before = MANIPULATION /\ stage \notin Terminal

OpenTransfer ==
    /\ Ready /\ NeedsTransfer
    /\ \E h \in Transfers : Registry!Create(h) /\ token' = h
    /\ paused' = TRUE
    /\ tail' = "waiting"
    /\ Rest
    /\ UNCHANGED <<stage, started, before, entering, judgment>>

\* EXTERNAL_SPECIMEN_MATERIALIZATION_REQUIRED
TransferRefused ==
    /\ Ready /\ NeedsTransfer
    /\ Fail
    /\ Rest
    /\ UNCHANGED <<paused, before, entering, judgment, token, records>>

\* The operator confirmed: Vision is next, whatever stage the step had chosen.
TransferConfirmed ==
    /\ tail = "waiting"
    /\ status[token] = "operator_confirmed"
    /\ IF stage = VISION THEN UNCHANGED <<stage, started>> ELSE Enter(VISION)
    /\ paused' = FALSE
    /\ tail' = "top"
    /\ Rest
    /\ UNCHANGED <<before, entering, judgment, token, records>>

\* A stop ends the wait; whoever sees it first cancels the handoff.
TransferStopped ==
    /\ tail = "waiting"
    /\ \/ StopRequested /\ \E failing \in SUBSET Sessions : Registry!Cancel(failing)
       \/ status[token] = "cancelled" /\ UNCHANGED records
    /\ Fail
    /\ paused' = FALSE
    /\ Rest
    /\ UNCHANGED <<before, entering, judgment, token>>

NeedsEvidence ==
    before = VISION /\ token # NoTransfer /\ status[token] = "operator_confirmed"

EvidenceFails ==
    /\ Ready /\ ~NeedsTransfer /\ NeedsEvidence
    /\ Registry!Attach(token, FALSE)
    /\ Fail
    /\ Rest
    /\ UNCHANGED <<paused, before, entering, judgment, token>>

\* Vision verified the transfer, if this was the step that had to.
Passed ==
    /\ Ready /\ ~NeedsTransfer
    /\ IF NeedsEvidence
       THEN Registry!Attach(token, TRUE) /\ owed' = "none"
       ELSE UNCHANGED <<records, owed>>
    /\ UNCHANGED <<before, entering, help, review, token>>

\* A paused step: the tail holds for Vision's and the Guardian's questions, and
\* ends for anything else.
HoldForHelp ==
    /\ Passed
    /\ paused /\ stage \in help
    /\ tail' = "holding"
    /\ UNCHANGED vars

EndPaused ==
    /\ Passed
    /\ paused /\ stage \notin help
    /\ tail' = "ended"
    /\ UNCHANGED vars

HelpArrives ==
    /\ tail = "holding"
    /\ ~paused
    /\ tail' = "top"
    /\ UNCHANGED <<vars, before, entering, judgment, token, records>>

HaltHolding ==
    /\ tail = "holding"
    /\ paused /\ StopRequested
    /\ Halt
    /\ Rest
    /\ UNCHANGED <<before, entering, judgment, token, records>>

CycleOver == before = GUARDIAN \/ stage \in {DESIGN} \cup Terminal

\* Without a payload the decision defaults to "continue".
Ending ==
    CASE stage = ERROR \/ review = "error" -> ERROR
      [] stage = COMPLETE /\ review = "none" -> COMPLETE
      [] OTHER -> IF LastCycle \/ review = "stop" THEN COMPLETE ELSE DESIGN

EndCycle ==
    /\ Passed
    /\ ~paused /\ CycleOver
    /\ Enter(Ending)
    /\ tail' = "ended"
    /\ Rest
    /\ UNCHANGED paused

GoOn ==
    /\ Passed
    /\ ~paused /\ ~CycleOver
    /\ tail' = "top"
    /\ UNCHANGED vars

-----------------------------------------------------------------------------
(* The operator.                                                            *)

\* Pause, resume and the flags of a stop while the tail is active; approvals
\* are resolved whether it is or not.
Request ==
    /\ \/ tail # "ended" /\ (Pause \/ Resume \/ RequestStop)
       \/ Approve \/ Refuse
    /\ UNCHANGED <<tailVars, records>>

\* stop and safe_stop after their await.
StopCancels ==
    /\ StopRequested
    /\ \E failing \in SUBSET Sessions : Registry!Cancel(failing)
    /\ UNCHANGED <<vars, tailVars>>

\* emergency_stop after its await: the handoffs, then the task.
EmergencyEnds ==
    /\ tail # "ended" /\ estop
    /\ CancelRun /\ stopReq' /\ ~safeReq' /\ ~paused'
    /\ \E failing \in SUBSET Sessions : Registry!Cancel(failing)
    /\ tail' = "ended"
    /\ UNCHANGED <<before, entering, judgment, token>>

Teleoperate == Registry!Popup /\ UNCHANGED <<vars, tailVars>>

-----------------------------------------------------------------------------
AfterStep ==
    \/ HaltAfterStep \/ StepAgain \/ OpenTransfer \/ TransferRefused
    \/ EvidenceFails \/ HoldForHelp \/ EndPaused \/ EndCycle \/ GoOn

InWait == TransferConfirmed \/ TransferStopped \/ HelpArrives \/ HaltHolding

TailTask == BeginTail \/ BeginStep \/ Step \/ AfterStep \/ InWait

TailNext ==
    \/ TailTask \/ OutOfSteps \/ StepRaises
    \/ Request \/ StopCancels \/ EmergencyEnds \/ Teleoperate

TailSafe == TailInit /\ [][TailNext]_tvars

\* As in RunLoop: the task goes on where it can, operators owe nothing.
TailSpec == TailSafe /\ WF_tvars(TailTask)

-----------------------------------------------------------------------------
\* While the operator teleoperates for a handoff the tail waits for that very
\* handoff, so no owner moves a device; the exceptions are sessions that are
\* being started or undone, or that could not be stopped.  Sessions asked for
\* without a handoff, or with half of one, are nobody's (NoLooseSession).
OperatorAndOwnersApart ==
    \A s \in Sessions :
        /\ session[s] = "active" /\ call[s] = "none" /\ s \notin stranded
        /\ scope[s] # NoTransfer
        => tail = "waiting" /\ scope[s] = token

\* The test machine does not run before the operator has confirmed the transfer
\* and Vision has verified it, whatever is retried, approved, held or diverted,
\* unless an owner was admitted past the question of an earlier entry.
EquipmentAfterTransfer ==
    pc \in {"agent", "settling"} /\ node = EQUIPMENT => owed # "due"

\* docs/runtime/test_mode.md: a virtual manipulation before real equipment
\* "still requires" the operator's transfer: the same without the exception.
TransferBeforeEquipment ==
    pc \in {"agent", "settling"} /\ node = EQUIPMENT => owed = "none"

\* A stop ends the tail wherever it is.
StopEndsTail == StopRequested ~> tail = "ended"

\* Under a stop request every step of the tail takes it nearer to its end, also out of
\* its two waits: TailStepsLeft bounds the steps that are left.
TailStepsLeft ==
    CASE tail = "ended"                  -> 0
      [] tail \in {"begin", "stepped"}   -> 1
      [] tail = "top"                    -> 2
      [] tail \in {"waiting", "holding"} -> 3
      [] tail = "stepping"               -> 1 + StepsLeft

StopNearsTailEnd ==
    [][StopRequested => /\ StopRequested'
                        /\ TailStepsLeft' <= TailStepsLeft
                        /\ TailTask => TailStepsLeft' < TailStepsLeft]_tvars

\* docs/runtime/guardian_graphwide_safety.md: a block routes "to Guardian
\* review/recovery before continuing".
BlockedWorkIsReviewed ==
    [][stage = GUARDIAN /\ stage' \notin {GUARDIAN} \cup Terminal => node = GUARDIAN]_stage

\* controller.py: the tail either reaches the Guardian or a terminal stage, or
\* raises.
TerminalEndsTail == stage \in Terminal ~> tail = "ended"

\* docs/runtime/langgraph_runtime.md: an approval "approved resumes the same
\* stage"; what may prevent it is a stop, another pause, or an exception that
\* ends the task.
ApprovalResumes ==
    \A s \in NeedsApproval :
        stage = s /\ <<s, loop>> \in granted
            ~> stage # s \/ pc \in {"agent", "finished"} \/ StopRequested \/ paused

\* docs/runtime/guardian_graphwide_safety.md: the Guardian "owns the loop-level
\* decision".
NextCycleIsReviewed == tail = "ended" /\ stage = DESIGN => review # "none"
=============================================================================
