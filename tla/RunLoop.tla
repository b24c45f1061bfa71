------------------------------- MODULE RunLoop -------------------------------
(***************************************************************************)
(* The closed-loop experiment runtime (orchestrator/langgraph_runtime.py,  *)
(* LangGraphRunLoop.run, step and _execute_agent_stage).                   *)
(*                                                                         *)
(* One asyncio task drives the run.  Every tick it executes the stage the  *)
(* shared state names: gates, approval, entry review, the owner (the agent *)
(* of the stage), the post-gate, and the routing of the owner's result     *)
(* through a once-only handoff checkpoint.  At every await operators may   *)
(* pause, resume, stop or resolve an approval; these requests write the    *)
(* same state object, so each action below ends where the code awaits and  *)
(* a later action must live with whatever happened in between.             *)
(***************************************************************************)
EXTENDS Naturals, FiniteSets

CONSTANTS
    Stages,        \* the stages that have an owner
    GUARDIAN,      \* Stage.GUARDIAN, the safety review that closes a cycle
    VISION,        \* Stage.VISION
    IDLE,          \* Stage.IDLE, before the first stage
    COMPLETE,      \* Stage.COMPLETE
    ERROR,         \* Stage.ERROR
    First,         \* next_stage("idle")
    Successors,    \* Successors[s]: the stages next_stage(s) may answer
    Physical,      \* stages whose failure is never retried automatically
    Fresh,         \* <<from, to>> that stay inside one observation task
    NeedsApproval, \* modules with safety.requires_human_approval
    Unstorable,    \* stages whose result may not be a JSON payload
    Supervised,    \* _supervision_declared
    MaxRetry,      \* retry.max_attempts
    MaxLoops,      \* BOUND: in cycle MaxLoops the Guardian ends the run
    SeriesCycle,   \* cycle_index of a planning series that is at its tail; 0: no series
    NoHandoff      \* no orchestrator_pending_handoff

Terminal == {COMPLETE, ERROR}

ASSUME StagesAssumption ==
    /\ {GUARDIAN, VISION, First} \subseteq Stages
    /\ GUARDIAN # VISION
    /\ {IDLE, COMPLETE, ERROR} \cap Stages = {}
    /\ IDLE \notin Terminal
ASSUME GraphAssumption ==
    /\ Successors \in [Stages -> SUBSET (Stages \cup Terminal)]
    /\ Fresh \subseteq (Stages \ {GUARDIAN}) \X Stages
\* The shipped graph has no edge from a physical stage to itself.
ASSUME PhysicalAssumption ==
    /\ Physical \subseteq Stages \ {GUARDIAN, VISION}
    /\ \A s \in Physical : s \notin Successors[s]
ASSUME PolicyAssumption ==
    /\ NeedsApproval \subseteq Stages
    /\ Unstorable \subseteq Stages
    /\ Supervised \in BOOLEAN
    /\ MaxRetry \in Nat
    /\ MaxLoops \in Nat
    /\ SeriesCycle \in Nat

\* What a handoff checkpoint keeps of a result: whose it is, its route, and
\* whether a review put it off.  A consumed record is no longer pending.
Handoffs == [stage : Stages, next : Stages \cup Terminal,
             status : {"prepared", "deferred"}]

ASSUME HandoffAssumption == NoHandoff \notin Handoffs

VARIABLES
    stage,         \* state.stage, written by the run and by operators
    node,          \* the stage argument of the running _execute_agent_stage
    pc,            \* where the run task is suspended: see PCs
    paused,        \* state.is_paused
    stopReq,       \* state.stop_requested
    safeReq,       \* state.safe_stop_requested
    estop,         \* state.emergency_stop_requested
    loop,          \* state.loop_count
    retries,       \* state.retry_counters
    pending,       \* the handoff record that waits to be consumed
    resumed,       \* routing was re-entered by a later tick
    hold,          \* orchestrator_observation_refresh: what waits for a recapture
    verdict,       \* the decision of the post-gate
    asked,         \* runtime_approvals: pending ...
    granted,       \*   ... approved ...
    refused,       \*   ... rejected or cancelled
    started,       \* history: the owner ran since the run entered the stage
    passes,        \* history: results of the Guardian consumed
    strays,        \* history: results of the Guardian counted but not stored
    lateStarts     \* history: owners started after a stop request (2 = more)

flags     == <<stopReq, safeReq, estop>>
approvals == <<asked, granted, refused>>
history   == <<started, passes, strays, lateStarts>>
vars == <<stage, node, pc, paused, flags, loop, retries, pending, resumed,
          hold, verdict, approvals, history>>

PCs == {"start",       \* run() has not emitted its first event
        "top",         \* between two ticks, or sleeping while paused
        "admitting",   \* follow-ups and hardware alerts, before the pre-gate
        "gated",       \* the pre-gate passed
        "entry",       \* approved: entry review and pre-execution steps
        "agent",       \* agent.run
        "settling",    \* post-gate decided, artifacts and events
        "routing",     \* the result is checkpointed, under review
        "announcing",  \* routed, events of the transition
        "failing",     \* an exception of the stage, before retry or ERROR
        "finished"}    \* the task is done

Verdicts == {"pass", "block", "safe_stop"}

TypeOK ==
    /\ stage \in Stages \cup Terminal \cup {IDLE}
    /\ node \in Stages
    /\ pc \in PCs
    /\ paused \in BOOLEAN /\ stopReq \in BOOLEAN /\ safeReq \in BOOLEAN
    /\ estop \in BOOLEAN /\ resumed \in BOOLEAN /\ started \in BOOLEAN
    /\ loop \in Nat /\ passes \in Nat /\ strays \in Nat /\ lateStarts \in 0..2
    /\ retries \in [Stages -> 0..MaxRetry]
    /\ pending \in Handoffs \cup {NoHandoff}
    /\ hold \in {"none", "entry", "result"}
    /\ verdict \in Verdicts
    /\ asked \cup granted \cup refused \subseteq NeedsApproval \X Nat

\* The cycles counted before this run.
LoopBefore == IF SeriesCycle = 0 THEN 0 ELSE SeriesCycle - 1

Init ==
    /\ stage = IDLE /\ node = First /\ pc = "start"
    /\ paused = FALSE /\ stopReq = FALSE /\ safeReq = FALSE /\ estop = FALSE
    /\ loop = LoopBefore /\ retries = [s \in Stages |-> 0]
    /\ pending = NoHandoff /\ resumed = FALSE /\ hold = "none" /\ verdict = "pass"
    /\ asked = {} /\ granted = {} /\ refused = {}
    /\ started = FALSE /\ passes = 0 /\ strays = 0 /\ lateStarts = 0

-----------------------------------------------------------------------------
(* Faulty variants, one per property, that the mutation runs put in place of *)
(* the definition they are named after.  No specification uses them.         *)

\* A pause is looked at before the stop request.
FinishUnlessPaused ==
    /\ pc = "top" /\ ~paused
    /\ stopReq \/ stage \in Terminal
    /\ stage' = IF stopReq THEN COMPLETE ELSE stage
    /\ pc' = "finished"
    /\ UNCHANGED <<node, paused, flags, loop, retries, pending, resumed, hold,
                   verdict, approvals, history>>

\* step() forgets the safe-stop flag.
StopStepOnEmergency ==
    /\ pc = "top" /\ ~stopReq /\ stage \notin Terminal /\ ~paused
    /\ estop
    /\ stage' = COMPLETE
    /\ UNCHANGED <<node, pc, paused, flags, loop, retries, pending, resumed,
                   hold, verdict, approvals, history>>

\* step() does not look at the stop flags.
DispatchDespiteStop ==
    /\ pc = "top" /\ ~stopReq /\ ~paused
    /\ stage \in Stages
    /\ node' = stage
    /\ pc' = "admitting"
    /\ UNCHANGED <<stage, paused, flags, loop, retries, pending, resumed, hold,
                   verdict, approvals, history>>

\* A recapture is admitted for any result that waits.
RefreshAnyResult ==
    /\ pc = "admitting"
    /\ ~(stopReq \/ safeReq \/ estop)
    /\ pending # NoHandoff
    /\ pending' = NoHandoff
    /\ hold' = "none"
    /\ stage' = VISION /\ started' = FALSE
    /\ pc' = "top" /\ UNCHANGED node
    /\ UNCHANGED <<paused, flags, loop, retries, resumed, verdict, approvals,
                   passes, strays, lateStarts>>

\* The stage is executed although a result waits.
PreGateDespiteResult ==
    /\ pc = "admitting"
    /\ pc' = "gated"
    /\ UNCHANGED <<stage, node, paused, flags, loop, retries, pending, resumed, hold,
                   verdict, approvals, history>>

\* The key of the approval does not name the cycle.
GateKeyOfStage == <<node, 0>>

\* A retry is not charged to the budget.
RetryUncharged ==
    /\ pc = "failing"
    /\ node \notin Physical /\ retries[node] < MaxRetry
    /\ pc' = "top" /\ UNCHANGED node
    /\ UNCHANGED <<stage, paused, flags, loop, retries, pending, resumed, hold, verdict,
                   approvals, history>>

\* Every review is counted, also in a planning series.
CountEveryReview == loop' = IF node = GUARDIAN THEN loop + 1 ELSE loop

\* A physical stage is retried like any other.
RetryAnyStage ==
    /\ pc = "failing"
    /\ retries[node] < MaxRetry
    /\ retries' = [retries EXCEPT ![node] = @ + 1]
    /\ pc' = "top" /\ UNCHANGED node
    /\ UNCHANGED <<stage, paused, flags, loop, pending, resumed, hold, verdict,
                   approvals, history>>

-----------------------------------------------------------------------------
\* What the code asks of the state.
StopRequested == stopReq \/ safeReq \/ estop

\* guardian_gate raises OPERATOR_STOP_REQUESTED for two of the three flags.
GateSeesStop == stopReq \/ safeReq

\* mandatory: next_stage in {GUARDIAN, COMPLETE, ERROR}
Mandatory(h) == h.next \in {GUARDIAN} \cup Terminal

\* reuse_observation_task
Reuses(h) == <<h.stage, h.next>> \in Fresh

\* Entries that belong to the observation task that captured their input.
FreshEntries == {e[2] : e \in Fresh} \ {VISION}

EndTick == pc' = "top" /\ UNCHANGED node

\* The run enters s: its owner has not run there yet.
Enter(s) == stage' = s /\ started' = FALSE

\* guardian_gate's decision: any alarm may block, a stop request always does.
GateDecides(v) == v \in Verdicts /\ (GateSeesStop => v = "safe_stop")

\* target_stage of a blocking gate
Diverted(v) == IF v = "safe_stop" THEN COMPLETE ELSE GUARDIAN

-----------------------------------------------------------------------------
(* The run task: run() and step().                                          *)

\* The pre-run gate.
PreRunGate ==
    /\ pc = "start"
    /\ \E v \in Verdicts :
        /\ GateDecides(v)
        /\ stage' = CASE v = "pass" -> stage
                      [] v = "block" -> ERROR
                      [] v = "safe_stop" -> COMPLETE
    /\ EndTick
    /\ UNCHANGED <<paused, flags, loop, retries, pending, resumed, hold,
                   verdict, approvals, history>>

\* The head of the while loop: a stop request is looked at before anything
\* else, a terminal stage before a pause.
Finish ==
    /\ pc = "top"
    /\ stopReq \/ stage \in Terminal
    /\ stage' = IF stopReq THEN COMPLETE ELSE stage
    /\ pc' = "finished"
    /\ UNCHANGED <<node, paused, flags, loop, retries, pending, resumed, hold,
                   verdict, approvals, history>>

MayStep == pc = "top" /\ ~stopReq /\ stage \notin Terminal /\ ~paused

\* step() with a safe or emergency stop requested.
StopStep ==
    /\ MayStep
    /\ safeReq \/ estop
    /\ stage' = COMPLETE
    /\ UNCHANGED <<node, pc, paused, flags, loop, retries, pending, resumed,
                   hold, verdict, approvals, history>>

\* _idle_node
IdleStep ==
    /\ MayStep
    /\ ~StopRequested
    /\ stage = IDLE
    /\ Enter(First)
    /\ UNCHANGED <<node, pc, paused, flags, loop, retries, pending, resumed, hold,
                   verdict, approvals, passes, strays, lateStarts>>

\* The graph dispatches state.stage; _execute_agent_stage drains the operator
\* follow-ups (events) before it decides anything.
DispatchStage ==
    /\ MayStep
    /\ ~StopRequested
    /\ stage \in Stages
    /\ node' = stage
    /\ pc' = "admitting"
    /\ UNCHANGED <<stage, paused, flags, loop, retries, pending, resumed, hold,
                   verdict, approvals, history>>

-----------------------------------------------------------------------------
(* Admission to a stage.                                                    *)

\* _apply_observation_refresh: which of the two holds is still in force.
HoldInForce ==
    /\ stage = node
    /\ \/ hold = "result" /\ pending # NoHandoff /\ pending.stage = stage
       \/ hold = "entry" /\ pending = NoHandoff /\ stage \in FreshEntries

\* The hold after that look: retired when it is no longer in force or its
\* observation is authorised again, left alone under a stop request.
HoldLookedAt ==
    IF StopRequested THEN {hold} ELSE {"none"} \cup (IF HoldInForce THEN {hold} ELSE {})

\* An operator asked for a recapture: only the routing of a held result is
\* retired (its checkpoint is consumed), and the run re-enters Vision.
RefreshObservation ==
    /\ pc = "admitting"
    /\ ~StopRequested
    /\ HoldInForce
    /\ pending' = NoHandoff
    /\ hold' = "none"
    /\ Enter(VISION)
    /\ EndTick
    /\ UNCHANGED <<paused, flags, loop, retries, resumed, verdict, approvals,
                   passes, strays, lateStarts>>

\* A completed result waits: only its routing is taken up again.
ResumeHandoff ==
    /\ pc = "admitting"
    /\ pending # NoHandoff
    /\ pc' = "routing"
    /\ resumed' = TRUE
    /\ hold' \in HoldLookedAt
    /\ UNCHANGED <<stage, node, paused, flags, loop, retries, pending, verdict,
                   approvals, history>>

\* The stage has no agent to run, or its generated adapter is not executable.
OwnerMissing ==
    /\ pc = "admitting"
    /\ pending = NoHandoff
    /\ stage' = ERROR
    /\ hold' \in HoldLookedAt
    /\ EndTick
    /\ UNCHANGED <<paused, flags, loop, retries, pending, resumed, verdict,
                   approvals, history>>

\* The pre-gate, which the Guardian's own stage ignores.
PreGate ==
    /\ pc = "admitting"
    /\ pending = NoHandoff
    /\ \E v \in Verdicts :
        /\ GateDecides(v)
        /\ IF v = "pass" \/ node = GUARDIAN
           THEN pc' = "gated" /\ UNCHANGED <<stage, started>>
           ELSE pc' = "top" /\ Enter(Diverted(v))
    /\ hold' \in HoldLookedAt
    /\ UNCHANGED <<node, paused, flags, loop, retries, pending, resumed, verdict,
                   approvals, passes, strays, lateStarts>>

\* _module_approval_ready.  The gate's key names the stage and the cycle.
GateKey == <<node, loop>>

Approved ==
    /\ pc = "gated"
    /\ node \in NeedsApproval => GateKey \in granted
    /\ pc' = "entry"
    /\ UNCHANGED <<stage, node, paused, flags, loop, retries, pending, resumed,
                   hold, verdict, approvals, history>>

AskApproval ==
    /\ pc = "gated"
    /\ node \in NeedsApproval
    /\ GateKey \notin granted \cup refused
    /\ asked' = asked \cup {GateKey}
    /\ paused' = TRUE
    /\ EndTick
    /\ UNCHANGED <<stage, flags, loop, retries, pending, resumed, hold, verdict,
                   granted, refused, history>>

Disapproved ==
    /\ pc = "gated"
    /\ node \in NeedsApproval
    /\ GateKey \in refused
    /\ stage' = ERROR
    /\ EndTick
    /\ UNCHANGED <<paused, flags, loop, retries, pending, resumed, hold, verdict,
                   approvals, history>>

\* _review_stage_entry answers False: the review did not prepare the entry, or
\* the observation behind a fresh entry is no longer authorised.
EntryHeld ==
    /\ pc = "entry"
    /\ Supervised
    /\ node # GUARDIAN
    /\ hold' \in {hold} \cup (IF node \in FreshEntries THEN {"entry"} ELSE {})
    /\ EndTick
    /\ UNCHANGED <<stage, paused, flags, loop, retries, pending, resumed, verdict,
                   approvals, history>>

\* The entry is admitted and the pre-execution steps are done: agent.run.
StartOwner ==
    /\ pc = "entry"
    /\ pc' = "agent"
    /\ started' = TRUE
    /\ lateStarts' = IF StopRequested /\ lateStarts < 2 THEN lateStarts + 1 ELSE lateStarts
    /\ hold' = IF node \in FreshEntries \cup {VISION} THEN "none" ELSE hold
    /\ UNCHANGED <<stage, node, paused, flags, loop, retries, pending, resumed,
                   verdict, approvals, passes, strays>>

-----------------------------------------------------------------------------
(* The owner's result.                                                      *)

\* agent.run returned a valid result; the post-gate is decided at once.
OwnerReturns ==
    /\ pc = "agent"
    /\ pc' = "settling"
    /\ verdict' \in Verdicts /\ GateDecides(verdict')
    /\ UNCHANGED <<stage, node, paused, flags, loop, retries, pending, resumed,
                   hold, approvals, history>>

\* _pause_for_vision_intervention and _pause_for_guardian_recovery: the result
\* is not a completion; the run waits in the stage for the operator.  Telling
\* him may itself fail.
PauseInStage ==
    /\ pc = "settling"
    /\ node \in {VISION, GUARDIAN}
    /\ stage' = node
    /\ paused' = TRUE
    /\ pc' \in {"top", "failing"} /\ UNCHANGED node
    /\ UNCHANGED <<flags, loop, retries, pending, resumed, hold, verdict,
                   approvals, history>>

\* The post-gate diverts the run; the result is not routed.
PostGateDiverts ==
    /\ pc = "settling"
    /\ node # GUARDIAN
    /\ verdict # "pass"
    /\ Enter(Diverted(verdict))
    /\ EndTick
    /\ UNCHANGED <<paused, flags, loop, retries, pending, resumed, hold, verdict,
                   approvals, passes, strays, lateStarts>>

Completed == pc = "settling" /\ (node = GUARDIAN \/ verdict = "pass")

\* record_guardian_completion: in a planning series the index of its cycle counts.
CountCycle ==
    loop' = CASE node # GUARDIAN -> loop
              [] node = GUARDIAN /\ SeriesCycle > 0 -> SeriesCycle
              [] node = GUARDIAN /\ SeriesCycle = 0 -> loop + 1

\* The result and its route are reserved in a new checkpoint.
RecordResult ==
    /\ Completed
    /\ CountCycle
    /\ \E next \in Successors[node] :
        /\ node = GUARDIAN /\ loop >= MaxLoops => next \in Terminal
        /\ pending' = [stage |-> node, next |-> next, status |-> "prepared"]
    /\ pc' = "routing"
    /\ resumed' = FALSE
    /\ UNCHANGED <<stage, node, paused, flags, retries, hold, verdict, approvals,
                   history>>

\* handoff_checkpoint refuses a payload that is not JSON (a NaN, a number of a
\* foreign type): the exception arrives after the Guardian's cycle is counted.
ResultNotStorable ==
    /\ Completed
    /\ node \in Unstorable
    /\ CountCycle
    /\ strays' = IF node = GUARDIAN THEN strays + 1 ELSE strays
    /\ pc' = IF stage # node THEN "top" ELSE "failing"
    /\ UNCHANGED <<stage, node, paused, flags, retries, pending, resumed, hold,
                   verdict, approvals, started, passes, lateStarts>>

-----------------------------------------------------------------------------
(* _resume_completed_handoff.                                               *)

\* A review asks the model before the route is consumed, unless the route is
\* mandatory or stays inside an admitted observation task.
Reviewed(h) == Supervised /\ ~Mandatory(h)

\* The observation behind a fresh route is stale: nothing is consumed.
HoldRoute ==
    /\ pc = "routing"
    /\ Reviewed(pending) /\ Reuses(pending)
    /\ hold' = "result"
    /\ EndTick
    /\ UNCHANGED <<stage, paused, flags, loop, retries, pending, resumed, verdict,
                   approvals, history>>

\* The review does not prepare the route, or finds the record deferred.
DeferRoute ==
    /\ pc = "routing"
    /\ \/ Reviewed(pending) /\ pending' = [pending EXCEPT !.status = "deferred"]
       \/ /\ pending.status = "deferred"
          /\ ~Reviewed(pending) \/ Reuses(pending)
          /\ UNCHANGED pending
    /\ EndTick
    /\ UNCHANGED <<stage, paused, flags, loop, retries, resumed, hold, verdict,
                   approvals, history>>

Prepared(h) == h.status = "prepared" \/ Reviewed(h)

AbandonRoute ==
    /\ pc = "routing"
    /\ Prepared(pending)
    /\ StopRequested
    /\ pending' = [pending EXCEPT !.status = "prepared"]
    /\ stage' = COMPLETE
    /\ EndTick
    /\ UNCHANGED <<paused, flags, loop, retries, resumed, hold, verdict, approvals,
                   history>>

\* The record is consumed and the stage committed without an await between.
CommitRoute ==
    /\ pc = "routing"
    /\ Prepared(pending)
    /\ ~StopRequested
    /\ Enter(pending.next)
    /\ pending' = NoHandoff
    /\ hold' = IF hold = "result" THEN "none" ELSE hold
    /\ passes' = IF pending.stage = GUARDIAN THEN passes + 1 ELSE passes
    /\ pc' = "announcing"
    /\ UNCHANGED <<node, paused, flags, loop, retries, resumed, verdict, approvals,
                   strays, lateStarts>>

Announced ==
    /\ pc = "announcing"
    /\ EndTick
    /\ UNCHANGED <<stage, paused, flags, loop, retries, pending, resumed, hold,
                   verdict, approvals, history>>

-----------------------------------------------------------------------------
(* Failures.                                                                *)

\* An exception inside the try block of _execute_agent_stage.  Once a result
\* waits, or the run has left the stage, it is only noted.
StageRaises ==
    /\ \/ pc \in {"entry", "agent", "settling"}
       \/ pc \in {"routing", "announcing"} /\ ~resumed
    /\ pc' = IF pending # NoHandoff \/ stage # node THEN "top" ELSE "failing"
    /\ UNCHANGED <<stage, node, paused, flags, loop, retries, pending, resumed,
                   hold, verdict, approvals, history>>

\* _automatic_stage_retry_allowed and should_retry
MayRetry == node \notin Physical /\ retries[node] < MaxRetry

RetryStage ==
    /\ pc = "failing"
    /\ MayRetry
    /\ retries' = [retries EXCEPT ![node] = @ + 1]
    /\ EndTick
    /\ UNCHANGED <<stage, paused, flags, loop, pending, resumed, hold, verdict,
                   approvals, history>>

FailRun ==
    /\ pc = "failing"
    /\ ~MayRetry
    /\ stage' = ERROR
    /\ EndTick
    /\ UNCHANGED <<paused, flags, loop, retries, pending, resumed, hold, verdict,
                   approvals, history>>

\* An exception outside that block (an event callback of the loop head, of the
\* gates, of a resumed route or of the failure path) ends the task.
RunRaises ==
    /\ \/ pc \in {"start", "top", "admitting", "gated", "failing"}
       \/ pc \in {"routing", "announcing"} /\ resumed
    /\ pc' = "finished"
    /\ UNCHANGED <<stage, node, paused, flags, loop, retries, pending, resumed,
                   hold, verdict, approvals, history>>

-----------------------------------------------------------------------------
(* Requests of operators, as far as the run task can see them.              *)

Active == pc # "finished"

Pause ==
    /\ Active
    /\ paused' = TRUE
    /\ UNCHANGED <<stage, node, pc, flags, loop, retries, pending, resumed, hold,
                   verdict, approvals, history>>

\* dispatch in app/resume_routing.py: refused under any stop request.
Resume ==
    /\ Active
    /\ paused
    /\ ~StopRequested
    /\ paused' = FALSE
    /\ UNCHANGED <<stage, node, pc, flags, loop, retries, pending, resumed, hold,
                   verdict, approvals, history>>

\* stop, safe_stop, and the first half of emergency_stop, which latches before
\* it awaits the replay to stop.
RequestStop ==
    /\ Active
    /\ \/ stopReq' = TRUE /\ UNCHANGED <<safeReq, estop>>
       \/ safeReq' = TRUE /\ UNCHANGED <<stopReq, estop>>
       \/ estop' = TRUE /\ UNCHANGED <<stopReq, safeReq>>
    /\ UNCHANGED <<stage, node, pc, paused, loop, retries, pending, resumed, hold,
                   verdict, approvals, history>>

\* The run task is cancelled, after the await in stop or in emergency_stop.  A
\* review under way defers its checkpoint.
CancelRun ==
    /\ Active
    /\ \/ stopReq /\ UNCHANGED <<stopReq, safeReq, paused>>
       \/ estop /\ stopReq' = TRUE /\ safeReq' = FALSE /\ paused' = FALSE
    /\ stage' = COMPLETE
    /\ pc' = "finished"
    /\ pending' = IF pc = "routing" /\ Reviewed(pending)
                  THEN [pending EXCEPT !.status = "deferred"] ELSE pending
    /\ UNCHANGED <<node, estop, loop, retries, resumed, hold, verdict, approvals,
                   history>>

\* app/controller.py, apply_runtime_approval_resolution (lines 2185-2232): an
\* approval is resolved once, and lifts the pause; a refusal moves the run to
\* ERROR.
Approve ==
    /\ Active
    /\ \E a \in asked :
        /\ asked' = asked \ {a}
        /\ granted' = granted \cup {a}
    /\ paused' = FALSE
    /\ UNCHANGED <<stage, node, pc, flags, loop, retries, pending, resumed, hold,
                   verdict, refused, history>>

Refuse ==
    /\ Active
    /\ \E a \in asked :
        /\ asked' = asked \ {a}
        /\ refused' = refused \cup {a}
    /\ paused' = FALSE
    /\ stage' = ERROR
    /\ UNCHANGED <<node, pc, flags, loop, retries, pending, resumed, hold, verdict,
                   granted, history>>

-----------------------------------------------------------------------------
Tick == PreRunGate \/ Finish \/ StopStep \/ IdleStep \/ DispatchStage

Admission ==
    \/ RefreshObservation \/ ResumeHandoff \/ OwnerMissing \/ PreGate \/ Approved
    \/ AskApproval \/ Disapproved \/ EntryHeld \/ StartOwner

Settlement ==
    \/ OwnerReturns \/ PauseInStage \/ PostGateDiverts \/ RecordResult
    \/ ResultNotStorable

Routing == HoldRoute \/ DeferRoute \/ AbandonRoute \/ CommitRoute \/ Announced

Failure == StageRaises \/ RetryStage \/ FailRun

RunTask == Tick \/ Admission \/ Settlement \/ Routing \/ Failure

Operator == Pause \/ Resume \/ RequestStop \/ CancelRun \/ Approve \/ Refuse

Next == RunTask \/ RunRaises \/ Operator

\* The event loop runs the task whenever it can go on; an owner returns or
\* raises.  Nothing obliges an operator, or a cancellation, to come.
Spec == Init /\ [][Next]_vars /\ WF_vars(RunTask)

-----------------------------------------------------------------------------
\* While a result waits for its route nothing else runs: no owner is working,
\* and the run stays in the result's stage or has ended.  This is what keeps a
\* deferred review, a stop or a late failure from losing or repeating work.
ResultHoldsTheRun ==
    pending # NoHandoff =>
        /\ pc \in {"top", "admitting", "routing", "finished"}
        /\ stage \in {pending.stage} \cup Terminal

\* A physical owner (printer, robot, UTM) runs at most once each time the run
\* enters its stage, whatever fails, is deferred, paused or resumed after it.
NoPhysicalReplay ==
    [][pc # "agent" /\ pc' = "agent" /\ node \in Physical => ~started]_vars

\* Guardian results that were counted: consumed, refused by the checkpoint, waiting.
Counted ==
    passes + strays + (IF pending # NoHandoff /\ pending.stage = GUARDIAN THEN 1 ELSE 0)

\* loop_count counts completed cycles, whatever is held, deferred, retried or given
\* up: in a planning series the series' own index, however often its Guardian
\* completes; in a run of its own one per Guardian result.  The only result counted
\* without completing a cycle is one the checkpoint refuses, and each of those costs
\* a retry of the Guardian or ends the run.
CyclesNotAttempts ==
    /\ loop = IF SeriesCycle = 0 THEN Counted
              ELSE IF Counted = 0 THEN LoopBefore ELSE SeriesCycle
    /\ strays <= retries[GUARDIAN] + 1

\* The same, as cycle_progress.py says it: a Guardian result is not counted
\* again while the run is still at it.
NoRecount == loop <= passes + 1

\* An owner whose module requires approval runs only with the operator's
\* approval for this stage in this very cycle.
OnlyApprovedOwnersRun ==
    pc \in {"entry", "agent"} /\ node \in NeedsApproval => <<node, loop>> \in granted

\* After a stop request at most one more owner starts: the one whose tick had
\* begun, never the owner of a later stage or a retry.
AtMostOneLateStart == lateStarts <= 1

\* The loop implements the owners' turns: a result is held, then routed once to
\* a successor; the turn of a physical owner never becomes due again.
InTick == pc \in {"admitting", "gated", "entry", "agent", "settling", "routing", "failing"}

TurnAt == IF InTick THEN node ELSE IF stage \in Terminal \/ pc = "finished" THEN COMPLETE ELSE stage

TurnWork ==
    IF TurnAt = COMPLETE THEN "due"
    ELSE IF pending # NoHandoff THEN "held"
    ELSE IF \/ pc \in {"agent", "settling"}
            \/ pc = "failing" /\ started /\ node \in Physical
         THEN "running" ELSE "due"

Turn == INSTANCE OwnerTurn WITH at <- TurnAt, work <- TurnWork, OVER <- COMPLETE
TakesTurns == Turn!Spec

\* Under a stop request every step of the run task takes it nearer to its end, and
\* nobody takes it back: StepsLeft bounds the steps that are left.
StepsLeft ==
    CASE pc = "finished"   -> 0
      [] pc = "top"        -> IF stage \in Terminal THEN 1 ELSE 2
      [] pc = "start"      -> 3
      [] pc = "failing"    -> 3
      [] pc = "announcing" -> 4
      [] pc = "routing"    -> 5
      [] pc = "settling"   -> 6
      [] pc = "agent"      -> 7
      [] pc = "entry"      -> 8
      [] pc = "gated"      -> 9
      [] pc = "admitting"  -> 10

StopNearsEnd ==
    [][StopRequested => /\ StopRequested'
                        /\ StepsLeft' <= StepsLeft
                        /\ RunTask \/ RunRaises => StepsLeft' < StepsLeft]_vars

\* A stop request ends the run even while it is paused.
StopEndsRun == stopReq ~> pc = "finished"

\* A safe stop ends the run, unless the run is paused.
SafeStopEndsRunOrPauses == safeReq ~> pc = "finished" \/ paused

\* docs/runtime/agent_program_baseline.md: after safe-stop the "loop transitions
\* to complete via safe-stop branch".
SafeStopEndsRun == safeReq ~> pc = "finished"

\* docs/runtime/langgraph_runtime.md: an approval "rejected or cancelled moves
\* the run to error"; nothing but a stop may take the run out of it.
RefusalMovesRunToError == refused # {} => stage \in Terminal
=============================================================================
