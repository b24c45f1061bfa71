# A verification of the autonomous researcher's core

The repository drives a closed-loop experiment: design a specimen, print it,
let a camera check it, a robot move it, a tensile machine test it, and a
Guardian review the outcome before the next cycle. This directory holds TLA+
modules of the parts of the program whose correctness depends on ordering:
what runs at the same time as what, what an operator may do in between, what
happens when something fails half-way. TLC checks them on small instances;
TLAPS proves the most important statements for every instance.

Read `RunLoop.tla` first. Paths below are relative to the repository.

## The system and its parts

| Part | State it keeps | Operations | What makes it hard |
|---|---|---|---|
| Run loop: `orchestrator/langgraph_runtime.py`, `handoff_boundary.py`, `orchestrator_checkpoint.py`, `cycle_progress.py`, `state.py` | `OrchestratorState`: stage, pause and stop flags, `loop_count`, retry counters, the pending handoff, approvals | `run`, `step`, `_execute_agent_stage`, `_resume_completed_handoff`, retries | one task that awaits in some thirty places while operators write the same object; a failure after the work is done; a result that must be routed exactly once |
| Operators' requests: `app/resume_routing.py`, `app/controller.py` | the same object | pause, resume, stop, safe stop, emergency stop, approve, refuse | arrive at any await |
| LLM lease: `backends/llm_lease.py` | `_waiters`, `_active`, tickets | enter, wait, leave | cancellation of a call that was already woken |
| Compute pool: `utils/compute_pool.py`, `compute_worker.py` | a semaphore, three counters, the events that cancel, workers, an executor | submit, run, exchange, close | three kinds of threads, two locks, processes that may not answer |
| Handoff review: `orchestrator/handoff_boundary.py` | reviews and operators' replies | review, revise, defer | replies that arrive while a review runs |
| PLC safety bridge: `utils/plc_bridge_service.py`, `plc_safety_state.py`, the emergency latch in `app/controller.py` | three registers of the ladder, the latch and its sources on both sides, a transaction on disk | poll, handshake, deferred resume, reconcile, `sync_estop`, preflight, connect, restart; emergency stop, resume, reset | two latches that must agree over awaits, failed writes, two tasks and a thread, and a crash |
| UTM clear cycle: `utils/utm_clear_cycle.py`; managed replay: `device_bridges/lerobot/bridge.py` | the execution record of a scope; a session and a process that moves the arm | decide, start, poll, capture, review, stop | a start in a worker thread which no cancellation reaches; stops from four places |
| Device job queue: `experiments/job_queue.py` | a lock, a counter and a history per device | `submit_sync`, `status` | threads overtake each other |
| Hardware alerts: `utils/hardware_alert_lifecycle.py` | alerts of the run, health of each device | record, reconcile, refresh | reports older than the alert they would resolve |
| Teleop handoff: `utils/operator_teleop_handoff.py`, the handlers in `app/main.py`, the sessions in `device_bridges/lerobot/bridge.py` | a record per handoff, a session per teleoperation | create, bind, confirm, verify, cancel; start, stop, release | a stop between two of the operator's steps; a session that starts when its handoff is gone |
| Planning tail: `app/controller.py`, `_run_planning_loop_tail` | locals: the stage before the step, the handoff's token, the Guardian's payload; it writes stage and pause | step, wait for a transfer, wait for help, verify, end the cycle | guesses from the stage before and after a step what the step did; waits on records that operators, reviews and the popup change |
| Delivery ledger: `knowledge/delivery.py` | receipts of what was retrieved, delivered, excluded and used, one file under a lock | `record_retrieved`, `record_delivered`, `record_excluded`, `record_used` | processes that rewrite one file; a receipt that arrives before the one it rests on |
| Run recovery: `app/run_recovery.py` | the checkpoint of a run that stopped in error | save, verify, restore | a checkpoint that is stale or damaged; work on devices must not be repeated |
| Guardian's gate rules: `policies/guardian_gate.py` | none | classify a payload | volume, not ordering |
| Agents, drivers, simulators, front ends | their own | outside the loop | the loop sees their results and exceptions |

How they meet. The run loop's task executes one stage at a time and calls the
agent that owns it. The agent asks models through the lease and numerical work
through the pool. The web application's handlers run on the same event loop as
the run's task and change the run through the controller. A gate before and
after every owner may divert the run; a review between two stages may defer the
route. Hardware alerts are what the gates mostly block on.

A cycle started from the planning chat does not use `run`. After the specimen is
made the planning tail calls the loop's `step` itself and, when the robot's part
is to be done by the operator, opens a teleop handoff between two steps. The
operator answers in a popup, whose handlers change the registry and the bridge's
sessions while the tail polls the record.

Three things stop machines without asking the loop. The PLC's emergency word is
polled by a task and watched by a thread; either latches the Controller, which
cancels the run, and only the ladder's own release, acknowledged over the
registers, lets the Controller go again. A run that ends in an error writes that
word itself. And every stop asks the robot's bridge to end its replays, through
the same worker threads and the same lock of the bridge as a start of one.

What must hold of each:

* run loop: a result is not lost and not routed twice; a physical stage does not
  act twice; a cycle is counted once; an owner that needs approval has it for this
  cycle; a stop ends the run, soon;
* lease: one holder, no lost wake-up, the Guardian's call is served;
* pool: permits are not lost, an answer goes to the job that asked, everybody who
  waits is answered, close leaves nothing behind;
* PLC bridge: service and Controller agree on what is latched; a latch that
  the Controller has confirmed survives a restart; the release is verified and done once; the word reaches the Controller;
  every handshake ends;
* clear cycle: the arm sweeps once, moves only while the clear is pending, and every
  stop ends it; a clear that is done left the machine empty;
* device queue: one job at a time on a device, jobs in order, none starved;
* alerts: only a report that is newer than the last sign of a fault resolves it;
* teleop: no stage after the transfer without the operator's confirmation and
  fresh visual evidence; no session asked for a handoff survives it;
* planning tail: an owner and the operator never move the devices at the same
  time; a stop ends it; the cycle it hands on was reviewed;
* ledger: no receipt is lost, and none says more than the receipt it rests on;
* recovery: a restart does not repeat a physical action.

`PROJECT.json` lists for each part how far it is modelled, and the hazards at
the lines where they bite.

## The modules

| Module | Models | Checked with | Proved in |
|---|---|---|---|
| `RunLoop` | the run's task and the requests that reach it | `MCRunLoop` (5 configurations) | `RunLoopProofs` |
| `OwnerTurn` | what the loop promises about owners; `RunLoop` refines it | as property `TakesTurns` | `RunLoopProofs` |
| `LLMLease` | `LLMLeaseCoordinator` | `MCLLMLease` (2 configurations) | `LLMLeaseProofs` |
| `ComputePool` | `ComputePool`, `_Worker` and the worker's process | `MCComputePool` (3 configurations) | `ComputePoolProofs` |
| `TeleopHandoff` | the registry, the popup's handlers, the cancellation of a run's handoffs | `MCTeleopHandoff` (3 configurations) | `TeleopHandoffProofs` |
| `PlanningTail` | `_run_planning_loop_tail`; extends `RunLoop`, steps `TeleopHandoff` | `MCPlanningTail` (8 configurations) | `PlanningTailProofs` |
| `PlcBridge` | the service's poll and `sync_estop`, the monitor thread, the transaction on disk, the Controller's latch | `MCPlcBridge` (6 configurations) | `PlcBridgeProofs` |
| `ClearCycle` | the clear's visits, the bridge's replay session behind its start lock, every stop | `MCClearCycle` (4 configurations) | `ClearCycleProofs` |
| `HardwareAlerts` | the alerts of the printers, their readers, the refresh before a gate | `MCHardwareAlerts` (2 configurations) | `HardwareAlertsProofs` |

Each module names next to its variables the fields they stand for. Definitions
under the heading "Faulty variants" belong to no specification: each is a
plausible bug in one action, there to show that the property it breaks depends on
the code it replaces.

### RunLoop

An action ends where the code awaits, because that is where an operator's
request can be handled. `pc` names the await: `top` between ticks, `admitting`
while follow-ups and alerts are looked at, `gated` after the pre-gate, `entry`
during the entry review, `agent` while the owner works, `settling` after the
post-gate, `routing` while a recorded result is reviewed, `announcing` after the
commit, `failing` in the exception path.

| Action | Code |
|---|---|
| `PreRunGate`, `Finish`, `StopStep`, `IdleStep`, `DispatchStage` | `run` and `step` |
| `RefreshObservation`, `ResumeHandoff`, `OwnerMissing`, `PreGate` | `_execute_agent_stage` up to the gate |
| `Approved`, `AskApproval`, `Disapproved` | `_module_approval_ready` |
| `EntryHeld`, `StartOwner` | `_review_stage_entry`, pre-execution steps, `agent.run` |
| `OwnerReturns`, `PauseInStage`, `PostGateDiverts`, `RecordResult`, `ResultNotStorable` | the result, its gate and its checkpoint |
| `HoldRoute`, `DeferRoute`, `AbandonRoute`, `CommitRoute`, `Announced` | `_resume_completed_handoff` |
| `StageRaises`, `RetryStage`, `FailRun`, `RunRaises` | the `except` clauses, and what they do not cover |
| `Pause`, `Resume`, `RequestStop`, `CancelRun`, `Approve`, `Refuse` | the controller and `resume_routing` |

Left to nondeterminism: a gate gives any verdict, except that it must block when
it sees a stop request; a review may answer anything; an owner may return, ask
for the operator, or raise. More than the code can do: routing always suspends
(it does not when no review is asked), the two kinds of hold do not carry the
scope they were made for, and the look at a hold and the pre-gate are one step.
Left out: approvals that a gate queues for a single tool; what the controller
does after the task itself raised.

`CountCycle` is `record_guardian_completion` with both its branches. `SeriesCycle` is the
cycle index of the planning series whose tail runs: then a completion sets
`loop_count` to it. With 0 the run belongs to no series (`run`, started by itself) and
each completion adds one.

Four history variables (`started`, `passes`, `strays`, `lateStarts`) exist only for
the properties; `strays` counts the Guardian's results that were counted and then
refused by the checkpoint.

### OwnerTurn

Two variables: where the run is, and whether the owner's work there is due,
running or held. A held result is routed once, to a successor; work of a
physical owner that has run does not become due again. `RunLoop` maps `pc`, the
pending handoff and `started` to it. The refinement is what rules out, at once,
every path by which a retry, a pause, a recapture, a failure after the commit or a
late cancellation could repeat or skip an owner.

### LLMLease

Everything between two suspensions of a coroutine is one step; a call that was
notified is "woken", and may be overtaken or cancelled before it runs. Tickets are only
compared between calls that queue, so what is kept of them is which queued call came
earlier (`earlier`). A call may thus come back for the lease without end.

### ComputePool

A step is what one thread does under the pool's lock, or between two uses of it.
`submit` keeps the lock while it hands the job to the executor (`locked`), and
shutdown keeps the executor's lock while it withdraws queued jobs (`draining`):
the two orders in which the locks are taken are both in the model. Who waits on
a future is woken before the future's callback runs (`settled` before
`released`). A future may be done before it has a callback (`dropped`), and then
the submitter's own thread runs it. The interpreter process of a worker
(`alive`, `inbox`, `outbox`) may answer, stay silent or die. The executor and its
futures are Python's, modelled from how the pool uses them. The release of the permit
is one step with the locked part of the same callback; the counters of
completed and failed jobs are left out.

### TeleopHandoff

An operation of the registry is one step: it holds the registry's lock, and all
its callers run on one event loop. What is not one step is the start of a
session. The popup asks (`AskStart`), the bridge starts the process on another
thread (`Launch`), and only then is the session bound to the handoff (`Bind`) or,
if the handoff was consumed or has a session already, stopped (`BindRefused`,
`Undo`). `Requests` is what a request may name. One that names no handoff, or only
half of one (a token without a run or a run without a token), is answered without being
bound or stopped (`AnswerUnbound`); the answer to the second kind is 409 all the same.
That a session's answer has no session id, the third ground for that 409, cannot be:
`_session_response` always writes it. A session ends when the operator stops it or its process does (`Stop`),
and what the confirmation asks for is that the port and the camera are given back
(`Release`). `Confirm` reads the session's status and writes the record without an
await in between. `Cancel` is the controller's: all open handoffs are
cancelled and their sessions stopped, and a stop that fails is noted in
`stranded`, a set the code does not keep: it writes the failure into a copy
of the record. A handoff's token names its run, so runs need no variable.

### PlanningTail

The module extends `RunLoop` and adds what is around its ticks: `Step` is
any of `RunLoop`'s actions between two `top`s, with what it does to the records the
tail looks at, and the variables of the tail change between the steps.

| `tail` | Code | Left by |
|---|---|---|
| `begin` | before the first stage is set | `BeginTail` |
| `top` | the head of the `while` | `BeginStep`, `OutOfSteps` |
| `stepping` | in `await loop.step()` | `Step`, `StepRaises` |
| `stepped` | the code after it, in its order: stop, held result, transfer, evidence, pause, end | `HaltAfterStep`, `StepAgain`, `OpenTransfer`, `TransferRefused`, `EvidenceFails`, `HoldForHelp`, `EndPaused`, `EndCycle`, `GoOn` |
| `waiting` | `_wait_for_operator_teleop_handoff` | `TransferConfirmed`, `TransferStopped` |
| `holding` | `_wait_for_vision_intervention_resume` | `HelpArrives`, `HaltHolding` |

`entry` and `captured` refine what `RunLoop` leaves open of
`_review_stage_entry`: which question (`orchestrator_waiting_entry`) is asked, and
which admission takes it back. An entry of Vision that belongs to an observation
already admitted is not reviewed again, and leaves an older question where it
is; that happens when an input of `authorization_scope` changes and changes back, as
the mode does when `POST /api/bo/run` writes it. `owed` is history: whether a
Manipulation's transfer is due, and whether an owner was admitted past such an older
question (`slipped`). `Registry` is `TeleopHandoff`, instantiated on the module's
own variables; the tail changes them through its actions only.

Assumed: the Guardian is among the tail's stages. Left open: how many steps the
tail may take (`OutOfSteps` at any head of the loop). Left out: chat messages, the
steps that Vision's polls do not count, and the series of cycles around the tail,
which after `EndCycle` would design the next specimen.

### PlcBridge

A step runs from one await to the next. `plc` is what the ladder shows:
`<<D100, D101, D102>>`, the command, the emergency word and the acknowledgement.
`poll.at` names where the poll task waits, with the snapshot in its hand
(`poll.seen`); `sync` where the `sync_estop` of a run that failed does. Both take
the state-machine lock, and `Holding` lists where the poll has it. A snapshot is
read before the lock is taken and judged after, so it may be old when it is judged
(`PollReads`, then `Observe`).

| Actions | Code |
|---|---|
| `PollReads`, `PollReadsGarbled`, `Observe`, `EstopReturns`, `ObserveEnsured` | `_poll_loop`, `_read_snapshot`, `_observe_snapshot_locked`, `_ensure_estop` |
| `Assert`, `AssertReads`, `Undo` | `_start_handshake` |
| `Lower`, `LowerReads`, `Expire`, `ExpireReads`, `Finish` | `_advance_handshake`, `_complete_released_handshake` |
| `Reassert`, `ReassertReads` | `_fail_recovery` |
| `RetryReads` | the deferred resume |
| `Clear`, `ClearReads` | `_reconcile_uncertain_handshake` |
| `SyncAcquire`, `SyncLatched`, `SyncRefused`, `SyncWrites`, `SyncReads` | `_ensure_estop` and the rest of `_sync_estop_locked` |
| `FastStop`, `FastRearm` | `_fast_stop_monitor_loop`, `request_plc_fast_stop` |
| `GuiStop`, `GuiStopReturns`, `GuiRecovery`, `RaiseTerminal`, `StartRun`, `EndRun` | the Controller |
| `Preflight`, `PreflightFails`, `Disconnect`, `Connect`, `Restart` | the PLC page; the process |
| `PressPB1`, `PressPB2`, `LadderClears` | buttons and ladder, the environment |

Every access to the registers may fail (`WriteFails`, `ReadFails`), and a write that
fails may have taken effect. `tx` is what `_persist_transaction` writes; a restart
keeps `plc` and `tx` and nothing else. `hist` serves the properties only.

`sync_estop` holds the source in memory before it awaits the Controller's
`emergency_stop`, and writes the transaction after. A crash in between loses the source;
a cancellation in between (the monitor thread's, or the first emergency stop's own)
leaves it latched in the service, on no disk and not in D101.

Left open: what the Controller's readiness check finds on the devices
(`Readiness`). Left out: failures of the disk, the age of the last sample in
`status()`, events and the audit log, the configuration page, the virtual
inputs, a changed PLC identity, whether a checkpoint's stage is still valid, and the
re-verification of a release record written by an older version.

### ClearCycle

The module follows one scope (run, cycle, specimen), which has one session, from the
result of Equipment that asks for the clear to the end of the tail. `pc` is where the
tail's task waits, `exec` the record the code keeps under `utm_clear_execution`,
reduced to what decides; `clock` says which of the two deadlines have passed.

A tool call is a record in `calls`: its caller, what it asks, and how far it is.
`pool`: the worker thread has not begun; `queue`: it has not come to the bridge, or
waits there for the start lock (`_replay_start_lock`), which starts and stops take and a
status call does not; `run`: it is inside a start; `answered`. Of the device's lock,
which a start takes before and nothing else here takes, `queue` is all there is. A task that is cancelled leaves its calls to
"nobody": one that had not begun is dropped, any other goes on. That is what
`asyncio.to_thread` does, and the reason for most of the module.

| Actions | Code |
|---|---|
| `Requested` | `merge_utm_clear_cycle` |
| `EnterManipulation`, `Decided`, `StartAnswered` | `run_clear_manipulation` |
| `EnterVision`, `Slept`, `Watched`, `Captured`, `Reviewed`, `ResultReviewed` | `run_clear_vision` |
| `StopAnswered`, `Between` | `stop_pending_clear`; `halt_for_control_flag` of the tail |
| `Runs`, `Starts`, `Started`, `Status`, `Stops` | `ToolRegistry.call`, `submit_sync`, the bridge's replay methods |
| `Press`, `Pressed` | `stop`, `safe_stop`, `emergency_stop` with their stop of all replays |
| `Notices`, `FastAnswered`, `FastCancels` | `request_plc_fast_stop` |
| `Resumes` | `emergency_resume` |
| `Lifts`, `Exits` | the arm and its process, the environment |

A start or status call may raise, and Vision's or the robot's execution policy may have
changed at any visit. `unseen` marks the record of a clear that was given up for one of
these reasons, in which the code looks at no replay (`FailsUnseen`, `Examines`).

Left out: a session of another scope, a process that
survives its kill, recovery from a checkpoint, a clear hosted by a plain run, the
tail's step limit, and the replays an operator starts from the GUI.

### HardwareAlerts

The code compares times and does nothing else with them, so the module keeps the
outcome of the comparison: a healthy report carries the jobs whose alerts it is
newer than (`newer`), and a sighting takes its job out of all reports in flight
(`Seen`). Two equal times are not modelled. `auto` are the alerts that a report
may resolve, `held` those with the explicit policy.

| Actions | Code |
|---|---|
| `Fetches`, `Delivers` | the status handler's worker; `emit_workspace_result` with `record_alert` and `reconcile` |
| `Guardian` | `_resolve_device_health` |
| `GateRefreshes`, `GateHeld`, `GateAsks`, `GateReads`, `GateTimesOut` | `refresh_before_gate` |
| `GateDecides` | the gate's alarm rules |
| `Changes`, `NextJob`, `Receives` | printers and their telemetry, the environment |

Whether a report is fresh when it is used is left open. Left out: resolved records and
the cut to fifty, the counters of repetitions, incident records, alerts of other
devices, and alerts merged from an owner's result.

## The runs

`PROJECT.json` lists them with their properties, and for each property of a
passing run a mutant: a plausible bug under which TLC finds the property violated.
Beside these, each module with a type invariant that no run states has a
configuration `MC<module>Types.cfg` for it, with further properties of the module:

* `LLMLease`: `QueueIsSuspended`, `NoOvertaking`;
* `RunLoop`: `StopNearsEnd`; `PlanningTail`: `StopNearsTailEnd`, and the invariants of
  `RunLoop` once more, for the loop as the tail steps it;
* `ComputePool`: `CloseCancelsOwnEvents`, `SubmitMissesShutdown`, `WorkerInReserve`, `CloseReturns`, `JobsOnlyAdvance`,
  and `GuardsAdvance`, which says that the guards spelled out in `PoolGoesOn` are those
  of the actions (`ENABLED`, hence for TLC only);
* `PlcBridge`: `AcknowledgesOnlyLatched`.

All of them hold.

| Run | Instance | Question | Answer |
|---|---|---|---|
| `lease` | Guardian, two stages and the operator's chat and a background call that does not wait; each comes back without end | is the lease exclusive, is every wake-up passed on, is nobody starved by calls that are not more urgent? | yes |
| `loop` | design, vision, equipment, guardian; one retry; two cycles; the last two stages' results may be impossible to store | are results, cycles, approvals and physical stages safe, do owners take turns, does a stop end the run? | yes; a safe stop, unless paused |
| `loop_recount` | the same graph, no series | is a cycle counted once, as `cycle_progress.py` says? | no |
| `pool` | three jobs, one worker | are permits accounted for, answers never mixed up, is everybody answered, does close wait for what runs, can always somebody go on? | yes |
| `teleop` | two handoffs, three sessions, with or without a handoff in their request | is every session asked for a handoff bound to it or stopped, and does a conclusion stand? | yes, but for sessions whose stop failed |
| `tail` | design, vision, manipulation, equipment, guardian; one transfer, one session; the series' first cycle | do owners and the operator keep apart, does a stop end the tail? | yes |
| `tail_retry` | as `tail`, with one retry and a Guardian's result that may be impossible to store | does a held result keep the run, does the test machine wait for the verified transfer, is the cycle counted once? | yes; for the transfer, unless an owner was admitted past an older question |
| `plc` | four scenarios, in each of which every event named happens once | do service and Controller agree, is a latch durable, a release verified, and does D101 reach the Controller? | yes |
| `plc_resume` | one stop, one resume, one run | does a resume after a run was cut short need its checkpoint, as the documentation says? | no |
| `clear` | stop, safe stop, GUI and PLC emergency stop, two of them; one resume | is the sweep asked for once, watched, ended by every stop, and is done what it says? | yes |
| `clear_estop` | GUI and PLC emergency stop | is the arm at rest when an emergency stop is answered, as the documentation says? | no |
| `alerts` | one printer, two jobs, one monitor | does a standing fault stay active, does the health agree, is a repaired printer cleared? | yes |

Why the bounds are enough. The graph of `MCRunLoop` has one stage of each
kind the code treats differently: a plain one, Vision with its
self-transition and its fresh routes, a physical one that needs approval and
whose result may be impossible to store, and the Guardian. With `MaxLoops = 1`
the Guardian can close a first cycle and must end the second, so an approval or a
result of the first cycle can meet the second. `MaxRetry = 1` lets every stage
fail, be retried and fail for good. Five calls of the lease are the Guardian, two
stages of equal priority, a less urgent one and one that does not wait; nothing bounds
how often they come. With one worker the pool holds two permits, so the third job is
refused or waits for a permit that was given back; the same worker then serves a
job after one that was cancelled, late or failed. Two jobs share a callback's
event, the third has its own and may be cancelled while it waits. What several
workers could do to each other is left to the proofs, which hold for any number.

Three sessions are one that gets bound, one that is refused because of it and one
for the other handoff, or for a handoff that is gone. The graph of
`MCPlanningTail` has every stage the tail asks for by name, and one cycle is all a
tail runs. One transfer and one session are enough for what the tail and the
operator do to each other, which is proved for any number; a Manipulation that
runs again and asks for a second transfer is refused one. The retry, and the Guardian's
result that cannot be stored, are in `tail_retry` only: the liveness of `tail` would be
out of reach with them. Equipment that needs an approval is in
`MCPlanningTailApproval.cfg`.

The scenarios of `MCPlcBridge` give each event once: with PB2 a latch, with PB1 the
request that is answered for it, with a start the run that is cut, with a
terminal error the second source and the second task at the lock. The faults, the
crash, the garbled sample and the operator's page are added in turn, because all at
once would be out of reach; a scenario with a fault has it anywhere, in either task,
with and without effect. The last has a recovery in the GUI while an error waits to be
synchronised, so that the Controller is latched anew and may refuse. About 274,000
states. In `MCClearCycle` two of the four
controls meet in any order and one resume follows, so a start left to nobody can meet
a later stop and a second tail: 237,000 states. One printer is enough in
`MCHardwareAlerts` for two readers and a gate to bring reports of two jobs out of
order, 153,000 states; `MCHardwareAlertsTwo.cfg` (5.8 million states, its two
invariants) lets an alert of one printer meet the report of another, which is proved
for any number. `Profiles = 1` there leaves a faulty printer out of a refresh, as the
code's four does with five.

`CHECK_DEADLOCK FALSE` is set where the system may really stop: a run finishes, a
call is made a bounded number of times, a pool is closed, a clear ends. The poll
task of `PlcBridge` and the reports of `HardwareAlerts` never end, and there deadlock is
checked.

### Fairness

* `RunLoop`: weak fairness of the run's task without `RunRaises`. The event loop
  resumes a task that can go on. That an owner returns or raises at all is an
  assumption: most are bounded by time-outs in their tools. Operators
  owe nothing, so `StopEndsRun` does not need the cancellation that usually
  follows a stop.
* `LLMLease`: weak fairness of a woken call and of a holder leaving. An
  inference call has a time-out. Nothing makes anyone ask or cancel.
* `ComputePool`: weak fairness of `Progress`, all that threads and the clock
  do. Processes need not answer and callers need not come; deadlines pass. The model
  assumes that writing a message to a live process does not block.
* `TeleopHandoff`: weak fairness of each session's start handler. The bridge answers
  or its call times out. Operators need not stop a session or confirm anything.
* `PlanningTail`: weak fairness of `TailTask`, the tail and the steps in it, with
  `RunLoop`'s assumption on owners. Not of `OutOfSteps` and `StepRaises`, which
  nothing makes happen, nor of anything the operators do; a stop ends the tail
  without them.

* `PlcBridge`: weak fairness of the poll, of `sync_estop` and of a stop that has begun;
  strong fairness of taking the lock, which is handed over in the order of asking, and
  of a sample that is looked at late enough for the handshake's timeout. Nobody
  need press anything, and the ladder need not clear anything.
* `ClearCycle`: weak fairness of the tail, the clock, the worker threads of every call
  and the handlers that wait for them. The arm need not come to an end: deadlines
  and stops see to it.
* `HardwareAlerts`: weak fairness of reports, of workers that deliver and of the run's
  coming to a gate; strong fairness of a gate's read that resolves something:
  a printer that is healthy for good is at some time read fresh. The GUI need not be open.

### Where the code disagrees with what is said of it

Three are runs:

1. *A resume without a checkpoint* (`plc_resume`). "An interrupted runtime requires a
   valid saved Controller checkpoint" (`docs/device_bridges/plc_safety_bridge.md:227`).
   The monitor thread cancels the run within 50 ms; when the poll task then
   latches the Controller, no run is active any more, and it notes that none was
   interrupted. PB1 resumes without a checkpoint.
2. *An arm that starts after the emergency stop* (`clear_estop`). A stop is to end "a
   concurrent pending start" (`docs/device_bridges/lerobot_bridge.md:204`). A start
   whose thread has not come to the bridge yet (it is queued, or waits for the device's
   lock, which a stop does not take) can be overtaken by the stop of the replays, which
   finds nothing. The cancelled task cannot take its thread
   back, and the thread launches the arm. After a plain stop the tail ends it
   (`StopEndsReplay`), unless the start raised; after an emergency stop nobody does.
3. *A cycle counted per attempt* (`loop_recount`). "Count completed experiment cycles,
   not Guardian review attempts" (`orchestrator/cycle_progress.py:1`). A Guardian result
   that is not JSON is counted before it is stored; the retry counts the cycle again. A
   planning series is spared, for it sets the count to its own index. What the code
   does keep is `CyclesNotAttempts`: each such count costs a retry or ends the run.

The others each have a property in the module and a configuration of their own, which
TLC refutes in seconds:

| Configuration | Property | What is said, and what the code does |
|---|---|---|
| `MCRunLoopSafeStop` | `SafeStopEndsRun` | A safe stop of a paused run: `run` sleeps while paused and looks at `stop_requested` only; resuming is refused while any stop is requested. |
| `MCRunLoopRefusal` | `RefusalMovesRunToError` | A refused approval writes ERROR, and a tick under way may write its own stage over it (`docs/runtime/langgraph_runtime.md:457`). |
| `MCComputePoolShared` | `CloseCancelsAll` | The callback of a first job may remove the event it shares with a second; closing the pool then waits for the second's deadline. |
| `MCTeleopHandoffLoose` | `NoLooseSession` | A request with half of its handoff is answered 409 when its session has started, and the session goes on, bound to nothing (`app/main.py:17409`); one with none is the operator's own. |
| `MCPlanningTailTransfer` | `TransferBeforeEquipment` | While an entry's question is in the state the tail looks at nothing else after a step. Vision, admitted as part of its observation, leaves an older question behind; no handoff is opened, and the test machine runs on a specimen nobody carried over. |
| `MCPlanningTailBlock` | `BlockedWorkIsReviewed` | A gate that blocks Manipulation routes to the Guardian; the tail asks only where the step began, has the transfer done and overwrites the stage. |
| `MCPlanningTailReview` | `NextCycleIsReviewed` | The tail ends when the step began at the Guardian, also when the Guardian raised and is to be retried. |
| `MCPlanningTailTerminal` | `TerminalEndsTail` | With a question left behind, the tail steps at COMPLETE or ERROR for ever, uncounted (`app/controller.py:10523`). |
| `MCPlanningTailApproval` | `ApprovalResumes` | The tail returns when an approval is asked for, and nothing runs the stage when it is given (`docs/runtime/langgraph_runtime.md:457`). |
| `MCPlcBridgeHeld` | `HeldIsDurable` | A synchronisation of a terminal error that is cut short while it latches the Controller leaves a source that no restart finds, and D101 unset; a GUI recovery is then refused until PB2 has been pressed (`utils/plc_bridge_service.py:779`, `:359`). |
| `MCPlcBridgeLabel` | `SourceIsRight` | A D101 the PC wrote is not taken for the button (`docs/device_bridges/plc_safety_bridge.md:270`). A sample of zeros, read before `sync_estop` wrote and judged after it, clears the note of who did. |
| `MCPlcBridgeRestart` | `ConfirmedIsHeld` | A restart whose first sample is garbled does not reconcile (`utils/plc_bridge_service.py:535`): an acknowledgement of the last process is completed, the Controller released, and the service goes on taking the button's source for confirmed. |
| `MCClearCycleUnseen` | `GivenUpIsStopped` | A deadline or a stop that ends a clear stops its replay through `stop_pending_clear` (`:196`); a start or status call that raises, and a policy under which Vision may not execute, set the clear to error and leave the arm moving (`utils/utm_clear_cycle.py:325`, `:333`, `:339`). |

Four smaller things seen in `PlcBridge` on the way: a D102 whose lowering fails stays
set until the next connection; a preflight that reads a standing PB1 request caches
it, so the poll does not see it as new; a latch of the button alone is on disk only
in the ladder's own word; `sync_estop` may be cut short by the monitor thread reacting
to the word it has just written.

## What is proved

All proofs hold for any values of the constants that satisfy the assumptions
declared with them: any graph, any sets of physical and approval-gated stages,
any number of cycles, calls, jobs and workers.

**RunLoopProofs.** `ResultHoldsTheRun`, `OnlyApprovedOwnersRun` and
`NoPhysicalReplay` follow from `LoopInv`. The properties are not inductive by
themselves. A route needs to know that its record is that of the stage being
executed (`RouteHasResult`, `AdmitsOwnResult`); the record stays with its stage
because inside a tick only an end of the run changes the stage (`StageIsNode`);
and that no physical owner can start twice rests on `PhysicalIsSpent`: wherever
the next owner could be chosen, a physical one that has run left a result that
waits. `CyclesNotAttempts` needs in addition that a result held for a recapture
is never the Guardian's (`HeldForRecapture`), and that a count the checkpoint
refused is on its way to the exception path or was paid for there (`StraysArePaid`).
It holds for runs in a series and outside one, and for any results that cannot be stored.

`LoopTakesTurns` is the refinement of `OwnerTurn`: every step of the loop and of the
operators is a step of the owner's turn or leaves it alone. Beside `LoopInv` it needs
that an owner at work has started (`OwnerHasStarted`) and that what waits is routed
along an edge (`RouteIsEdge`). The two delicate kinds of step are a recapture, where a
held result is dropped and the same turn is due again, and a failure, which must find
the owner not physical before it repeats the turn. `AtMostOneLateStart` follows from
`LateInv`: once an owner has started under a stop, the stop stays and the run never
comes back to a place from which a tick admits an owner.

Liveness is out of the prover's reach, but not its safety half. `StopsNearTheEnd` gives
the run a number of steps left, at most ten, that every step of its task lowers once a
stop is requested and that no operator raises, who cannot take the stop back
either. With the fairness that a task which can go on does, `StopEndsRun` is what
remains for TLC.

**LLMLeaseProofs.** `LeaseInv` joins the type invariant, `OneHolder`,
`QueueIsSuspended` and `NoLostWakeup`; the four are inductive together. The
delicate case is a cancelled call that had been woken: its successor at the head
of the queue is woken in the same step. `LeaseKeepsOrder` says that, while a call queues,
nobody who is not more urgent gets ahead of it: a call that comes is behind all of the queue
(`earlier`), and only who comes before all in the queue takes the lease.

**ComputePoolProofs.** `PoolInv` has six parts. `Coupled` relates where a
submitter is to where its job is; `LockedIsOpen` keeps submitters and shutdown
apart; `Loans` says that a borrowed worker is borrowed by one job; `Pipes`, that a
pipe holds the message of the job in flight, its answer, or nothing, from which
`OwnAnswer` follows; `Accounts` equates each counter with the number of jobs it
counts; `ThreadsBounded` bounds the jobs on threads by the workers, from which
`WorkerInReserve` follows by counting. Every part was checked by TLC, with one
worker and with two, before it was proved.

`ClosedIsQuiet` and `CloseCancelsOwnEvents` rest on two more. `Quiet` says that a job
that waits stands in the queue, so that threads which end on an empty queue leave none
behind. `Recorded` says that the event of a job that shares it with no other is on
record as long as the job holds its slot, and set from the moment the pool closes:
`close` signals what is on record, and a job registers and submits under the pool's lock.

`PoolNeverBlocks` is freedom from deadlock with the two locks, the semaphore, the threads,
the workers and `close` all in it: while anything is unfinished, somebody's next step is
open. The argument goes by what one waits for. A job on a thread waits for nobody but the
pool's lock or a worker, and `WorkerInReserve` has the worker (`ThreadGoesOn`). A job in the
queue has a thread, or the threads are taken by jobs that go on (`QueuedGoesOn`). The pool's
lock is kept over a step by `submit` alone, which waits for the executor's lock; shutdown
keeps that one while the callbacks it runs wait for the pool's. The circle does not close
because a submitter with the lock finds the pool open (`LockedIsOpen`) and a shutdown
comes after (`HolderGoesOn`, `CloserGoesOn`); and what the shutdown waits for is a
job it withdrew itself (`CancelsWithdrawn`).
`PoolJobsAdvance` adds that a job takes at most thirteen steps of its own and is never
taken back. The two are what `EveryCallReturns` and `CloseReturns` rest on. They assume
what the model does: writing a message to a live process does not block, which is the
one hazard of the pool that stays without a property.

**TeleopHandoffProofs.** `RegistryInv` is the type invariant,
`SessionsContained` and `ConfirmedIsReleased`; the three are inductive together. A
session is not bound while its handler holds it, so the interesting steps are
`Bind` against `Cancel`, in both orders. `ConclusionStands` is a step property of
the same invariant.

**PlanningTailProofs.** First that the two instances of the registry, the module's and
the proofs', are the same (`SameRegistry`). That every step is one of `TeleopHandoff` or
leaves it alone holds by how the module is written, and is a lemma (`TailStep`), not a result.
`OperatorStaysApart` rests on `TailInv`: the registry's invariant, and
`AwaitsPending`, that a pending handoff is the one the tail waits for. With
`SessionsContained` a session that teleoperates for a handoff is bound to a pending handoff, so
the tail is in that wait, where no owner runs. That is why a stop must cancel the
handoff in the step in which it leaves the wait.

The tail writes the run's stage and pause itself, from guesses about what a step did, so
what holds of `run` need not hold here. `TailMovesLoop` says what its writes amount to:
every step of the tail is a step of `RunLoop` or one of few `Move`s, between two ticks,
none of which routes or drops a result. With `TailPlace`, which relates where the tail is to
where the loop is, `LoopInv` stays inductive (`DriveInv`), and `ResultHoldsTheRun`,
`OnlyApprovedOwnersRun`, `NoPhysicalReplay`, `AtMostOneLateStart` and `CyclesNotAttempts`
hold of a planning run too. `TailStopsNear` is the bound on what is left after a stop:
eleven steps, also from the two waits.

`EquipmentWaits` is `EquipmentAfterTransfer`. What the tail owes (a transfer that is confirmed
and verified) it keeps owing until Vision has judged: it waits, or a result on its way
holds the run, or the run heads for Vision (`OwedInv`). Once an owner was admitted past an
older question the debt is `slipped`, the property's exception, which
`MCPlanningTailTransfer.cfg` shows to be needed. One hypothesis, `LeadsToVision(A)`:
some set `A` of stages with the Guardian, without the equipment, is left only to Vision or
to the end. It is a condition on the graph, which the loop's module leaves open. With an
edge from the Guardian to the equipment TLC finds a run in which a question held at
Vision's entry survives a block, and the tail steps past the Guardian without
looking. In the shipped graph (`graphs/configs/atr_closed_loop.yaml`) the way is
guardian, design, specimen, vision, so `A` is the first three.

**ClearCycleProofs.** `StartedOnce` follows from `AskedInv`: a clear that asked is past
`deciding`, no step leads back to `requested` or `deciding` from there, and the tail
that waits in `decide` is the only one, over any cancellation and resume.
`StopsWin` needs the types alone: the only step that asks looks at the flags in the
same step.

`DoneIsClear` follows from `DoneInv`: a session that is over left the arm at rest and
stays over (`Told`), and a clear is captured, reviewed and done only after its session
was over, and done only when the machine was seen empty (`Examined`). A stop that reaches
a session after it had completed calls it stopped; it is over nonetheless.

`SupervisedMotion` is the hard one, for the record, the tail's call and the
bridge's session are three accounts of one motion. `SupervisedInv` relates them: where the
tail is decides how far the record is (`Seats`); what the record says of the replay is
true of the session (`Marks`); the tail waits for one call, and an answer that would end
the clear is given after the session is over (`OwnCalls`); there is one start, and the arm
moves in it or for a session that is known (`OneStart`). `stop_pending_clear` gives up a
clear without a stop only when it is simulated, verified or already stopped, and `Marks` says
that none of these can be so while the arm moves. The two ways in which the code gives
up a clear without looking (`unseen`) are the property's exception, and no other is. A cancellation orphans the start that
is under way, which stays the only one. All this holds until a run is resumed: a resumed
tail may ask for the status of a start that the bridge has not served yet, finds no
session, and leaves the clear in error before the arm moves. Hence `resumes = 0` in the
property and the invariant.

**HardwareAlertsProofs.** `FaultIsBlocking` is not inductive: what keeps an alert
active is that no report in flight is newer than it. `FaultInv` says of a standing
fault that was noted either that an explicit alert holds it, or that some job's alert is
active and every healthy report of that printer, in the bridge or in a reader's hands,
is older (`Backed`). The delicate step is a sighting of another job, which
must not make a report newer than the first. `HealthTellsActive` needs that
"other" implies an explicit alert, because `reconcile` sets only an "error" back.

**PlcBridgeProofs.** There are two invariants. `HandshakeInv` needs no assumption:
`Placed` says which phase the transaction is in wherever the poll is inside a handshake,
and `Recorded`, that a zero the poll has in hand, or that the registers show, was noted
since the acknowledgement, and that a transaction whose release is still to be observed
has released nothing. `ReleasesOnce` is a step property of it. The delicate steps are
those that judge a snapshot read before the lock was taken.

`LatchInv` adds what service and Controller know of each other. `Agreed`: a confirmed
source is held, and a held one has stopped the run or a stop is on its way. It breaks
when a handshake releases the Controller of more, or less, than the service drops, so
`Covers` says that an active handshake which is not to be reconciled has every latched
source in its transaction, those latched while it lasts included. `Durable` says what a
restart finds: an open transaction that names sources, or D101 still set, while the service
holds the button's source or one the Controller has confirmed (`Firm`). A source held in
memory only, before `sync_estop` has come back from the Controller, is not one of them.
`ConfirmedIsHeld`, `LatchStopsRuns` and `LatchIsDurable` follow, under `CleanSamples`: no
sample leaves the register contract. The assumption is needed: a garbled first sample
after a restart makes the service take up a handshake it should reconcile, which
`MCPlcBridgeRestart.cfg` shows. `ReleasesOnce` holds for garbled samples too, and the run
`plc` checks the other three with garbled samples and without a restart. Both invariants
were checked by TLC before they were proved.

With TLC only: liveness (`ServedUnlessUrgent`, `StopEndsRun`,
`SafeStopEndsRunOrPauses`, `EveryCallReturns`, `CloseReturns`, `StraySessionEnds`,
`StopEndsTail`, `EstopReachesController`, `HandshakeEnds`, `StopEndsReplay`, `ClearEnds`,
`FaultClears`), which is out of the prover's reach, `GuardsAdvance`, which speaks of
`ENABLED`, and the properties that are refuted. Every invariant that a passing run checks
is the subject of a theorem.

## The plan

The order follows what a mistake would cost: first what moves a machine, then
what keeps the loop alive, then bookkeeping.

1. Done: `LLMLease`, `RunLoop` with `OwnerTurn`, `ComputePool`, `TeleopHandoff`,
   `PlanningTail`, `PlcBridge`, `ClearCycle`, `HardwareAlerts`.
2. `HandoffReview`: replies, revisions, the planning boundary and the limits of
   the two queues; composed with `RunLoop`, which abstracts it to three answers.
3. `PlcBridge` composed with `ClearCycle`: both model the emergency stop, one by its
   latch and one by its replays; and `DeviceJobQueue` by itself: numbers, the history.
4. The series of cycles around the tail, with the specimen's design and printing.
5. `RunControl`: starting, archiving and resetting a run around the task.
6. `DeliveryLedger`: processes that write receipts; `RunRecovery`: a restart from
   the checkpoint of a run in error.
7. Proofs. Done: every invariant of the runs; the refinements; the loop's invariant under
   the tail; steps left after a stop, and freedom from deadlock in the pool. Left: what of
   `SupervisedMotion` survives a resume; that a stop, an emergency word or a handshake
   leaves `PlcBridge` and `ClearCycle` few steps, as it does the loop and the tail.

## What is not modelled

The Guardian's classification of payloads, the agents, the drivers and the tool
servers, the knowledge graph (its backend is a null object at this commit), the
front ends and the numerical code: they compute or do input and output, and what
they do to the ordering of a run is in `RunLoop` as results, verdicts and
exceptions. Interpreter shutdown is not modelled, nor is a pipe that blocks.

Hazards seen and not modelled, beside the one in `PROJECT.json`: an approval that a gate
queues for a tool is resolved when the gate's stage has moved on
(`orchestrator/langgraph_runtime.py:1850`); replies of the operator beyond fifty, and
context beyond twenty, are dropped without a word (`app/controller.py:4141`); a device's
job number is drawn before its lock is taken, and `status` iterates while devices are
added (`experiments/job_queue.py:77` and `:131`); a failure to stop a
session during a cancellation is written into a copy of the record
(`app/controller.py:4940`).
