----------------------------- MODULE ClearCycle -----------------------------
(***************************************************************************)
(* The clearance of the testing machine after a test: one managed replay   *)
(* of a recorded sweep by the robot arm, supervised by the planning tail,  *)
(* while the operator's controls and the PLC monitor may stop it.          *)
(*                                                                         *)
(* Four parts of the code meet here.  src/utils/utm_clear_cycle.py keeps   *)
(* the execution record of the scope (run, loop, specimen) and is driven   *)
(* by the tail's Manipulation and Vision visits.  The controller raises    *)
(* the stop flags, asks for a stop of every replay and cancels the tail.   *)
(* The bridge owns the session and the process that moves the arm.         *)
(* Between them every tool call runs in a worker thread.  A start keeps    *)
(* the bridge's start lock until its session is known; starts and stops    *)
(* wait for that lock, in no particular order, a status call does not.     *)
(*                                                                         *)
(* The session identifier is derived from the scope, so one scope has one  *)
(* session; the model follows one scope, over interruptions and resumes.   *)
(***************************************************************************)
EXTENDS Naturals, FiniteSets

CONSTANTS Controls,    \* the stops that may be asked for, each once
          MaxControls, \* how many of them at most
          MaxResumes   \* how often an emergency stop may be resumed from

ASSUME ControlsAssumption == Controls \subseteq {"stop", "safe", "gui", "plc"}
ASSUME BoundsAssumption == MaxControls \in Nat /\ MaxResumes \in Nat

VARIABLES
  exec,     \* run_metadata["utm_clear_execution"]
  pc,       \* where the tail's task is, "ended" and "cancelled" included
  visit,    \* the stage the tail visits
  after,    \* where the tail goes once its own replay.stop is answered
  shot,     \* the capture under review
  clock,    \* how much of the pending and frame budgets has passed
  flags,    \* the stop flags of the state that are up
  ctl,      \* where each control's handler is
  calls,    \* the tool calls on the robot that are not answered yet
  session,  \* the bridge's session of this scope
  alive,    \* the replay process runs: the arm moves
  exit,     \* how the process ended
  fixture,  \* what stands on the testing machine
  asked,    \* how often replay.start was asked for
  resumes

tail    == <<pc, visit, after, shot>>
bridge  == <<session, alive, exit, fixture>>
vars    == <<exec, tail, clock, flags, ctl, calls, bridge, asked, resumes>>

States  == {"none", "requested", "deciding", "starting", "running",
            "waiting", "done", "error"}
Pending == {"starting", "running", "waiting"}
Visits  == {"manip", "vision"}
Awaits  == {"decide", "start", "sleep", "status", "capture", "review",
            "result", "stop"}
Ends    == {"ended", "cancelled"}
Estops  == {"gui", "plc"}

\* A call: who waits for its answer, what it asks, how far it is, its answer.
\* "nobody" waits for the call of a task that was cancelled.
Callers == {"tail", "nobody"} \cup Controls
Ops     == {"start", "status", "stopOwn", "stopAll"}
Steps   == {"pool", "queue", "run", "answered"}
Answers == {"-", "ok", "refused", "missing", "active", "completed",
            "unverified", "failed", "stopped", "raised"}
Call(by, op, at) == [by |-> by, op |-> op, at |-> at, res |-> "-"]

\* unseen: its failure code is one of those given without a look at the replay,
\* because the call raised or because Vision may not execute any more.
NoExec == [state |-> "none", simulated |-> FALSE, verified |-> FALSE,
           attempted |-> FALSE, bound |-> FALSE, framed |-> FALSE,
           unseen |-> FALSE]

Init ==
  /\ exec = NoExec
  /\ pc = "equipment" /\ visit = "manip" /\ after = "between" /\ shot = "-"
  /\ clock = 0 /\ flags = {} /\ ctl = [k \in Controls |-> "idle"]
  /\ calls = {} /\ session = "none" /\ alive = FALSE /\ exit = "-"
  /\ fixture = "specimen" /\ asked = 0 /\ resumes = 0

-----------------------------------------------------------------------------
(* The bridge: a start holds its lock until the session is known *)

Waits(by)  == {c \in calls : c.by = by}
Got(by)    == {c \in calls : c.by = by /\ c.at = "answered"}
Free       == \A c \in calls : c.at # "run"
Settle(c, res) ==   \* nobody reads the answer of an orphaned call
  (calls \ {c}) \cup
    IF c.by = "nobody" THEN {} ELSE {[c EXCEPT !.at = "answered", !.res = res]}

\* asyncio.to_thread: the worker begins and comes to the bridge.
Runs(c) ==
  /\ c.at = "pool"
  /\ calls' = (calls \ {c}) \cup {[c EXCEPT !.at = "queue"]}
  /\ UNCHANGED <<exec, tail, clock, flags, ctl, bridge, asked, resumes>>

\* The refresh of a session's status from its process.
Refreshed == IF session # "active" \/ alive THEN session
             ELSE IF exit = "failed" THEN "failed" ELSE "completed"

\* A start finds the session, is refused, or launches the process.
Starts(c) ==
  /\ c.op = "start" /\ c.at = "queue" /\ Free
  /\ \/ /\ session # "none"
        /\ session' = Refreshed
        /\ calls' = Settle(c, IF session' = "failed" THEN "failed" ELSE "ok")
        /\ UNCHANGED <<alive, exit, fixture>>
     \/ /\ session = "none"
        /\ calls' = Settle(c, "refused")
        /\ UNCHANGED bridge
     \/ /\ session = "none"
        /\ alive' = TRUE
        /\ calls' = (calls \ {c}) \cup {[c EXCEPT !.at = "run"]}
        /\ UNCHANGED <<session, exit, fixture>>
  /\ UNCHANGED <<exec, tail, clock, flags, ctl, asked, resumes>>

\* The seconds in which the start watches its process are over: the session
\* becomes known, though what is recorded of it then may fail.
Started(c) ==
  /\ c.op = "start" /\ c.at = "run"
  /\ session' = IF alive THEN "active"
                ELSE IF exit = "failed" THEN "failed" ELSE "completed"
  /\ \E res \in {IF session' = "failed" THEN "failed" ELSE "ok", "raised"} :
       calls' = Settle(c, res)
  /\ UNCHANGED <<exec, tail, clock, flags, ctl, alive, exit, fixture,
                 asked, resumes>>

\* A status takes no lock, and may fail.
Status(c) ==
  /\ c.op = "status" /\ c.at = "queue"
  /\ session' = Refreshed
  /\ \E res \in {CASE session' = "none" -> "missing"
                  [] session' = "completed" /\ exit = "unverified"
                       -> "unverified"
                  [] OTHER -> session', "raised"} :
       calls' = Settle(c, res)
  /\ UNCHANGED <<exec, tail, clock, flags, ctl, alive, exit, fixture,
                 asked, resumes>>

\* replay.stop, of the scope's session or of all: what runs is ended, and a
\* known session counts as stopped, also one that had completed.
Stops(c) ==
  /\ c.op \in {"stopOwn", "stopAll"} /\ c.at = "queue" /\ Free
  /\ IF session = "none"
       THEN UNCHANGED <<session, alive, exit>>
       ELSE /\ session' = "stopped" /\ alive' = FALSE
            /\ exit' = IF alive THEN "failed" ELSE exit
  /\ calls' = Settle(c, IF session = "none" /\ c.op = "stopOwn"
                          THEN "missing" ELSE "stopped")
  /\ UNCHANGED <<exec, tail, clock, flags, ctl, fixture, asked, resumes>>

Serve(by) == \E c \in Waits(by) :
  Runs(c) \/ Starts(c) \/ Started(c) \/ Status(c) \/ Stops(c)

\* The arm: it lifts the specimen, it ends, well or not.
Lifts ==
  /\ alive /\ fixture = "specimen"
  /\ fixture' = "empty"
  /\ UNCHANGED <<exec, tail, clock, flags, ctl, calls, session, alive, exit,
                 asked, resumes>>

Exits ==
  /\ alive
  /\ alive' = FALSE
  /\ exit' \in {"ok", "unverified", "failed"}
  /\ UNCHANGED <<exec, tail, clock, flags, ctl, calls, session, fixture,
                 asked, resumes>>

-----------------------------------------------------------------------------
(* The tail's visits *)

Stopped == flags # {}     \* one of the three stop flags is up
Asks(op) == calls' = calls \cup {Call("tail", op, "pool")}
Enters(state) == exec' = [exec EXCEPT !.state = state]
Goes(to) == pc' = to /\ UNCHANGED <<visit, after, shot>>
Returns == Goes("between")
Leaves == pc' = "between" /\ visit' = "vision" /\ UNCHANGED <<after, shot>>
Fails == Enters("error") /\ Returns
FailsUnseen(so) ==
  exec' = [exec EXCEPT !.state = "error", !.unseen = @ \/ so]
KeepOutside == UNCHANGED <<flags, ctl, bridge, resumes>>

\* stop_pending_clear: the replay of a pending clear is stopped, once, unless
\* its end is verified; the clear is then in error.
StopPending(to) ==
  IF exec.state = "done"
    THEN pc' = to /\ UNCHANGED <<exec, calls, after>>
  ELSE IF /\ exec.state \in Pending
          /\ ~exec.simulated /\ ~exec.verified /\ ~exec.attempted
    THEN /\ exec' = [exec EXCEPT !.attempted = TRUE]
         /\ Asks("stopOwn") /\ pc' = "stop" /\ after' = to
  ELSE Enters("error") /\ pc' = to /\ UNCHANGED <<calls, after>>

\* The Equipment result is merged: it asks for a clear, or for one that cannot
\* be had because the evidence of the test is incomplete.
Requested ==
  /\ pc = "equipment" /\ Returns
  /\ \E ready, virtual \in BOOLEAN :
       exec' = [exec EXCEPT !.state = IF ready THEN "requested" ELSE "error",
                            !.simulated = virtual]
  /\ KeepOutside /\ UNCHANGED <<clock, calls, asked>>

\* Faulty (StartedOnce): a start that was cut short is decided upon again.
EnterManipulationAgain ==
  /\ pc = "manip"
  /\ IF Stopped /\ exec.state # "done" THEN Enters("error") /\ Leaves
     ELSE IF exec.state \notin {"requested", "starting"}
       THEN UNCHANGED exec /\ Leaves
       ELSE Enters("deciding") /\ Goes("decide")
  /\ KeepOutside /\ UNCHANGED <<clock, calls, asked>>

\* run_clear_manipulation: a clear that the execution policy leaves to the
\* operator is in error before anything is decided.
EnterManipulation ==
  /\ pc = "manip"
  /\ IF Stopped /\ exec.state # "done" THEN Enters("error") /\ Leaves
     ELSE IF exec.state # "requested" THEN UNCHANGED exec /\ Leaves
       ELSE \/ Enters("deciding") /\ Goes("decide")
            \/ ~exec.simulated /\ Enters("error") /\ Leaves
  /\ KeepOutside /\ UNCHANGED <<clock, calls, asked>>

\* Faulty (StopWins): what was raised during the decision is not looked at.
DecidedBlindly ==
  /\ pc = "decide"
  /\ Enters("starting") /\ Goes("start")
  /\ Asks("start") /\ asked' = asked + 1
  /\ KeepOutside /\ UNCHANGED clock

\* The model's decision is in: it counts only while nothing was stopped.
Decided ==
  /\ pc = "decide"
  /\ \E accepted \in BOOLEAN :
       IF Stopped \/ ~accepted
         THEN Enters("error") /\ Leaves /\ UNCHANGED <<calls, asked>>
       ELSE IF exec.simulated
         THEN /\ exec' = [exec EXCEPT !.state = "waiting", !.verified = TRUE]
              /\ Leaves /\ UNCHANGED <<calls, asked>>
         ELSE /\ Enters("starting") /\ Goes("start")
              /\ Asks("start") /\ asked' = asked + 1
  /\ KeepOutside /\ UNCHANGED clock

\* Faulty (ClearTypeOK): the answer's own status becomes the clear's state.
StartAnsweredRaw ==
  /\ pc = "start"
  /\ \E c \in Got("tail") :
       /\ calls' = calls \ {c}
       /\ exec' = [exec EXCEPT !.state = c.res, !.bound = TRUE]
  /\ Leaves /\ KeepOutside /\ UNCHANGED <<clock, asked>>

StartAnswered ==
  /\ pc = "start"
  /\ \E c \in Got("tail") :
       /\ calls' = calls \ {c}
       /\ IF c.res = "ok"
            THEN exec' = [exec EXCEPT !.state = "running", !.bound = TRUE]
            ELSE FailsUnseen(c.res = "raised")
  /\ Leaves /\ KeepOutside /\ UNCHANGED <<clock, asked>>

\* What a Vision visit goes on with once stops and deadlines are looked at:
\* the synthetic result is reviewed, or the session asked for its status.  When
\* the execution policy has changed, the clear is given up instead, whatever
\* its replay does.
Examines ==
  \/ /\ IF exec.simulated THEN Goes("result") /\ UNCHANGED calls
                          ELSE Goes("status") /\ Asks("status")
     /\ UNCHANGED exec
  \/ FailsUnseen(~exec.simulated) /\ Returns /\ UNCHANGED calls

\* run_clear_vision up to its first wait.
EnterVision ==
  /\ pc = "vision"
  /\ IF Stopped THEN StopPending("between") /\ UNCHANGED <<visit, shot>>
     ELSE IF exec.state \notin Pending
       THEN Returns /\ UNCHANGED <<exec, calls>>
     ELSE IF ~exec.bound THEN Examines
     ELSE IF clock = 2 THEN StopPending("between") /\ UNCHANGED <<visit, shot>>
       ELSE Goes("sleep") /\ UNCHANGED <<exec, calls>>
  /\ KeepOutside /\ UNCHANGED <<clock, asked>>

\* Faulty (SupervisedMotion): a clear that is out of time is given up on
\* without a stop.
SleptAway ==
  /\ pc = "sleep"
  /\ IF Stopped THEN StopPending("between") /\ UNCHANGED <<visit, shot>>
     ELSE IF clock = 2 THEN Fails /\ UNCHANGED calls
       ELSE Examines
  /\ KeepOutside /\ UNCHANGED <<clock, asked>>

Slept ==
  /\ pc = "sleep"
  /\ IF Stopped \/ clock = 2
       THEN StopPending("between") /\ UNCHANGED <<visit, shot>>
       ELSE Examines
  /\ KeepOutside /\ UNCHANGED <<clock, asked>>

\* Faulty (DoneIsClear): a replay that is known counts as one that ended.
WatchedAny ==
  /\ pc = "status"
  /\ \E c \in Got("tail") :
       /\ calls' = calls \ {c}
       /\ IF c.res \in {"active", "completed"}
            THEN /\ exec' = [exec EXCEPT !.state = "waiting", !.bound = TRUE,
                                         !.verified = TRUE, !.framed = TRUE]
                 /\ clock' = IF exec.framed THEN clock ELSE 0
                 /\ Goes("capture")
            ELSE FailsUnseen(c.res = "raised") /\ Returns /\ UNCHANGED clock
  /\ KeepOutside /\ UNCHANGED asked

\* Faulty (ClearEnds): every visit gives the camera a new window.
WatchedAnew ==
  /\ pc = "status"
  /\ \E c \in Got("tail") :
       /\ calls' = calls \ {c}
       /\ CASE c.res = "active" ->
                 exec' = [exec EXCEPT !.bound = TRUE] /\ Returns
                 /\ UNCHANGED clock
            [] c.res = "completed" ->
                 /\ exec' = [exec EXCEPT !.state = "waiting", !.bound = TRUE,
                                         !.verified = TRUE, !.framed = TRUE]
                 /\ clock' = 0 /\ Goes("capture")
            [] OTHER -> FailsUnseen(c.res = "raised") /\ Returns
                        /\ UNCHANGED clock
  /\ KeepOutside /\ UNCHANGED asked

\* The session's status: the first time it has completed with evidence, the
\* camera gets its own window and the pending deadline is moved behind it.  A
\* call that raised ends the clear as a failed replay does, with no stop.
Watched ==
  /\ pc = "status"
  /\ \E c \in Got("tail") :
       /\ calls' = calls \ {c}
       /\ CASE c.res = "active" ->
                 exec' = [exec EXCEPT !.bound = TRUE] /\ Returns
                 /\ UNCHANGED clock
            [] c.res = "completed" ->
                 /\ exec' = [exec EXCEPT !.state = "waiting", !.bound = TRUE,
                                         !.verified = TRUE, !.framed = TRUE]
                 /\ clock' = IF exec.framed THEN clock ELSE 0
                 /\ Goes("capture")
            [] OTHER -> FailsUnseen(c.res = "raised") /\ Returns
                        /\ UNCHANGED clock
  /\ KeepOutside /\ UNCHANGED asked

\* The capture: no frame, a frame that shows the machine clear, another one.
Captured ==
  /\ pc = "capture"
  /\ \E seen \in {"none", "other"} \cup
                 (IF fixture = "empty" THEN {"clear"} ELSE {}) :
       IF Stopped \/ (seen = "none" /\ clock = 0)
         THEN Returns /\ UNCHANGED exec
       ELSE IF seen = "none" THEN Fails
         ELSE /\ pc' = "review" /\ shot' = seen
              /\ UNCHANGED <<visit, after, exec>>
  /\ KeepOutside /\ UNCHANGED <<clock, calls, asked>>

\* Vision's review of the capture.
Reviewed ==
  /\ pc = "review"
  /\ \E accepted \in BOOLEAN :
       IF Stopped THEN Returns /\ UNCHANGED exec
       ELSE IF clock = 2 \/ ~accepted THEN Fails
       ELSE IF shot = "clear" THEN Goes("result") /\ UNCHANGED exec
         ELSE Returns /\ UNCHANGED exec
  /\ KeepOutside /\ UNCHANGED <<clock, calls, asked>>

\* Manipulation's review of the result: the last word on the clear.
ResultReviewed ==
  /\ pc = "result"
  /\ \E accepted \in BOOLEAN :
       IF Stopped /\ ~exec.simulated THEN Returns /\ UNCHANGED exec
       ELSE IF Stopped \/ ~accepted \/ (exec.bound /\ clock = 2) THEN Fails
         ELSE Enters("done") /\ Returns
  /\ KeepOutside /\ UNCHANGED <<clock, calls, asked>>

StopAnswered ==
  /\ pc = "stop" /\ Goes(after) /\ Enters("error")
  /\ \E c \in Got("tail") : calls' = calls \ {c}
  /\ KeepOutside /\ UNCHANGED <<clock, asked>>

\* Faulty (StopEndsReplay): the tail halts and relies on the stop's own call.
BetweenAtOnce ==
  /\ pc = "between"
  /\ Goes(IF Stopped \/ exec.state \in {"done", "error"} THEN "ended"
                                                         ELSE visit)
  /\ KeepOutside /\ UNCHANGED <<exec, clock, calls, asked>>

\* Between two visits: a stop halts the tail, which first stops what is
\* pending; a clear that is done or in error is left behind.
Between ==
  /\ pc = "between"
  /\ IF Stopped THEN StopPending("ended") /\ UNCHANGED <<visit, shot>>
     ELSE /\ Goes(IF exec.state \in {"done", "error"} THEN "ended" ELSE visit)
          /\ UNCHANGED <<exec, calls>>
  /\ KeepOutside /\ UNCHANGED <<clock, asked>>

TailStep ==
  \/ Requested \/ EnterManipulation \/ Decided \/ StartAnswered
  \/ EnterVision \/ Slept \/ Watched \/ Captured \/ Reviewed
  \/ ResultReviewed \/ StopAnswered \/ Between

\* Time passes: the camera's window closes, then the pending deadline.
Ticks ==
  /\ exec.bound /\ clock < 2
  /\ clock' = clock + 1
  /\ UNCHANGED <<exec, tail, flags, ctl, calls, bridge, asked, resumes>>

-----------------------------------------------------------------------------
(* The controls *)

\* The task of the tail is cancelled: it leaves where it waits.  Of the calls
\* that are left, one of its own whose worker had not begun is dropped; any
\* other goes on, for nobody.
Cancels(left) ==
  IF pc \in Ends THEN calls' = left /\ UNCHANGED <<exec, tail>>
  ELSE /\ Goes("cancelled")
       /\ exec' = IF pc = "decide" THEN [exec EXCEPT !.state = "error"]
                                   ELSE exec
       /\ calls' = {c \in left : c.by # "tail"} \cup
            {[c EXCEPT !.by = "nobody"] :
               c \in {d \in left : d.by = "tail" /\ d.at \in {"queue", "run"}}}

MayBegin(k) ==
  ctl[k] = "idle" /\ Cardinality({j \in Controls : ctl[j] # "idle"}) < MaxControls

Flag(k) == IF k \in Estops THEN "emergency" ELSE k

\* Stop, safe stop and emergency stop begin alike: a flag, then a stop of
\* every replay.  An emergency stop after another one does no more than that.
Press(k) ==
  /\ IF k = "plc" THEN ctl[k] = "noticed" ELSE MayBegin(k)
  /\ ctl' = [ctl EXCEPT ![k] = IF k \in Estops /\ "emergency" \in flags
                                 THEN "again" ELSE "stopping"]
  /\ flags' = flags \cup {Flag(k)}
  /\ calls' = calls \cup {Call(k, "stopAll", "pool")}
  /\ UNCHANGED <<exec, tail, clock, bridge, asked, resumes>>

\* The stop of the replays is answered; an emergency stop cancels the tail.
Pressed(k) ==
  /\ ctl[k] \in {"stopping", "again"}
  /\ ctl' = [ctl EXCEPT ![k] = "done"]
  /\ flags' = IF k \in Estops THEN (flags \ {"safe"}) \cup {"stop"} ELSE flags
  /\ \E c \in Got(k) :
       IF k \in Estops /\ ctl[k] = "stopping"
         THEN Cancels(calls \ {c})
         ELSE calls' = calls \ {c} /\ UNCHANGED <<exec, tail>>
  /\ UNCHANGED <<clock, bridge, asked, resumes>>

\* The PLC monitor's thread notices PB2: it stops the replays itself, then has
\* the tail cancelled; the flags follow with the poll's emergency stop.
Notices ==
  /\ "plc" \in Controls /\ MayBegin("plc")
  /\ ctl' = [ctl EXCEPT !["plc"] = "fast"]
  /\ calls' = calls \cup {Call("plc", "stopAll", "queue")}
  /\ UNCHANGED <<exec, tail, clock, flags, bridge, asked, resumes>>

FastAnswered ==
  /\ "plc" \in Controls /\ ctl["plc"] = "fast"
  /\ ctl' = [ctl EXCEPT !["plc"] = "cancelling"]
  /\ \E c \in Got("plc") : calls' = calls \ {c}
  /\ UNCHANGED <<exec, tail, clock, flags, bridge, asked, resumes>>

FastCancels ==
  /\ "plc" \in Controls /\ ctl["plc"] = "cancelling"
  /\ ctl' = [ctl EXCEPT !["plc"] = "noticed"]
  /\ Cancels(calls)
  /\ UNCHANGED <<clock, flags, bridge, asked, resumes>>

Control(k) == Press(k) \/ Pressed(k)

\* The operator resumes from an emergency stop: the flags are down and the
\* tail visits the interrupted stage again, with the record as it was left.
Resumes ==
  /\ "emergency" \in flags /\ pc = "cancelled" /\ resumes < MaxResumes
  /\ \A k \in Controls : ctl[k] \in {"idle", "done"}
  /\ resumes' = resumes + 1
  /\ flags' = {}
  /\ Goes(IF exec.state = "none" THEN "equipment" ELSE "between")
  /\ UNCHANGED <<exec, clock, ctl, calls, bridge, asked>>

Next ==
  \/ TailStep \/ Ticks
  \/ \E by \in Callers : Serve(by)
  \/ Lifts \/ Exits
  \/ \E k \in Controls : Control(k)
  \/ Notices \/ FastAnswered \/ FastCancels \/ Resumes

\* The event loop and the workers go on, reviews answer (they have timeouts),
\* time passes and a control that was begun is finished; nobody has to press
\* one, and the arm need not come to an end by itself.
Fairness ==
  /\ WF_vars(TailStep) /\ WF_vars(Ticks)
  /\ \A by \in Callers : WF_vars(Serve(by))
  /\ \A k \in Controls : WF_vars(Pressed(k))
  /\ WF_vars(FastAnswered) /\ WF_vars(FastCancels)
  /\ WF_vars("plc" \in Controls /\ Press("plc"))

Spec == Init /\ [][Next]_vars /\ Fairness

-----------------------------------------------------------------------------
(* Properties *)

ClearTypeOK ==
  /\ exec \in [state : States, simulated : BOOLEAN, verified : BOOLEAN,
               attempted : BOOLEAN, bound : BOOLEAN, framed : BOOLEAN,
               unseen : BOOLEAN]
  /\ pc \in {"equipment", "manip", "vision", "between"} \cup Awaits \cup Ends
  /\ visit \in Visits /\ after \in {"between", "ended"}
  /\ shot \in {"-", "other", "clear"} /\ clock \in 0..2
  /\ flags \subseteq {"stop", "safe", "emergency"}
  /\ ctl \in [Controls -> {"idle", "fast", "cancelling", "noticed",
                           "stopping", "again", "done"}]
  /\ calls \subseteq [by : Callers, op : Ops, at : Steps, res : Answers]
  /\ session \in {"none", "active", "completed", "failed", "stopped"}
  /\ alive \in BOOLEAN /\ exit \in {"-", "ok", "unverified", "failed"}
  /\ fixture \in {"specimen", "empty"} /\ asked \in Nat /\ resumes \in Nat

\* "Never retry replay.start": in one scope the sweep is asked for once, over
\* every cancellation and resume (the docs: no automatic effectful replay
\* retry; restarting the same stage does not rearm motion).
StartedOnce == asked <= 1

\* A clear that is reported done left the machine empty and the arm at rest:
\* what lets Analysis, and with it the next test, go on.
DoneIsClear ==
  exec.state = "done" /\ ~exec.simulated => fixture = "empty" /\ ~alive

\* Until a run was interrupted and resumed, the arm moves only under a clear
\* that watches it, or one that was given up on without a look at the replay:
\* every other failure, deadline and refusal of the clear leaves it at rest.
SupervisedMotion ==
  alive /\ resumes = 0 /\ ~exec.unseen => exec.state \in {"starting", "running"}

\* The same with no such exception: no clear is given up on with the arm moving.
GivenUpIsStopped ==
  alive /\ resumes = 0 => exec.state \in {"starting", "running"}

\* Once a stop flag is up the sweep is not asked for any more and the clear is
\* not reported done, whatever was decided or reviewed when the flag was raised.
StopWins ==
  [][flags # {} => asked' = asked /\ (exec'.state = "done"
                                        => exec.state = "done")]_vars

\* A stop ends the replay, also one whose start had been asked for but had not
\* reached the bridge when the stop did; the tail halts and sees to it, unless
\* an emergency stop cancels it, at the time or before, or the start raised
\* where its session was already recorded, for a session nobody took over.
Quiet == ~alive /\ \A c \in calls : c.op # "start"
StartLost == exec.unseen /\ ~exec.bound
StopEndsReplay ==
  (flags # {}) ~> (Quiet \/ pc = "cancelled" \/ resumes > 0 \/ StartLost)

\* A clear that was asked for comes to an end: it is done, in error, or the
\* tail was cancelled.
ClearEnds ==
  (exec.state \in Pending \cup {"requested", "deciding"})
    ~> (exec.state \in {"done", "error"} \/ pc = "cancelled")

\* What docs/device_bridges/lerobot_bridge.md says of a stop, "Stop the matching
\* managed process, including a concurrent pending start", and of the E-stop:
\* once the emergency stop has been answered, the arm is at rest.
EstopIsFinal ==
  \A k \in Controls \cap Estops :
    ctl[k] = "done" /\ "emergency" \in flags => ~alive

=============================================================================
