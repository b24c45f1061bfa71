------------------------------ MODULE PlcBridge ------------------------------
(***************************************************************************)
(* The PLC safety bridge (utils/plc_bridge_service.py): the poll task, the *)
(* recovery handshake over D100-D102, the synchronisation of a terminal    *)
(* error to D101, the 50 ms monitor thread, and what is on disk; with the  *)
(* Controller's emergency latch (app/controller.py) it calls back into.    *)
(* The ladder and the push buttons are the environment.                    *)
(*                                                                         *)
(* A step runs from one await to the next.  Every read or write of the     *)
(* registers is such a step and may fail; a write that fails may have      *)
(* taken effect.  The state-machine lock is held from Observe (poll) or    *)
(* SyncAcquire (terminal error) until the task is back at rest.            *)
(***************************************************************************)
EXTENDS Naturals, FiniteSets

CONSTANT Budgets     \* how often each event of the environment may happen, a choice

Events == {"pb2", "pb1", "start", "terminal", "gui_stop", "gui_recovery",
           "preflight", "fault", "garbled", "crash", "disconnect"}

ASSUME BudgetsAssumption == Budgets \subseteq [Events -> Nat]

VARIABLES
    plc,         \* the registers <<D100, D101, D102>>
    ctl,         \* the Controller: latch, sources, runtime, checkpoint
    halting,     \* a GUI emergency stop that has latched but not yet cancelled
    svc,         \* the service's memory
    tx,          \* the transaction; it is on disk at every await
    poll,        \* where the poll task is and the snapshot in its hand
    sync,        \* where the terminal error's sync_estop is
    fast,        \* the monitor thread has acted on this D101
    left,        \* what is left of the budget
    hist         \* history kept for the properties only

vars == <<plc, ctl, halting, svc, tx, poll, sync, fast, left, hist>>

PB2 == "plc_pb2"
Terminal == "runtime_terminal_error"
Gui == "gui_estop"
Latched == {PB2, Terminal}               \* the sources the service latches
Recoverable == {PB2, Terminal, Gui}

Words == {0, 1, 2} \X {0, 1} \X {0, 1}
Zero == <<0, 0, 0>>
Garbled == <<3, 0, 0>>                   \* a value outside the contract
NoSnapshot == <<>>
Fault(w) == w \notin Words \/ (w[2] = 0 /\ w[1] # 0)

ActivePhases == {"validated", "acknowledged", "release_observed"}
Phases == ActivePhases \cup
    {"none", "completed", "terminal_estop", "estop_sync_failed", "write_failed",
     "timed_out", "failed", "recovery_required"}
Active == tx.phase \in ActivePhases

\* Where the poll task holds the lock, waiting for the registers or a callback.
Holding == {"estop", "ensured", "retry", "assert", "assertRead", "undo", "lower", "lowerRead",
            "expire", "expireRead", "finish", "reassert", "reassertRead",
            "clear", "clearRead"}
LockFree == poll.at \notin Holding /\ sync \in {"no", "waiting"}

\* The records keep their shape, and only a run that ends in an error is in sync_estop.
PlcTypeOK ==
    /\ plc \in Words
    /\ ctl \in [sources : SUBSET Recoverable, estop : BOOLEAN, context : BOOLEAN,
                interrupted : BOOLEAN, run : {"idle", "running", "ending"}]
    /\ halting \in BOOLEAN
    /\ svc \in [connected : BOOLEAN, fresh : BOOLEAN,
                previous : Words \cup {NoSnapshot, Garbled},
                sources : SUBSET Latched, confirmed : SUBSET Latched,
                origins : SUBSET Latched, deferred : SUBSET Latched,
                safety : {"clear", "latched", "fault"}]
    /\ tx \in [phase : Phases, command : 0..2, sources : SUBSET Latched,
               pcset : BOOLEAN]
    /\ poll \in [at : Holding \cup {"off", "idle", "held"}, recon : BOOLEAN,
                 seen : Words \cup {NoSnapshot, Garbled},
                 answer : {"none", "ready", "unsafe", "rejected"}]
    /\ sync \in {"no", "waiting", "latching", "stopping", "write", "readback"}
    /\ fast \in BOOLEAN
    /\ left \in [Events -> Nat]
    /\ hist \in [cut : BOOLEAN, zero : BOOLEAN, recovered : BOOLEAN, pb2 : BOOLEAN]
    /\ (sync # "no") <=> (ctl.run = "ending")

FreshController == [sources |-> {}, estop |-> FALSE, context |-> FALSE,
                    interrupted |-> FALSE, run |-> "idle"]
NoTransaction == [phase |-> "none", command |-> 0, sources |-> {}, pcset |-> FALSE]
AtRest == [at |-> "idle", recon |-> FALSE, seen |-> NoSnapshot, answer |-> "none"]

\* _restore_persisted_latch: what a new process takes from the transaction on disk.
RestoredSources(t) == IF t.phase \in {"none", "completed"} THEN {} ELSE t.sources
RestoredOrigins(t) == IF t.phase = "terminal_estop" \/ t.pcset
                      THEN RestoredSources(t) ELSE {}
\* Faulty (EstopReachesController): a latch restored from disk counts as confirmed.
StartedConfirmed(t) ==
    [connected |-> FALSE, fresh |-> TRUE, previous |-> NoSnapshot,
     sources |-> RestoredSources(t), confirmed |-> RestoredSources(t),
     origins |-> RestoredOrigins(t), deferred |-> {}, safety |-> "latched"]

Started(t) == [connected |-> FALSE, fresh |-> TRUE, previous |-> NoSnapshot,
               sources |-> RestoredSources(t), confirmed |-> {},
               origins |-> RestoredOrigins(t), deferred |-> {},
               safety |-> IF RestoredSources(t) = {} THEN "clear" ELSE "latched"]

Init ==
    /\ plc = Zero
    /\ ctl = FreshController
    /\ halting = FALSE
    /\ tx = NoTransaction
    /\ svc = Started(NoTransaction)
    /\ poll = AtRest
    /\ sync = "no"
    /\ fast = FALSE
    /\ left \in Budgets
    /\ hist = [cut |-> FALSE, zero |-> FALSE, recovered |-> FALSE, pb2 |-> FALSE]

Spend(e) == left[e] > 0 /\ left' = [left EXCEPT ![e] = @ - 1]

\* The registers take the value w.
Put(w) ==
    /\ plc' = w
    /\ hist' = [hist EXCEPT !.zero = @ \/ w = Zero]

-----------------------------------------------------------------------------
(* The Controller's emergency latch.                                        *)

\* emergency_stop up to its first await.
Stopped(c, S) ==
    [c EXCEPT !.sources = @ \cup S, !.estop = TRUE,
              !.interrupted = IF c.estop THEN @ ELSE c.run # "idle"]

\* _cancel_active_runtime_task, for the first latch only.
Cancelled(c) == [c EXCEPT !.run = "idle"]

\* Faulty (LatchStopsRuns): the latch is set and the runtime goes on.
LatchedOnly(c, S) == Stopped(c, S)

StoppedDead(c, S) == IF c.estop THEN Stopped(c, S) ELSE Cancelled(Stopped(c, S))

\* The run that a cancellation ends may be the one that waits in sync_estop.
Cuts(c) == sync' = IF c.run = "idle" THEN "no" ELSE sync

\* plc_recovery_readiness: what it may answer; the device evidence is not modelled.
IdleResumeAllowed(c) ==
    /\ PB2 \in c.sources
    /\ c.sources \subseteq {PB2, Gui}
    /\ ~c.interrupted
Blocked(c) ==
    \/ ~c.estop
    \/ c.sources \cap Recoverable = {}
    \/ c.run # "idle"
Readiness(c, command) ==
    IF Blocked(c) THEN {"rejected"}
    ELSE {"unsafe", "rejected"} \cup
         (IF command = 1 /\ ~c.context /\ ~IdleResumeAllowed(c) THEN {} ELSE {"ready"})

\* emergency_resume and emergency_reset once they are authorised.
Resumed(c, released) ==
    [c EXCEPT !.sources = @ \ released, !.estop = FALSE, !.interrupted = FALSE,
              !.run = IF c.context THEN "running" ELSE @]
Recovered(c, command, released) ==
    IF command = 1 THEN Resumed(c, released) ELSE FreshController

-----------------------------------------------------------------------------
(* The service's bookkeeping.                                               *)

\* mark_disconnected.
Disconnected(v) ==
    [v EXCEPT !.deferred = {}, !.connected = FALSE,
              !.safety = IF v.sources = {} THEN "clear" ELSE "latched"]

\* _cache_fresh_snapshot.
Cached(v, w) == [v EXCEPT !.previous = w, !.connected = TRUE]

DeferredMatches(v, w) == v.deferred # {} /\ w = <<1, 1, 0>> /\ v.sources = v.deferred
Withdrawn(v, w) == IF DeferredMatches(v, w) THEN v ELSE [v EXCEPT !.deferred = {}]

\* _set_observed_safety_state of a valid snapshot.
Observed(v, w) ==
    [v EXCEPT !.safety = IF w = Zero /\ v.sources = {} THEN "clear" ELSE "latched"]

\* decode_snapshot: a command counts when the words are new.
Command(v, w) == IF w[2] = 1 /\ w[3] = 0 /\ v.previous # w THEN w[1] ELSE 0

\* _ensure_estop once the Controller has answered.
Ensured(v, S) == [v EXCEPT !.sources = @ \cup S, !.confirmed = @ \cup S,
                           !.safety = "latched"]

\* The sources a D101 that is set stands for.
Asserted(v, w) == IF w[2] = 0 THEN {} ELSE IF v.origins = {} THEN {PB2} ELSE v.origins

Rest == poll' = AtRest
Goto(pc) == poll' = [AtRest EXCEPT !.at = pc]

-----------------------------------------------------------------------------
(* The environment: buttons, ladder, operator, runs.                        *)

PressPB2 ==
    /\ plc[2] = 0
    /\ Spend("pb2")
    /\ plc' = [plc EXCEPT ![2] = 1]
    /\ hist' = [hist EXCEPT !.pb2 = TRUE]
    /\ UNCHANGED <<ctl, halting, svc, tx, poll, sync, fast>>

\* PB1, short for Resume and long for Reset, only while D101 is latched.
PressPB1(command) ==
    /\ plc[2] = 1 /\ plc[1] # command
    /\ Spend("pb1")
    /\ Put([plc EXCEPT ![1] = command])
    /\ UNCHANGED <<ctl, halting, svc, tx, poll, sync, fast>>

\* The ladder clears what D102 acknowledges, at times D102 with it.
LadderClears ==
    /\ plc[1] # 0 /\ plc[2] = 1 /\ plc[3] = 1
    /\ \E d102 \in {0, 1} : Put(<<0, 0, d102>>)
    /\ UNCHANGED <<ctl, halting, svc, tx, poll, sync, fast, left>>

\* start, or a planning series that keeps a checkpoint, behind its two gates.
StartRun(planning) ==
    /\ ctl.run = "idle" /\ ~ctl.estop /\ ctl.sources = {}
    /\ svc.sources = {} /\ svc.safety # "latched"
    /\ tx.phase \notin ActivePhases \cup {"recovery_required"}
    /\ Spend("start")
    /\ ctl' = [FreshController EXCEPT !.run = "running", !.context = planning]
    /\ hist' = [hist EXCEPT !.cut = FALSE]
    /\ UNCHANGED <<plc, halting, svc, tx, poll, sync, fast>>

EndRun ==
    /\ ctl.run = "running"
    /\ ctl' = [ctl EXCEPT !.run = "idle", !.context = FALSE]
    /\ UNCHANGED <<plc, halting, svc, tx, poll, sync, fast, left, hist>>

\* _escalate_terminal_error: the run latches the Controller, then calls sync_estop.
RaiseTerminal ==
    /\ ctl.run = "running" /\ ~ctl.context
    /\ Spend("terminal")
    /\ ctl' = [Stopped(ctl, {Terminal}) EXCEPT !.run = "ending"]
    /\ sync' = "waiting"
    /\ UNCHANGED <<plc, halting, svc, tx, poll, fast, hist>>

\* The operator's emergency stop: latched first, the runtime cancelled later.
GuiStop ==
    /\ Spend("gui_stop")
    /\ ctl' = Stopped(ctl, {Gui})
    /\ halting' = (halting \/ ~ctl.estop)
    /\ UNCHANGED <<plc, svc, tx, poll, sync, fast, hist>>

\* Faulty (PlcTypeOK): the cancelled run's sync_estop keeps the lock.
GuiStopReturnsOnly ==
    /\ halting
    /\ halting' = FALSE
    /\ ctl' = Cancelled(ctl)
    /\ hist' = [hist EXCEPT !.cut = @ \/ ctl.run # "idle"]
    /\ UNCHANGED <<plc, svc, tx, poll, sync, fast, left>>

GuiStopReturns ==
    /\ halting
    /\ halting' = FALSE
    /\ ctl' = Cancelled(ctl)
    /\ Cuts(ctl')
    /\ hist' = [hist EXCEPT !.cut = @ \/ ctl.run # "idle"]
    /\ UNCHANGED <<plc, svc, tx, poll, fast, left>>

\* request_gui_recovery and _authorize_emergency_recovery for the GUI.
GuiReleases == IF ctl.sources = {Terminal} THEN {Terminal} ELSE {Gui}

GuiRecovery(command) ==
    /\ LockFree /\ ~Active
    /\ svc.sources = {} /\ svc.safety = "clear"
    /\ PB2 \notin ctl.sources /\ ctl.sources \subseteq GuiReleases
    /\ Spend("gui_recovery")
    /\ ctl' = Recovered(ctl, command, GuiReleases)
    /\ Cuts(ctl')
    /\ hist' = [hist EXCEPT !.cut = FALSE]
    /\ UNCHANGED <<plc, halting, svc, tx, poll, fast>>

-----------------------------------------------------------------------------
(* The monitor thread: request_plc_fast_stop on the first D101 it sees.     *)

FastStop ==
    /\ svc.connected /\ poll.at # "off"
    /\ plc[2] = 1 /\ ~fast
    /\ fast' = TRUE
    /\ ctl' = Cancelled(ctl)
    /\ Cuts(ctl')
    /\ hist' = [hist EXCEPT !.cut = @ \/ ctl.run # "idle"]
    /\ UNCHANGED <<plc, halting, svc, tx, poll, left>>

FastRearm ==
    /\ svc.connected /\ poll.at # "off"
    /\ plc[2] = 0 /\ fast
    /\ fast' = FALSE
    /\ UNCHANGED <<plc, ctl, halting, svc, tx, poll, sync, left, hist>>

-----------------------------------------------------------------------------
(* Reads and writes of the registers.                                       *)

\* A write that succeeds.
Write(d, value) == Put([plc EXCEPT ![d] = value]) /\ UNCHANGED left

\* A write that fails, with or without effect.
WriteFails(d, value) ==
    /\ Spend("fault")
    /\ \E w \in {plc, [plc EXCEPT ![d] = value]} : Put(w)

\* A read that fails.
ReadFails == Spend("fault") /\ UNCHANGED <<plc, hist>>
ReadWorks == UNCHANGED <<plc, left, hist>>

\* An exception under the poll loop: the bridge is off line, the lock released.
PollRaises ==
    /\ svc' = Disconnected(svc)
    /\ Rest

-----------------------------------------------------------------------------
(* The recovery handshake.                                                  *)

\* _fail_recovery: every source of the transaction is latched again, and then
\* D101 if the bridge is connected.
FailRecovery(v, c, t) ==
    LET S == t.sources
        v2 == [Ensured(v, S) EXCEPT !.origins = @ \cup S]
    IN  /\ svc' = v2
        /\ ctl' = StoppedDead(c, S)
        /\ Cuts(ctl')
        /\ IF v.connected THEN Goto("reassert") /\ tx' = [t EXCEPT !.phase = "failed"]
           ELSE Rest /\ tx' = [t EXCEPT !.phase = "failed", !.sources = v2.sources]

\* _complete_released_handshake up to the Controller's answer.  A callback that
\* raises has cleared the latch already.
Complete(v, c, t) ==
    \E answer \in Readiness(c, t.command) :
        IF answer # "ready" THEN FailRecovery(v, c, t) /\ UNCHANGED <<left, hist>>
        ELSE LET c2 == Recovered(c, t.command, c.sources \cap Recoverable)
             IN  /\ hist' = [hist EXCEPT !.recovered = TRUE, !.cut = FALSE]
                 /\ \/ /\ ctl' = c2
                       /\ Cuts(c2)
                       /\ svc' = v
                       /\ tx' = t
                       /\ Goto("finish")
                       /\ UNCHANGED left
                    \/ Spend("fault") /\ FailRecovery(v, c2, t)

\* Faulty (ConfirmedIsHeld): the confirmed sources are left as they are.
FinishConfirmed ==
    /\ poll.at = "finish"
    /\ svc' = [svc EXCEPT !.sources = @ \ tx.sources, !.safety = "clear"]
    /\ tx' = [tx EXCEPT !.phase = "completed"]
    /\ Rest
    /\ UNCHANGED <<plc, ctl, halting, sync, fast, left, hist>>

\* The transaction's sources are released and it is completed.
Finish ==
    /\ poll.at = "finish"
    /\ LET rest == svc.sources \ tx.sources
       IN  svc' = [svc EXCEPT !.sources = rest,
                              !.confirmed = @ \ tx.sources, !.origins = @ \ tx.sources,
                              !.safety = IF rest = {} THEN "clear" ELSE "latched"]
    /\ tx' = [tx EXCEPT !.phase = "completed"]
    /\ Rest
    /\ UNCHANGED <<plc, ctl, halting, sync, fast, left, hist>>

\* Faulty (ReleasesOnce): (0,0,1) counts as released.
ReleasedUnverified(v, c, w) ==
    Complete(v, c, [tx EXCEPT !.phase = "release_observed"])

\* _advance_handshake: a release is either verified or has D102 lowered first;
\* anything else waits for the timeout.
ReleasedWith(v, c, w) ==
    LET t == [tx EXCEPT !.phase = "release_observed"]
    IN  IF w = Zero THEN Complete(v, c, t)
        ELSE /\ svc' = v /\ ctl' = c /\ Cuts(c) /\ tx' = t
             /\ Goto("lower")
             /\ UNCHANGED <<left, hist>>

Advance(v, c, w, expired) ==
    IF w \in {Zero, <<0, 0, 1>>} THEN ReleasedWith(v, c, w)
    ELSE /\ svc' = v /\ ctl' = c /\ Cuts(c)
         /\ IF expired THEN Goto("expire") ELSE Rest
         /\ UNCHANGED <<tx, left, hist>>

\* _start_handshake from the readiness answer on.
Answered(v, command, w, answer) ==
    IF answer = "ready"
    THEN /\ svc' = [v EXCEPT !.deferred = {}]
         /\ tx' = [phase |-> "validated", command |-> command, pcset |-> FALSE,
                   sources |-> IF v.sources = {} THEN {PB2} ELSE v.sources]
         /\ hist' = [hist EXCEPT !.recovered = FALSE]
         /\ Goto("assert")
    ELSE /\ svc' = [v EXCEPT !.deferred =
                       IF answer = "unsafe" /\ command = 1 /\ w = <<1, 1, 0>>
                       THEN v.sources ELSE {}]
         /\ Rest
         /\ UNCHANGED <<tx, hist>>

Begin(v, c, command, w) ==
    /\ \E answer \in Readiness(c, command) :
            Answered([v EXCEPT !.deferred = {}], command, w, answer)
    /\ ctl' = c /\ Cuts(c)
    /\ UNCHANGED left

\* A deferred resume is retried: readiness first, then a fresh read.
Retry(v, c) ==
    /\ \E answer \in Readiness(c, 1) :
            poll' = [AtRest EXCEPT !.at = "retry", !.answer = answer]
    /\ svc' = v /\ ctl' = c /\ Cuts(c)
    /\ UNCHANGED <<tx, left, hist>>

RetryReads ==
    /\ poll.at = "retry"
    /\ \/ ReadFails /\ PollRaises /\ UNCHANGED tx
       \/ /\ UNCHANGED <<plc, left>>
          /\ IF DeferredMatches(svc, plc) THEN Answered(svc, 1, plc, poll.answer)
             ELSE /\ svc' = [svc EXCEPT !.deferred = {}]
                  /\ Rest
                  /\ UNCHANGED <<tx, hist>>
    /\ UNCHANGED <<ctl, halting, sync, fast>>

\* D102 := 1.
Assert ==
    /\ poll.at = "assert"
    /\ \/ /\ plc' = [plc EXCEPT ![3] = 1]
          /\ hist' = [hist EXCEPT !.zero = FALSE]
          /\ Goto("assertRead")
          /\ UNCHANGED left
       \/ WriteFails(3, 1) /\ Goto("undo")
    /\ UNCHANGED <<ctl, halting, svc, tx, sync, fast>>

\* The readback: acknowledged, or already released, or not observed.
AssertReads ==
    /\ poll.at = "assertRead"
    /\ \/ ReadFails /\ Goto("undo") /\ UNCHANGED <<ctl, svc, tx, sync>>
       \/ /\ plc[3] # 1 /\ plc # Zero
          /\ ReadWorks
          /\ svc' = Cached(svc, plc)
          /\ Goto("undo")
          /\ UNCHANGED <<ctl, tx, sync>>
       \/ /\ plc[3] = 1
          /\ ReadWorks
          /\ svc' = [Cached(svc, plc) EXCEPT !.safety = "latched"]
          /\ tx' = [tx EXCEPT !.phase = "acknowledged"]
          /\ Rest
          /\ UNCHANGED <<ctl, sync>>
       \/ /\ plc = Zero
          /\ UNCHANGED plc
          /\ ReleasedWith([Cached(svc, plc) EXCEPT !.safety = "latched"], ctl, plc)
    /\ UNCHANGED <<halting, fast>>

\* The acknowledgement failed: D102 is lowered once, whatever comes of it.
Undo ==
    /\ poll.at = "undo"
    /\ Write(3, 0) \/ WriteFails(3, 0)
    /\ tx' = [tx EXCEPT !.phase = "write_failed"]
    /\ Rest
    /\ UNCHANGED <<ctl, halting, svc, sync, fast>>

\* D102 := 0 after the release, and the readback that verifies all three words.
Lower ==
    /\ poll.at = "lower"
    /\ \/ Write(3, 0) /\ Goto("lowerRead") /\ UNCHANGED <<ctl, svc, tx, sync>>
       \/ /\ left["fault"] > 0
          /\ left' = [left EXCEPT !["fault"] = @ - 1]
          /\ \E w \in {plc, [plc EXCEPT ![3] = 0]} : Put(w)
          /\ FailRecovery(svc, ctl, tx)
    /\ UNCHANGED <<halting, fast>>

LowerReads ==
    /\ poll.at = "lowerRead"
    /\ \/ ReadFails /\ FailRecovery(svc, ctl, tx)
       \/ /\ plc = Zero
          /\ UNCHANGED plc
          /\ Complete(Cached(svc, plc), ctl, tx)
       \/ /\ plc # Zero
          /\ ReadWorks
          /\ LET again == IF plc[2] = 1 THEN {PB2} ELSE {}
             IN  FailRecovery([Cached(svc, plc) EXCEPT !.sources = @ \cup again],
                              ctl, [tx EXCEPT !.sources = @ \cup again])
    /\ UNCHANGED <<halting, fast>>

\* Faulty (HandshakeEnds): the timeout lowers D102 and goes on waiting.
TimedOutWaiting(v) == svc' = v /\ Rest /\ UNCHANGED tx

TimedOut(v) ==
    /\ svc' = [v EXCEPT !.safety = "latched"]
    /\ tx' = [tx EXCEPT !.phase = "timed_out"]
    /\ Rest

\* The timeout lowers D102; a failure to do so is only noted.
Expire ==
    /\ poll.at = "expire"
    /\ \/ Write(3, 0) /\ Goto("expireRead") /\ UNCHANGED <<svc, tx>>
       \/ WriteFails(3, 0) /\ TimedOut(svc)
    /\ UNCHANGED <<ctl, halting, sync, fast>>

ExpireReads ==
    /\ poll.at = "expireRead"
    /\ \/ ReadFails /\ TimedOut(svc)
       \/ ReadWorks /\ TimedOut(Cached(svc, plc))
    /\ UNCHANGED <<ctl, halting, sync, fast>>

\* D101 := 1 after a failed recovery, with its readback, best effort.
Reassert ==
    /\ poll.at = "reassert"
    /\ \/ Write(2, 1) /\ Goto("reassertRead") /\ UNCHANGED tx
       \/ WriteFails(2, 1) /\ Rest /\ tx' = [tx EXCEPT !.sources = svc.sources]
    /\ UNCHANGED <<ctl, halting, svc, sync, fast>>

ReassertReads ==
    /\ poll.at = "reassertRead"
    /\ \/ /\ ReadFails
          /\ tx' = [tx EXCEPT !.sources = svc.sources]
          /\ UNCHANGED svc
       \/ /\ ReadWorks
          /\ svc' = Cached(svc, plc)
          /\ tx' = [tx EXCEPT !.pcset = TRUE, !.sources = svc.sources]
    /\ Rest
    /\ UNCHANGED <<ctl, halting, sync, fast>>

-----------------------------------------------------------------------------
(* The poll task.                                                           *)

\* _reconcile_uncertain_handshake: an acknowledgement found after a reconnect is
\* never taken up again.
Reconcile(v, c, w, expired) ==
    LET S == IF tx.sources # {} THEN tx.sources
             ELSE IF v.sources # {} THEN v.sources ELSE {PB2}
        unsure == S \ v.confirmed
        late == tx.phase = "acknowledged" /\ w[3] = 1 /\ (w[1] # 0 \/ w[2] # 0)
    IN  /\ svc' = Ensured(v, S)
        /\ ctl' = IF unsure = {} THEN c ELSE StoppedDead(c, unsure)
        /\ Cuts(ctl')
        /\ tx' = [tx EXCEPT !.sources = S,
                    !.phase = IF late /\ expired THEN "timed_out" ELSE "recovery_required"]
        /\ IF w[3] = 1 THEN Goto("clear") ELSE Rest
        /\ UNCHANGED <<left, hist>>

Clear ==
    /\ poll.at = "clear"
    /\ \/ Write(3, 0) /\ Goto("clearRead") /\ UNCHANGED tx
       \/ /\ WriteFails(3, 0)
          /\ tx' = [tx EXCEPT !.phase = "recovery_required"]
          /\ Rest
    /\ UNCHANGED <<ctl, halting, svc, sync, fast>>

ClearReads ==
    /\ poll.at = "clearRead"
    /\ \/ /\ ReadFails
          /\ tx' = [tx EXCEPT !.phase = "recovery_required"]
          /\ UNCHANGED svc
       \/ /\ ReadWorks
          /\ svc' = Cached(svc, plc)
          /\ tx' = IF plc[3] = 0 THEN tx ELSE [tx EXCEPT !.phase = "recovery_required"]
    /\ Rest
    /\ UNCHANGED <<ctl, halting, sync, fast>>

\* What a valid snapshot asks for when no handshake is under way.
Request(v, c, w, recon) ==
    LET o == Observed(v, w)
        command == Command(svc, w)
    IN  \/ /\ recon /\ w[2] = 1 /\ w[1] = 1
          /\ Begin(o, c, 1, w)
       \/ /\ recon /\ w[2] = 1 /\ w[1] = 2
          /\ svc' = o /\ ctl' = c /\ Cuts(c)
          /\ tx' = [phase |-> "recovery_required", command |-> 2, pcset |-> FALSE,
                    sources |-> IF o.sources = {} THEN {PB2} ELSE o.sources]
          /\ Rest
          /\ UNCHANGED <<left, hist>>
       \/ /\ ~recon /\ command # 0
          /\ Begin(o, c, command, w)
       \/ /\ ~recon /\ command = 0 /\ o.deferred # {}
          /\ Retry(o, c)
       \/ /\ IF recon THEN w[2] = 0 \/ w[1] = 0 ELSE command = 0
          /\ svc' = o /\ ctl' = c /\ Cuts(c)
          /\ Rest
          /\ UNCHANGED <<tx, left, hist>>

\* The rest of _observe_snapshot_locked, once the sources are ensured.
Decide(v, c, w, recon, expired) ==
    IF recon /\ (w[3] = 1 \/ Active) THEN Reconcile(v, c, w, expired)
    ELSE IF tx.phase = "acknowledged" THEN Advance(v, c, w, expired)
    ELSE Request(v, c, w, recon)

\* Connect when off line, then read: the snapshot is in hand, the lock is not.
PollReads ==
    /\ poll.at = "idle"
    /\ \/ ReadFails /\ PollRaises
       \/ /\ ReadWorks
          /\ poll' = [AtRest EXCEPT !.at = "held", !.seen = plc,
                                    !.recon = ~svc.connected \/ svc.fresh]
          /\ svc' = [svc EXCEPT !.connected = TRUE]
    /\ UNCHANGED <<ctl, halting, tx, sync, fast>>

PollReadsGarbled ==
    /\ poll.at = "idle"
    /\ Spend("garbled")
    /\ poll' = [AtRest EXCEPT !.at = "held", !.seen = Garbled,
                              !.recon = ~svc.connected \/ svc.fresh]
    /\ svc' = [svc EXCEPT !.connected = TRUE]
    /\ UNCHANGED <<plc, ctl, halting, tx, sync, fast, hist>>

\* _observe_snapshot: the snapshot is judged under the lock, as old as it is.
Taken(v, w) ==
    LET v1 == Withdrawn(Cached(v, w), w)
    IN  [v1 EXCEPT !.fresh = FALSE, !.origins = IF w[2] = 0 THEN {} ELSE @]

Observe(expired) ==
    /\ poll.at = "held" /\ LockFree
    /\ LET w == poll.seen
           v == Taken(svc, w)
           S == Asserted(v, w)
           unsure == S \ v.confirmed
       IN  IF Fault(w)
           THEN /\ svc' = [Withdrawn(Cached(svc, w), w) EXCEPT !.safety = "fault",
                                                             !.fresh = FALSE]
                /\ Rest
                /\ UNCHANGED <<ctl, tx, sync, left, hist>>
           ELSE IF unsure # {} /\ ~ctl.estop
           THEN /\ svc' = [v EXCEPT !.sources = @ \cup S, !.safety = "latched",
                                    !.previous = svc.previous]
                /\ ctl' = Stopped(ctl, unsure)
                /\ poll' = [poll EXCEPT !.at = "estop"]
                /\ UNCHANGED <<tx, sync, left, hist>>
           ELSE Decide(IF S = {} THEN v ELSE Ensured(v, S),
                       IF unsure = {} THEN ctl ELSE Stopped(ctl, unsure),
                       w, poll.recon, expired)
    /\ UNCHANGED <<plc, halting, fast>>

\* emergency_stop has cancelled the runtime; a replay that it could not stop
\* makes an exception of it in _ensure_estop.
EstopReturns ==
    /\ poll.at = "estop"
    /\ ctl' = Cancelled(ctl)
    /\ Cuts(ctl')
    /\ hist' = [hist EXCEPT !.cut = @ \/ ctl.run # "idle"]
    /\ \/ /\ Spend("fault")
          /\ svc' = Disconnected([svc EXCEPT !.previous = poll.seen])
          /\ Rest
       \/ /\ poll' = [poll EXCEPT !.at = "ensured"]
          /\ UNCHANGED <<svc, left>>
    /\ UNCHANGED <<plc, halting, tx, fast>>

ObserveEnsured(expired) ==
    /\ poll.at = "ensured"
    /\ LET w == poll.seen
       IN  Decide(Ensured([svc EXCEPT !.previous = w], Asserted(svc, w)), ctl, w,
                  poll.recon, expired)
    /\ UNCHANGED <<plc, halting, fast>>

-----------------------------------------------------------------------------
(* _sync_estop_locked: the run that ended in an error waits for it.          *)

\* The run is over: sync_estop has returned, whatever came of it.
Synced == sync' = "no" /\ ctl' = Cancelled(ctl)

\* Faulty (LatchIsDurable): a failed synchronisation closes the transaction.
SyncFailedDone(t) == IF Active THEN t ELSE [t EXCEPT !.phase = "completed"]

SyncFailed(t) == IF Active THEN t ELSE [t EXCEPT !.phase = "estop_sync_failed"]

\* _ensure_estop up to its await: the source is in memory, and emergency_stop
\* has latched the Controller again, or for the first time if the operator had
\* released it since.
SyncAcquire ==
    /\ sync = "waiting" /\ LockFree
    /\ svc' = [svc EXCEPT !.sources = @ \cup {Terminal}, !.safety = "latched"]
    /\ ctl' = Stopped(ctl, {Terminal})
    /\ sync' = IF ctl.estop THEN "latching" ELSE "stopping"
    /\ UNCHANGED <<plc, halting, tx, poll, fast, left, hist>>

\* emergency_stop has returned: only now the transaction goes to disk.
SyncLatched ==
    /\ sync \in {"latching", "stopping"}
    /\ LET v == Ensured(svc, {Terminal})
           t == IF Active THEN [tx EXCEPT !.sources = @ \cup v.sources]
                ELSE [phase |-> "terminal_estop", command |-> 0, pcset |-> FALSE,
                      sources |-> v.sources]
       IN  IF svc.connected
           THEN /\ svc' = [v EXCEPT !.origins = @ \cup {Terminal}]
                /\ tx' = t
                /\ sync' = "write"
                /\ UNCHANGED ctl
           ELSE /\ svc' = [v EXCEPT !.origins = @ \ {Terminal}]
                /\ tx' = SyncFailed(t)
                /\ Synced
    /\ UNCHANGED <<plc, halting, poll, fast, left, hist>>

\* A first emergency_stop that could not stop the replay makes an exception of it.
SyncRefused ==
    /\ sync = "stopping"
    /\ Spend("fault")
    /\ Synced
    /\ UNCHANGED <<plc, halting, svc, tx, poll, fast, hist>>

SyncWrites ==
    /\ sync = "write"
    /\ \/ /\ Write(2, 1)
          /\ sync' = "readback"
          /\ tx' = [tx EXCEPT !.pcset = TRUE]
          /\ UNCHANGED ctl
       \/ WriteFails(2, 1) /\ Synced /\ tx' = SyncFailed(tx)
    /\ UNCHANGED <<halting, svc, poll, fast>>

SyncReads ==
    /\ sync = "readback"
    /\ Synced
    /\ \/ /\ ReadFails
          /\ tx' = SyncFailed([tx EXCEPT !.pcset = FALSE])
          /\ UNCHANGED svc
       \/ /\ ReadWorks
          /\ svc' = Cached(svc, plc)
          /\ tx' = IF plc[2] = 1 THEN tx ELSE SyncFailed(tx)
    /\ UNCHANGED <<halting, poll, fast>>

-----------------------------------------------------------------------------
(* The operator's PLC page, and the process itself.                          *)

\* preflight: connect, read and cache, without acting on what is read.
Preflight ==
    /\ LockFree /\ ~Active
    /\ Spend("preflight")
    /\ \E w \in {plc} \cup (IF left["garbled"] > 0 THEN {Garbled} ELSE {}) :
          LET v == Withdrawn(Cached(svc, w), w)
          IN  svc' = IF Fault(w) THEN [v EXCEPT !.safety = "fault"] ELSE Observed(v, w)
    /\ UNCHANGED <<plc, ctl, halting, tx, poll, sync, fast, hist>>

PreflightFails ==
    /\ LockFree /\ ~Active
    /\ Spend("preflight")
    /\ svc' = Disconnected(svc)
    /\ UNCHANGED <<plc, ctl, halting, tx, poll, sync, fast, hist>>

\* shutdown: the poll task is cancelled wherever it is, D102 lowered if that works.
Lowered(restarted) ==
    /\ plc' \in {plc, IF svc.connected THEN [plc EXCEPT ![3] = 0] ELSE plc}
    /\ hist' = [hist EXCEPT !.zero = @ \/ plc' = Zero, !.cut = @ /\ ~restarted]
    /\ sync' = "no"
    /\ fast' = FALSE

Disconnect ==
    /\ ctl.run = "idle" /\ ~Active /\ poll.at # "off"
    /\ Spend("disconnect")
    /\ Lowered(FALSE)
    /\ svc' = [Disconnected(svc) EXCEPT !.fresh = TRUE]
    /\ poll' = [AtRest EXCEPT !.at = "off"]
    /\ UNCHANGED <<ctl, halting, tx>>

Connect ==
    /\ poll.at = "off"
    /\ Rest
    /\ UNCHANGED <<plc, ctl, halting, svc, tx, sync, fast, left, hist>>

\* The process ends, in an orderly way or not, and another one starts.
Restart ==
    /\ Spend("crash")
    /\ Lowered(TRUE)
    /\ svc' = Started(tx)
    /\ ctl' = FreshController
    /\ halting' = FALSE
    /\ Rest
    /\ UNCHANGED tx

-----------------------------------------------------------------------------
PollStep ==
    \/ PollReads \/ PollReadsGarbled
    \/ \E expired \in BOOLEAN : Observe(expired) \/ ObserveEnsured(expired)
    \/ EstopReturns
    \/ RetryReads \/ Assert \/ AssertReads \/ Undo
    \/ Lower \/ LowerReads \/ Finish
    \/ Expire \/ ExpireReads
    \/ Reassert \/ ReassertReads
    \/ Clear \/ ClearReads

SyncStep == SyncLatched \/ SyncRefused \/ SyncWrites \/ SyncReads

Environment ==
    \/ PressPB2
    \/ \E command \in {1, 2} : PressPB1(command) \/ GuiRecovery(command)
    \/ \E planning \in BOOLEAN : StartRun(planning)
    \/ EndRun \/ RaiseTerminal
    \/ GuiStop
    \/ Preflight \/ PreflightFails
    \/ Disconnect \/ Connect \/ Restart

Next ==
    \/ Environment
    \/ LadderClears
    \/ GuiStopReturns
    \/ FastStop \/ FastRearm
    \/ PollStep
    \/ SyncAcquire \/ SyncStep

\* The event loop runs every task that can go on; its locks are handed over in
\* the order of asking; time passes.
Fairness ==
    /\ WF_vars(PollStep)
    /\ WF_vars(SyncStep)
    /\ WF_vars(GuiStopReturns)
    /\ SF_vars(SyncAcquire)
    /\ SF_vars(Observe(TRUE))

Spec == Init /\ [][Next]_vars /\ Fairness

-----------------------------------------------------------------------------
(* Properties.                                                              *)

\* A source the service takes for latched in the Controller is latched there,
\* but for the instant between the Controller's release and the end of the
\* handshake (the cached _controller_latch_confirmed_sources is never stale).
ConfirmedIsHeld ==
    poll.at # "finish" => svc.confirmed \subseteq ctl.sources

\* While the service holds a confirmed source nothing runs but the run that a
\* stop under way is about to end.
LatchStopsRuns ==
    svc.confirmed # {} /\ poll.at # "finish" => ctl.estop /\ (ctl.run # "running" \/ halting)

\* The sources that are certain: the button's, and those the Controller has confirmed.
Firm == svc.sources \cap (svc.confirmed \cup {PB2})

\* What the service holds for certain survives a restart: the transaction on disk
\* names a source, or D101 is still set for the next process to find.
LatchIsDurable ==
    Firm # {} => RestoredSources(tx) # {} \/ plc[2] = 1

\* The same for every source: a terminal error is held from the start of its
\* synchronisation, and stays held when that is cancelled.
HeldIsDurable ==
    svc.sources # {} => RestoredSources(tx) # {} \/ plc[2] = 1

\* An acknowledgement is raised only for a latched Controller with nothing running.
AcknowledgeIsSafe ==
    plc'[3] = 1 /\ plc[3] = 0 => ctl.estop /\ ctl.run = "idle" /\ Active

AcknowledgesOnlyLatched == [][AcknowledgeIsSafe]_vars

\* The Controller is released for the PLC once per transaction, and only when all
\* three words have been zero since the acknowledgement.
Releases == poll'.at = "finish" /\ poll.at # "finish"
ReleaseIsVerified ==
    Releases => hist'.zero /\ ~hist.recovered

ReleasesOnce == [][ReleaseIsVerified]_vars

\* A D101 that stays set latches the Controller unless the monitor is off.
EstopReachesController ==
    plc[2] = 1 ~> ctl.estop \/ plc[2] = 0 \/ poll.at = "off"

\* Every handshake comes to its end.
HandshakeEnds == Active ~> ~Active

\* A PLC resume after a run was cut short restarts it from a checkpoint.
ResumeIsBacked ==
    Releases /\ tx.command = 1 /\ hist.cut => ctl.context
ResumeNeedsCheckpoint == [][ResumeIsBacked]_vars

\* A D101 the PC set is never taken for the button.
SourceIsRight == ~hist.pb2 => PB2 \notin svc.sources
=============================================================================
