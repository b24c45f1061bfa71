------------------------- MODULE PlanningTailProofs -------------------------
(* In the tail of a planning run no owner moves a device while the operator  *)
(* teleoperates, the loop keeps its promises when the tail steps it, the     *)
(* test machine waits for the verified transfer, and a stop leaves few       *)
(* steps: for any graph of stages, any handoffs and any number of sessions.  *)
EXTENDS PlanningTail, RunLoopProofs, FiniteSetTheorems

\* What is proved of the registry alone.
RegistryProof == INSTANCE TeleopHandoffProofs

\* The two instances of the registry are one and the same.
LEMMA SameRegistry ==
    /\ Registry!Init <=> RegistryProof!Init
    /\ Registry!Next <=> RegistryProof!Next
    /\ Registry!vars = RegistryProof!vars
    /\ Registry!TypeOK <=> RegistryProof!TypeOK
    /\ Registry!SessionsContained <=> RegistryProof!SessionsContained
    /\ Registry!ConfirmedIsReleased <=> RegistryProof!ConfirmedIsReleased
<1>1. Registry!Init <=> RegistryProof!Init
  BY DEF Registry!Init, RegistryProof!Init
<1>2. Registry!vars = RegistryProof!vars
  BY DEF Registry!vars, RegistryProof!vars
<1>3. Registry!TypeOK <=> RegistryProof!TypeOK
  BY DEF Registry!TypeOK, RegistryProof!TypeOK, Registry!Statuses, RegistryProof!Statuses
<1>4. Registry!SessionsContained <=> RegistryProof!SessionsContained
  BY DEF Registry!SessionsContained, RegistryProof!SessionsContained
<1>5. Registry!ConfirmedIsReleased <=> RegistryProof!ConfirmedIsReleased
  BY DEF Registry!ConfirmedIsReleased, RegistryProof!ConfirmedIsReleased
<1>6. Registry!Next <=> RegistryProof!Next
  BY DEF Registry!Next, RegistryProof!Next, Registry!Popup, RegistryProof!Popup,
      Registry!Run, RegistryProof!Run, Registry!Handler, RegistryProof!Handler,
      Registry!Launch, RegistryProof!Launch, Registry!Bind, RegistryProof!Bind,
      Registry!BindRefused, RegistryProof!BindRefused,
      Registry!AnswerUnbound, RegistryProof!AnswerUnbound, Registry!MayBind,
      RegistryProof!MayBind, Registry!Undo, RegistryProof!Undo, Registry!Stop,
      RegistryProof!Stop, Registry!Release, RegistryProof!Release,
      Registry!AskStart, RegistryProof!AskStart, Registry!Confirm,
      RegistryProof!Confirm, Registry!Create, RegistryProof!Create,
      Registry!Attach, RegistryProof!Attach, Registry!Cancel, RegistryProof!Cancel,
      Registry!Open, RegistryProof!Open, Registry!BoundTo, RegistryProof!BoundTo,
      Registry!StopAll, RegistryProof!StopAll
<1> QED BY <1>1, <1>2, <1>3, <1>4, <1>5, <1>6

-----------------------------------------------------------------------------
(* Which actions of the tail touch the registry, and how.                   *)

\* The steps of the tail that neither open nor conclude a handoff, nor wait
\* for one.
Apart ==
    \/ BeginTail \/ BeginStep \/ OutOfSteps \/ Step \/ StepRaises
    \/ HaltAfterStep \/ StepAgain \/ TransferRefused

LEMMA ApartKeepsRecords ==
    Apart => tail # "waiting" /\ tail' # "waiting" /\ UNCHANGED records
<1> SUFFICES ASSUME Apart PROVE tail # "waiting" /\ tail' # "waiting" /\ UNCHANGED records
  OBVIOUS
<1>1. CASE BeginTail \/ BeginStep \/ OutOfSteps
  BY <1>1 DEF BeginTail, BeginStep, OutOfSteps
<1>2. CASE Step
  BY <1>2 DEF Step, Returns
<1>3. CASE StepRaises
  BY <1>3 DEF StepRaises
<1>4. CASE HaltAfterStep \/ StepAgain
  BY <1>4 DEF HaltAfterStep, StepAgain, Halt
<1>5. CASE TransferRefused
  BY <1>5 DEF TransferRefused, Ready, Fail
<1> QED BY <1>1, <1>2, <1>3, <1>4, <1>5 DEF Apart

LEMMA ApartKeepsToken == Apart => token' = token
  BY DEF Apart, BeginTail, BeginStep, OutOfSteps, Step, StepRaises, HaltAfterStep,
         StepAgain, TransferRefused

\* Vision's evidence is attached, or the registry is left alone.
Passing == EvidenceFails \/ HoldForHelp \/ EndPaused \/ EndCycle \/ GoOn

LEMMA PassingAttaches ==
    Passing => /\ tail # "waiting" /\ tail' # "waiting"
               /\ token' = token
               /\ \/ UNCHANGED records
                  \/ /\ token # NoTransfer
                     /\ \E ok \in BOOLEAN : Registry!Attach(token, ok)
<1>1. EvidenceFails \/ Passed => /\ tail # "waiting" /\ token' = token
                                /\ \/ UNCHANGED records
                                   \/ /\ token # NoTransfer
                                      /\ \E ok \in BOOLEAN : Registry!Attach(token, ok)
  BY DEF EvidenceFails, Passed, Ready, NeedsEvidence
<1>2. Passing => tail' # "waiting"
  BY DEF Passing, EvidenceFails, HoldForHelp, EndPaused, EndCycle, GoOn, Fail
<1> QED BY <1>1, <1>2 DEF Passing, HoldForHelp, EndPaused, EndCycle, GoOn

\* A stop of the run cancels the open handoffs.
Cancelling == StopCancels \/ EmergencyEnds

LEMMA CancellingCancels ==
    Cancelling => /\ token' = token
                  /\ \E failing \in SUBSET Sessions : Registry!Cancel(failing)
<1>1. StopCancels => token' = token /\ \E failing \in SUBSET Sessions : Registry!Cancel(failing)
  BY DEF StopCancels, tailVars
<1>2. EmergencyEnds => token' = token /\ \E failing \in SUBSET Sessions : Registry!Cancel(failing)
  BY DEF EmergencyEnds
<1> QED BY <1>1, <1>2 DEF Cancelling

\* An end of a wait.
Awaking == TransferConfirmed \/ TransferStopped \/ HelpArrives \/ HaltHolding

LEMMA AwakingFinds ==
    Awaking =>
        /\ tail' # "waiting"
        /\ token' = token
        /\ \/ /\ UNCHANGED records
              /\ tail = "waiting" => status[token] \in {"operator_confirmed", "cancelled"}
           \/ \E failing \in SUBSET Sessions : Registry!Cancel(failing)
<1>1. CASE TransferConfirmed
  BY <1>1 DEF TransferConfirmed
<1>2. CASE TransferStopped
  BY <1>2 DEF TransferStopped, Fail
<1>3. CASE HelpArrives \/ HaltHolding
  BY <1>3 DEF HelpArrives, HaltHolding, Halt
<1> QED BY <1>1, <1>2, <1>3 DEF Awaking

LEMMA TailSteps ==
    TailNext => \/ Apart \/ Passing \/ Awaking \/ Cancelling \/ OpenTransfer
                \/ Request \/ Teleoperate
  BY DEF TailNext, TailTask, AfterStep, InWait, Apart, Passing, Awaking, Cancelling

-----------------------------------------------------------------------------
(* The tail waits for the one pending handoff.                              *)

AwaitsPending ==
    \A h \in Transfers : status[h] = "pending" => tail = "waiting" /\ token = h

TailInv ==
    /\ Registry!TypeOK
    /\ Registry!SessionsContained
    /\ Registry!ConfirmedIsReleased
    /\ token \in Transfers \cup {NoTransfer}
    /\ AwaitsPending

LEMMA TailInitInv == TailInit => TailInv /\ Registry!Init
<1> SUFFICES ASSUME TailInit PROVE TailInv /\ Registry!Init
  OBVIOUS
<1>1. Registry!Init /\ token = NoTransfer
  BY DEF TailInit
<1>2. RegistryProof!RegistryInv
  BY <1>1, SameRegistry, RegistryAssumption, RegistryProof!RegistryInit
<1>3. AwaitsPending
  BY <1>1 DEF Registry!Init, AwaitsPending
<1> QED
  BY <1>1, <1>2, <1>3, SameRegistry DEF TailInv, RegistryProof!RegistryInv

\* The popup opens no handoff.
LEMMA PopupOpensNone ==
    ASSUME Registry!TypeOK, Registry!Popup, NEW h \in Transfers, status'[h] = "pending"
    PROVE  status[h] = "pending"
  BY DEF Registry!TypeOK, Registry!Popup, Registry!Handler, Registry!Launch, Registry!Bind,
      Registry!BindRefused, Registry!AnswerUnbound, Registry!Undo, Registry!Stop,
      Registry!Release, Registry!AskStart, Registry!Confirm

\* A cancellation leaves none.
LEMMA CancelLeavesNone ==
    ASSUME NEW failing \in SUBSET Sessions, Registry!Cancel(failing), NEW h \in Transfers
    PROVE  status'[h] # "pending"
  BY DEF Registry!Cancel, Registry!Open

LEMMA TailKeepsRegistry ==
    TailInv /\ TailNext => Registry!Next \/ UNCHANGED Registry!vars
<1> SUFFICES ASSUME TailInv, TailNext PROVE Registry!Next \/ UNCHANGED records
  BY DEF records, Registry!vars
<1>1. CASE Apart
  BY <1>1, ApartKeepsRecords
<1>2. CASE Passing
  BY <1>2, PassingAttaches DEF TailInv, Registry!Next, Registry!Run
<1>3. CASE Awaking \/ Cancelling
  BY <1>3, AwakingFinds, CancellingCancels DEF Registry!Next, Registry!Run
<1>4. CASE OpenTransfer
  BY <1>4 DEF OpenTransfer, Registry!Next, Registry!Run
<1>5. CASE Request
  BY <1>5 DEF Request
<1>6. CASE Teleoperate
  BY <1>6 DEF Teleoperate, Registry!Next
<1> QED BY <1>1, <1>2, <1>3, <1>4, <1>5, <1>6, TailSteps

\* Whatever the tail, the requests and the popup do, at most the handoff the
\* tail waits for is pending afterwards.
LEMMA StillAwaits ==
    ASSUME TailInv, TailNext
    PROVE  AwaitsPending' /\ token' \in Transfers \cup {NoTransfer}
<1> USE DEF TailInv
<1>1. CASE Apart
  <2>1. status' = status /\ token' = token /\ tail # "waiting"
    BY <1>1, ApartKeepsRecords, ApartKeepsToken DEF records
  <2> QED BY <2>1 DEF AwaitsPending
<1>2. CASE Passing
  <2>1. tail # "waiting" /\ token' = token
    BY <1>2, PassingAttaches
  <2>2. \A h \in Transfers : status'[h] = "pending" => status[h] = "pending"
    BY <1>2, PassingAttaches DEF records, Registry!Attach, Registry!TypeOK
  <2> QED BY <2>1, <2>2 DEF AwaitsPending
<1>3. CASE Awaking
  <2>1. token' = token
    BY <1>3, AwakingFinds
  <2>2. ASSUME NEW h \in Transfers PROVE status'[h] # "pending"
    BY <1>3, AwakingFinds, CancelLeavesNone DEF records, AwaitsPending
  <2> QED BY <2>1, <2>2 DEF AwaitsPending
<1>4. CASE Cancelling
  <2>1. token' = token
    BY <1>4, CancellingCancels
  <2>2. ASSUME NEW h \in Transfers PROVE status'[h] # "pending"
    BY <1>4, CancellingCancels, CancelLeavesNone
  <2> QED BY <2>1, <2>2 DEF AwaitsPending
<1>5. CASE OpenTransfer
  <2>1. PICK h \in Transfers : Registry!Create(h) /\ token' = h
    BY <1>5 DEF OpenTransfer
  <2>2. tail = "stepped" /\ tail' = "waiting"
    BY <1>5 DEF OpenTransfer, Ready
  <2>3. \A g \in Transfers : g # h => status'[g] = status[g] /\ status[g] # "pending"
    BY <2>1, <2>2 DEF Registry!Create, Registry!TypeOK, AwaitsPending
  <2> QED BY <2>1, <2>2, <2>3 DEF AwaitsPending
<1>6. CASE Request
  BY <1>6 DEF Request, tailVars, records, AwaitsPending
<1>7. CASE Teleoperate
  <2>1. UNCHANGED tailVars /\ Registry!Popup
    BY <1>7 DEF Teleoperate
  <2>2. \A h \in Transfers : status'[h] = "pending" => status[h] = "pending"
    BY <2>1, PopupOpensNone
  <2> QED BY <2>1, <2>2 DEF tailVars, AwaitsPending
<1> QED BY <1>1, <1>2, <1>3, <1>4, <1>5, <1>6, <1>7, TailSteps

LEMMA TailStep == TailInv /\ [TailNext]_tvars => TailInv' /\ [Registry!Next]_(Registry!vars)
<1> SUFFICES ASSUME TailInv, [TailNext]_tvars
             PROVE  TailInv' /\ [Registry!Next]_(Registry!vars)
  OBVIOUS
<1>1. Registry!Next \/ UNCHANGED Registry!vars
  BY TailKeepsRegistry DEF tvars, records, Registry!vars
<1>2. RegistryProof!RegistryInv'
  <2>1. RegistryProof!RegistryInv
    BY SameRegistry DEF TailInv, RegistryProof!RegistryInv
  <2>2. [RegistryProof!Next]_(RegistryProof!vars)
    BY <1>1, SameRegistry DEF Registry!vars, RegistryProof!vars
  <2> QED BY <2>1, <2>2, RegistryAssumption, RegistryProof!RegistryStep
<1>3. /\ Registry!TypeOK'
      /\ Registry!SessionsContained'
      /\ Registry!ConfirmedIsReleased'
  BY <1>2, SameRegistry, PTL DEF RegistryProof!RegistryInv
<1>4. AwaitsPending' /\ token' \in Transfers \cup {NoTransfer}
  <2>1. CASE TailNext
    BY <2>1, StillAwaits
  <2>2. CASE UNCHANGED tvars
    BY <2>2 DEF tvars, tailVars, records, TailInv, AwaitsPending
  <2> QED BY <2>1, <2>2
<1> QED BY <1>1, <1>3, <1>4 DEF TailInv

LEMMA TailInvariant == TailSafe => []TailInv
  BY TailInitInv, TailStep, PTL DEF TailSafe

\* No owner of the run moves a device while the operator teleoperates for a handoff
\* (controller.py, _wait_for_operator_teleop_handoff).
THEOREM OperatorStaysApart == TailSafe => []OperatorAndOwnersApart
<1>1. TailInv => OperatorAndOwnersApart
  BY DEF TailInv, AwaitsPending, OperatorAndOwnersApart, Registry!SessionsContained,
         Registry!TypeOK
<1> QED BY <1>1, TailInvariant, PTL

-----------------------------------------------------------------------------
(* What the tail does to the run task.                                      *)

\* The tail's own variables have their types, apart from the token.
TailTypes ==
    /\ tail \in TailPCs
    /\ before \in Stages \cup Terminal \cup {IDLE}
    /\ entry \in {"no", "review", "capture"}
    /\ captured \in BOOLEAN
    /\ help \subseteq {VISION, GUARDIAN}
    /\ review \in Decisions \cup {"none"}
    /\ owed \in Debts

\* The run task is in a step exactly while the tail is, the step is that of the
\* stage the tail has noted, and both waits begin when no result is held.
TailPlace ==
    /\ tail = "begin" => pc = "start"
    /\ tail \in {"top", "stepped", "waiting", "holding"} => pc = "top"
    /\ tail = "stepping" => pc \notin {"start", "top", "finished"} /\ node = before
    /\ tail \in {"waiting", "holding"} => pending = NoHandoff
    /\ tail = "ended" => pc \in {"start", "top", "finished"}

\* Between two steps the tail moves the run itself: it begins a step, enters a
\* stage when no result is held, or ends the run.
Kept == UNCHANGED <<flags, loop, retries, pending, resumed, hold, verdict, approvals,
                    passes, strays, lateStarts>>

Dispatches ==
    /\ pc = "top" /\ pc' = "admitting"
    /\ ~StopRequested
    /\ stage \in Stages /\ node' = stage
    /\ UNCHANGED <<stage, started, paused>>

Enters ==
    /\ pc \in {"start", "top"} /\ pc' = "top"
    /\ pending = NoHandoff
    /\ stage' \in Stages \cup Terminal /\ started' = FALSE
    /\ paused' \in BOOLEAN /\ node' = node

Ends ==
    /\ pc \in {"start", "top"} /\ pc' \in {pc, "finished"}
    /\ stage' \in {stage} \cup Terminal /\ started' = started
    /\ paused' \in BOOLEAN /\ node' = node

Moves == Kept /\ (Dispatches \/ Enters \/ Ends)

\* Every step of the tail is one of the run loop, or such a move.
LEMMA TailMovesLoop ==
    ASSUME LoopInv, TailPlace, TailNext
    PROVE  [Next]_vars \/ Moves
<1> USE DEF LoopInv, TypeOK, Kept, flags, approvals, history, Rest
<1>1. CASE BeginTail
  <2>1. pc = "start" /\ pending = NoHandoff
    BY <1>1, HandoffAssumption DEF BeginTail, TailPlace, ResultHoldsTheRun
  <2>2. Kept /\ UNCHANGED <<node, paused>>
    BY <1>1 DEF BeginTail
  <2>3. CASE StopRequested
    BY <1>1, <2>1, <2>2, <2>3 DEF BeginTail, Moves, Ends, Terminal
  <2>4. CASE ~StopRequested
    BY <1>1, <2>1, <2>2, <2>4, TailAssumption DEF BeginTail, Moves, Enters, Enter
  <2> QED BY <2>3, <2>4
<1>2. CASE BeginStep
  <2>1. Kept /\ UNCHANGED <<paused, started>> /\ pc = "top"
    BY <1>2 DEF BeginStep, TailPlace
  <2>2. CASE pc' = "admitting"
    BY <1>2, <2>1, <2>2 DEF BeginStep, Moves, Dispatches
  <2>3. CASE pc' # "admitting"
    BY <1>2, <2>1, <2>3 DEF BeginStep, Moves, Ends, Terminal
  <2> QED BY <2>2, <2>3
<1>3. CASE OutOfSteps
  BY <1>3 DEF OutOfSteps, TailPlace, Moves, Ends
<1>4. CASE Step
  BY <1>4 DEF Step, StepAdmits, StepHoldsEntry, StepStarts, StepPauses, StepSettles,
              StepFails, StepOn, Next, RunTask, Admission, Settlement, Failure
<1>5. CASE StepRaises
  BY <1>5 DEF StepRaises, Next
<1>6. CASE HaltAfterStep \/ HaltHolding
  BY <1>6 DEF HaltAfterStep, HaltHolding, Halt, TailPlace, Moves, Ends, Terminal
<1>7. CASE StepAgain \/ HoldForHelp \/ EndPaused \/ GoOn \/ HelpArrives \/ StopCancels
             \/ Teleoperate
  <2>1. UNCHANGED vars
    BY <1>7 DEF StepAgain, HoldForHelp, EndPaused, GoOn, HelpArrives, StopCancels, Teleoperate
  <2> QED BY <2>1
<1>8. CASE OpenTransfer
  BY <1>8 DEF OpenTransfer, Ready, TailPlace, Moves, Ends
<1>9. CASE TransferRefused \/ EvidenceFails
  BY <1>9 DEF TransferRefused, EvidenceFails, Ready, Fail, TailPlace, Moves, Ends, Terminal
<1>10. CASE TransferConfirmed
  <2>1. Kept /\ pc = "top" /\ pending = NoHandoff /\ paused' = FALSE /\ UNCHANGED <<node, pc>>
    BY <1>10 DEF TransferConfirmed, TailPlace
  <2>2. \/ UNCHANGED <<stage, started>>
        \/ stage' = VISION /\ started' = FALSE
    BY <1>10 DEF TransferConfirmed, Enter
  <2> QED BY <2>1, <2>2, StagesAssumption DEF Moves, Enters, Ends
<1>11. CASE TransferStopped
  BY <1>11 DEF TransferStopped, Fail, TailPlace, Moves, Ends, Terminal
<1>12. CASE EndCycle
  <2>1. /\ Kept /\ pc = "top" /\ pending = NoHandoff /\ UNCHANGED <<node, pc, paused>>
        /\ stage' = Ending /\ started' = FALSE
    BY <1>12 DEF EndCycle, Passed, Ready, Held, Enter, TailPlace
  <2>2. Ending \in Stages \cup Terminal
    BY TailAssumption DEF Ending, Terminal
  <2> QED BY <2>1, <2>2 DEF Moves, Enters
<1>13. CASE Request
  BY <1>13 DEF Request, Next, Operator
<1>14. CASE EmergencyEnds
  BY <1>14 DEF EmergencyEnds, Next, Operator
<1> QED
  BY <1>1, <1>2, <1>3, <1>4, <1>5, <1>6, <1>7, <1>8, <1>9, <1>10, <1>11, <1>12, <1>13,
     <1>14
  DEF TailNext, TailTask, AfterStep, InWait

\* No such move disturbs the invariant of the run loop.
LEMMA MovesKeepLoopInv == LoopInv /\ Moves => LoopInv'
<1> SUFFICES ASSUME LoopInv, Moves PROVE LoopInv'
  OBVIOUS
<1> USE DEF LoopInv, TypeOK, PCs, RouteHasResult, StageIsNode, InTick, AdmitsOwnResult,
        ResultHoldsTheRun, PhysicalIsSpent, OnlyApprovedOwnersRun, Moves, Kept, flags,
        approvals
<1>1. CASE Dispatches
  BY <1>1, StagesAssumption DEF Dispatches, Terminal
<1>2. CASE Enters
  BY <1>2 DEF Enters
<1>3. CASE Ends
  BY <1>3, PhysicalAssumption, StagesAssumption DEF Ends, Terminal
<1> QED BY <1>1, <1>2, <1>3

-----------------------------------------------------------------------------
(* The tail keeps the run loop's invariant, its types and its place.        *)

\* Where the run task is after a step of step(): never at its start or end.
LEMMA StepsStayInside ==
    ASSUME Step
    PROVE  /\ pc' \notin {"start", "finished"}
           /\ pc' # "top" => node' = node
           /\ tail' = IF pc' = "top" THEN "stepped" ELSE "stepping"
<1>0. tail' = IF pc' = "top" THEN "stepped" ELSE "stepping"
  BY DEF Step, Returns
<1>1. CASE StepAdmits
  BY <1>0, <1>1 DEF StepAdmits, RefreshObservation, ResumeHandoff, OwnerMissing, PreGate, EndTick
<1>2. CASE StepHoldsEntry \/ StepStarts
  BY <1>0, <1>2 DEF StepHoldsEntry, StepStarts, EntryHeld, StartOwner, EndTick
<1>3. CASE StepPauses \/ StepSettles
  BY <1>0, <1>3 DEF StepPauses, StepSettles, PauseInStage, RecordResult
<1>4. CASE StepFails
  BY <1>0, <1>4 DEF StepFails, ResultNotStorable, StageRaises
<1>5. CASE StepOn
  <2>1. CASE Approved \/ AskApproval \/ Disapproved
    BY <1>0, <2>1 DEF Approved, AskApproval, Disapproved, EndTick
  <2>2. CASE OwnerReturns \/ PostGateDiverts \/ RetryStage \/ FailRun
    BY <1>0, <2>2 DEF OwnerReturns, PostGateDiverts, RetryStage, FailRun, EndTick
  <2>3. CASE Routing
    BY <1>0, <2>3 DEF Routing, HoldRoute, DeferRoute, AbandonRoute, CommitRoute, Announced, EndTick
  <2> QED BY <1>5, <2>1, <2>2, <2>3 DEF StepOn
<1> QED BY <1>1, <1>2, <1>3, <1>4, <1>5 DEF Step

\* Where the tail is after each of its actions, and what it still holds.
LEMMA TailKeepsPlace ==
    ASSUME LoopInv, TailPlace, TailNext
    PROVE  TailPlace'
<1> USE DEF TailPlace, Rest
<1>1. CASE BeginTail
  BY <1>1 DEF BeginTail
<1>2. CASE BeginStep
  BY <1>2 DEF BeginStep
<1>3. CASE OutOfSteps
  BY <1>3 DEF OutOfSteps
<1>4. CASE Step
  <2>1. before' = before /\ tail = "stepping"
    BY <1>4 DEF Step
  <2> QED BY <1>4, <2>1, StepsStayInside
<1>5. CASE StepRaises
  BY <1>5 DEF StepRaises, RunRaises
<1>6. CASE HaltAfterStep \/ HaltHolding
  BY <1>6 DEF HaltAfterStep, HaltHolding, Halt
<1>7. CASE StepAgain \/ HelpArrives
  BY <1>7 DEF StepAgain, HelpArrives, vars
<1>8. CASE HoldForHelp \/ EndPaused \/ GoOn
  BY <1>8 DEF HoldForHelp, EndPaused, GoOn, Passed, Ready, Held, vars
<1>9. CASE OpenTransfer \/ TransferRefused \/ EvidenceFails
  BY <1>9 DEF OpenTransfer, TransferRefused, EvidenceFails, Ready, Held, Fail
<1>10. CASE TransferConfirmed \/ TransferStopped
  BY <1>10 DEF TransferConfirmed, TransferStopped, Fail
<1>11. CASE EndCycle
  BY <1>11 DEF EndCycle, Passed, Ready
<1>12. CASE Request
  <2>1. UNCHANGED <<tail, before, pc, node, pending>>
    BY <1>12 DEF Request, tailVars, Pause, Resume, RequestStop, Approve, Refuse
  <2> QED BY <2>1
<1>13. CASE StopCancels \/ Teleoperate
  BY <1>13 DEF StopCancels, Teleoperate, tailVars, vars
<1>14. CASE EmergencyEnds
  BY <1>14 DEF EmergencyEnds, CancelRun
<1> QED
  BY <1>1, <1>2, <1>3, <1>4, <1>5, <1>6, <1>7, <1>8, <1>9, <1>10, <1>11, <1>12, <1>13,
     <1>14
  DEF TailNext, TailTask, AfterStep, InWait

LEMMA TailKeepsTypes ==
    ASSUME LoopInv, LoopInv', TailTypes, TailPlace, TailNext
    PROVE  TailTypes'
<1> USE DEF TailTypes, TailPCs, entering, judgment, tailVars
<1>1. CASE BeginTail \/ BeginStep \/ OutOfSteps
  BY <1>1 DEF BeginTail, BeginStep, OutOfSteps, LoopInv, TypeOK
<1>2. CASE Step
  <2>1. tail' \in TailPCs /\ before' = before
    BY <1>2 DEF Step, Returns
  <2>2. /\ entry' \in {"no", "review", "capture"} /\ captured' \in BOOLEAN
        /\ help' \subseteq {VISION, GUARDIAN}
        /\ review' \in Decisions \cup {"none"}
        /\ owed' \in Debts
    <3>1. CASE StepAdmits
      BY <3>1 DEF StepAdmits
    <3>2. CASE StepHoldsEntry
      BY <3>2 DEF StepHoldsEntry
    <3>3. CASE StepStarts
      BY <3>3 DEF StepStarts, EntryAdmitted, DebtAfter, Debts
    <3>4. CASE StepPauses
      BY <3>4 DEF StepPauses, PauseInStage, Decisions
    <3>5. CASE StepSettles
      <4>1. help' \subseteq {VISION, GUARDIAN}
        BY <3>5 DEF StepSettles
      <4>2. review' \in Decisions \cup {"none"}
        BY <3>5 DEF StepSettles, DecisionOf, Decisions
      <4> QED BY <3>5, <4>1, <4>2 DEF StepSettles
    <3>6. CASE StepFails
      BY <3>6 DEF StepFails, EntryAdmitted
    <3>7. CASE StepOn
      BY <3>7 DEF StepOn
    <3> QED BY <1>2, <3>1, <3>2, <3>3, <3>4, <3>5, <3>6, <3>7 DEF Step
  <2> QED BY <2>1, <2>2
<1>3. CASE StepRaises
  BY <1>3 DEF StepRaises
<1>4. CASE HaltAfterStep \/ HaltHolding \/ StepAgain \/ HelpArrives
  BY <1>4 DEF HaltAfterStep, HaltHolding, StepAgain, HelpArrives, Halt
<1>5. CASE HoldForHelp \/ EndPaused \/ GoOn \/ EndCycle
  BY <1>5 DEF HoldForHelp, EndPaused, GoOn, EndCycle, Passed, Debts
<1>6. CASE OpenTransfer \/ TransferRefused \/ EvidenceFails
  BY <1>6 DEF OpenTransfer, TransferRefused, EvidenceFails, Fail
<1>7. CASE TransferConfirmed \/ TransferStopped
  BY <1>7 DEF TransferConfirmed, TransferStopped, Fail
<1>8. CASE Request \/ StopCancels \/ Teleoperate
  BY <1>8 DEF Request, StopCancels, Teleoperate
<1>9. CASE EmergencyEnds
  BY <1>9 DEF EmergencyEnds
<1> QED
  BY <1>1, <1>2, <1>3, <1>4, <1>5, <1>6, <1>7, <1>8, <1>9
  DEF TailNext, TailTask, AfterStep, InWait

\* The tail and the run it drives.
DriveInv == LoopInv /\ TailTypes /\ TailPlace

LEMMA DriveInit == TailInit => DriveInv
<1> SUFFICES ASSUME TailInit PROVE DriveInv
  OBVIOUS
<1>1. LoopInv
  BY LoopInit DEF TailInit
<1>2. TailTypes
  BY DEF TailInit, TailTypes, TailPCs, Debts
<1>3. TailPlace
  BY DEF TailInit, Init, TailPlace
<1> QED BY <1>1, <1>2, <1>3 DEF DriveInv

LEMMA DriveStep == DriveInv /\ [TailNext]_tvars => DriveInv'
<1> SUFFICES ASSUME DriveInv, [TailNext]_tvars PROVE DriveInv'
  OBVIOUS
<1> USE DEF DriveInv
<1>1. CASE TailNext
  BY <1>1, TailMovesLoop, LoopStep, MovesKeepLoopInv, TailKeepsPlace, TailKeepsTypes
<1>2. CASE UNCHANGED tvars
  <2>1. UNCHANGED vars /\ UNCHANGED tailVars
    BY <1>2 DEF tvars
  <2>2. LoopInv'
    BY <2>1, LoopStep
  <2> QED BY <2>1, <2>2 DEF vars, tailVars, entering, judgment, TailTypes, TailPlace
<1> QED BY <1>1, <1>2

LEMMA DriveInvariant == TailSafe => []DriveInv
  BY DriveInit, DriveStep, PTL DEF TailSafe

\* The tail waits for a handoff it has the token of.
WaitsForOne == tail = "waiting" => token # NoTransfer

LEMMA TailKeepsWait == WaitsForOne /\ [TailNext]_tvars => WaitsForOne'
<1> SUFFICES ASSUME WaitsForOne, [TailNext]_tvars PROVE WaitsForOne'
  OBVIOUS
<1> USE DEF WaitsForOne
<1>1. CASE Apart \/ Passing \/ Awaking
  BY <1>1, ApartKeepsRecords, PassingAttaches, AwakingFinds
<1>2. CASE Cancelling
  BY <1>2 DEF Cancelling, StopCancels, EmergencyEnds, tailVars
<1>3. CASE OpenTransfer
  BY <1>3, RegistryAssumption DEF OpenTransfer
<1>4. CASE Request \/ Teleoperate \/ UNCHANGED tvars
  BY <1>4 DEF Request, Teleoperate, tvars, tailVars
<1> QED BY <1>1, <1>2, <1>3, <1>4, TailSteps

\* Type correctness of the tail's state: its own, the run loop's and the registry's,
\* with where the run task may be while the tail is at each of its points.
THEOREM TailTypeCorrect == TailSafe => []TailTypeOK
<1>1. TailInit => WaitsForOne
  BY DEF TailInit, WaitsForOne
<1>2. TailSafe => []WaitsForOne
  BY <1>1, TailKeepsWait, PTL DEF TailSafe
<1>3. DriveInv /\ TailInv /\ WaitsForOne => TailTypeOK
  BY DEF DriveInv, LoopInv, TailTypes, TailPlace, TailInv, WaitsForOne, TailTypeOK
<1> QED BY <1>2, <1>3, DriveInvariant, TailInvariant, PTL

-----------------------------------------------------------------------------
(* What the loop promises it keeps in a planning run, whatever the tail does *)
(* between its steps.                                                       *)

\* A result that waits for its review holds the run in its stage: the tail looks
\* for it before it opens a transfer, enters Vision or ends the cycle
\* (_run_planning_loop_tail).
THEOREM TailResultHolds == TailSafe => []ResultHoldsTheRun
<1>1. DriveInv => ResultHoldsTheRun
  BY DEF DriveInv, LoopInv
<1> QED BY <1>1, DriveInvariant, PTL

\* A planning run starts no owner without its approval for this stage and cycle.
THEOREM TailApprovedOnly == TailSafe => []OnlyApprovedOwnersRun
<1>1. DriveInv => OnlyApprovedOwnersRun
  BY DEF DriveInv, LoopInv
<1> QED BY <1>1, DriveInvariant, PTL

\* Only the loop's own step starts an owner.
LEMMA TailStartsByStep ==
    ASSUME DriveInv, [TailNext]_tvars, pc # "agent", pc' = "agent"
    PROVE  StartOwner
<1>1. ~Moves
  BY DEF Moves, Dispatches, Enters, Ends
<1>2. [Next]_vars
  BY <1>1, TailMovesLoop DEF DriveInv, tvars
<1> QED BY <1>2, OnlyStartOwnerStarts DEF DriveInv

\* A planning run starts a physical owner at most once each time it enters its
\* stage, though the tail takes step() up again after holds, transfers and help.
THEOREM TailPhysicalOnce == TailSafe => NoPhysicalReplay
<1>1. DriveInv /\ [TailNext]_tvars
        => [pc # "agent" /\ pc' = "agent" /\ node \in Physical => ~started]_vars
  BY TailStartsByStep DEF StartOwner, DriveInv, LoopInv, PhysicalIsSpent
<1> QED
  BY <1>1, DriveInvariant, PTL DEF TailSafe, NoPhysicalReplay

\* A move of the tail takes back no stop request, starts nothing and begins no step
\* under one.
LEMMA MovesKeepLate == LateInv /\ Moves => LateInv'
<1> SUFFICES ASSUME LateInv, Moves PROVE LateInv'
  OBVIOUS
<1>1. lateStarts' = lateStarts /\ (StopRequested' <=> StopRequested)
  BY DEF Moves, Kept, flags, StopRequested
<1>2. pc' \notin {"gated", "entry"} /\ (pc' = "admitting" => ~StopRequested)
  BY DEF Moves, Dispatches, Enters, Ends
<1> QED BY <1>1, <1>2 DEF LateInv

\* After a stop request a planning run starts at most one more owner, the one whose
\* step had begun.
THEOREM TailOneLateStart == TailSafe => []AtMostOneLateStart
<1>1. TailInit => LateInv
  BY DEF TailInit, Init, LateInv
<1>2. DriveInv /\ LateInv /\ [TailNext]_tvars => LateInv'
  <2> SUFFICES ASSUME DriveInv, LateInv, [TailNext]_tvars PROVE LateInv'
    OBVIOUS
  <2>1. [Next]_vars \/ Moves
    BY TailMovesLoop DEF DriveInv, tvars
  <2> QED BY <2>1, LateStep, MovesKeepLate
<1>3. LateInv => AtMostOneLateStart
  BY DEF LateInv, AtMostOneLateStart
<1> QED
  BY <1>1, <1>2, <1>3, DriveInvariant, PTL DEF TailSafe

\* A planning run that has ended stays so, and one that has reached a terminal stage
\* leaves it only for the next cycle, or out of a wait for a transfer.
LEMMA TailEndsStay ==
    ASSUME DriveInv, [TailNext]_tvars
    PROVE  /\ tail = "ended" => tail' = "ended"
           /\ tail' = "waiting" =>
                 tail = "waiting" \/ (tail = "stepped" /\ stage \notin Terminal)
           /\ Over /\ tail # "waiting" /\ tail' # "ended" => Over'
<1> USE DEF DriveInv, TailPlace, Over, tailVars
<1>1. CASE BeginTail \/ BeginStep \/ OutOfSteps
  BY <1>1, StagesAssumption DEF BeginTail, BeginStep, OutOfSteps, Terminal
<1>2. CASE Step \/ StepRaises
  BY <1>2 DEF Step, Returns, StepRaises
<1>3. CASE HaltAfterStep \/ HaltHolding \/ TransferRefused
  BY <1>3 DEF HaltAfterStep, HaltHolding, TransferRefused, Ready, Halt, Fail
<1>4. CASE StepAgain \/ HelpArrives \/ StopCancels \/ Teleoperate
  BY <1>4 DEF StepAgain, HelpArrives, StopCancels, Teleoperate, vars
<1>5. CASE HoldForHelp \/ EndPaused \/ GoOn \/ EndCycle
  BY <1>5 DEF HoldForHelp, EndPaused, GoOn, EndCycle, Passed, Ready, vars
<1>6. CASE OpenTransfer \/ EvidenceFails
  BY <1>6 DEF OpenTransfer, EvidenceFails, Ready, NeedsTransfer, Fail
<1>7. CASE TransferConfirmed \/ TransferStopped
  BY <1>7 DEF TransferConfirmed, TransferStopped, Fail
<1>8. CASE Request
  BY <1>8 DEF Request, Pause, Resume, RequestStop, Approve, Refuse, Terminal
<1>9. CASE EmergencyEnds
  BY <1>9 DEF EmergencyEnds
<1>10. CASE UNCHANGED tvars
  BY <1>10 DEF tvars, vars
<1> QED
  BY <1>1, <1>2, <1>3, <1>4, <1>5, <1>6, <1>7, <1>8, <1>9, <1>10
  DEF TailNext, TailTask, AfterStep, InWait

\* In a planning run too a stray costs a retry of the Guardian, or the run.
TailStraysPaid ==
    /\ strays <= retries[GUARDIAN] + 1
    /\ tail # "ended" /\ ~FailedReview /\ ~Over => Paid
    /\ tail = "waiting" => Paid

LEMMA TailStrayStep ==
    ASSUME DriveInv, DriveInv', TailStraysPaid, [TailNext]_tvars
    PROVE  TailStraysPaid'
<1>1. /\ strays \in Nat /\ strays' \in Nat
      /\ retries[GUARDIAN] \in Nat /\ retries'[GUARDIAN] \in Nat
  BY StagesAssumption, PolicyAssumption DEF DriveInv, LoopInv, TypeOK
<1>2. tail \in {"stepped", "waiting"} => pc = "top"
  BY DEF DriveInv, TailPlace
<1>3. tail = "stepped" /\ stage \notin Terminal => Paid
  BY <1>2 DEF TailStraysPaid, FailedReview, Over
<1>4. CASE strays' = strays /\ retries'[GUARDIAN] >= retries[GUARDIAN]
           /\ (FailedReview /\ ~(FailedReview \/ Over)'
                 => retries'[GUARDIAN] = retries[GUARDIAN] + 1)
  <2>1. Paid => Paid'
    BY <1>1, <1>4 DEF Paid
  <2>2. strays' <= retries'[GUARDIAN] + 1
    BY <1>1, <1>4 DEF TailStraysPaid
  <2>3. tail' = "waiting" => Paid'
    BY <1>3, <2>1, TailEndsStay DEF TailStraysPaid
  <2>4. ASSUME tail' # "ended", ~FailedReview', ~Over' PROVE Paid'
    <3>1. CASE FailedReview
      BY <1>1, <1>4, <2>4, <3>1 DEF TailStraysPaid, Paid
    <3>2. CASE ~FailedReview /\ Over
      BY <2>1, <2>4, <3>2, TailEndsStay DEF TailStraysPaid
    <3>3. CASE ~FailedReview /\ ~Over
      BY <2>1, <2>4, <3>3, TailEndsStay DEF TailStraysPaid
    <3> QED BY <3>1, <3>2, <3>3
  <2> QED BY <2>2, <2>3, <2>4 DEF TailStraysPaid
<1>5. CASE /\ pc = "settling" /\ strays' = strays + 1 /\ retries' = retries
           /\ (FailedReview \/ Over)'
  <2>1. tail = "stepping"
    BY <1>5 DEF DriveInv, TailTypes, TailPCs, TailPlace
  <2>2. Paid
    BY <1>5, <2>1 DEF TailStraysPaid, FailedReview, Over
  <2>3. tail' # "waiting"
    BY <2>1, TailEndsStay
  <2> QED BY <1>1, <1>5, <2>2, <2>3 DEF TailStraysPaid, Paid
<1>6. CASE Moves
  <2>1. UNCHANGED <<strays, retries>> /\ ~FailedReview
    BY <1>6 DEF Moves, Kept, Dispatches, Enters, Ends, FailedReview
  <2> QED BY <1>1, <1>4, <2>1
<1>7. CASE [Next]_vars
  BY <1>4, <1>5, <1>7, StrayMoves DEF DriveInv
<1> QED BY <1>6, <1>7, TailMovesLoop DEF DriveInv, tvars

\* In a planning run the Guardian's review counts as the series' own cycle, however
\* often it is retried, held or taken up again (record_guardian_completion).
THEOREM TailCyclesCounted == TailSafe => []CyclesNotAttempts
<1>1. TailInit => CycleInv /\ TailStraysPaid
  <2>1. TailInit => TailStraysPaid
    BY StagesAssumption DEF TailInit, Init, TailStraysPaid, Paid
  <2> QED BY <2>1, CycleInit DEF TailInit
<1>2. CycleInv /\ TailStraysPaid /\ DriveInv /\ DriveInv' /\ [TailNext]_tvars
        => (CycleInv /\ TailStraysPaid)'
  <2> SUFFICES ASSUME CycleInv, TailStraysPaid, DriveInv, DriveInv', [TailNext]_tvars
               PROVE  (CycleInv /\ TailStraysPaid)'
    OBVIOUS
  <2>1. CASE [Next]_vars
    BY <2>1, CycleStep, TailStrayStep
  <2>2. CASE Moves
    <3>1. UNCHANGED <<loop, passes, strays, pending, hold>>
      BY <2>2 DEF Moves, Kept
    <3>2. CycleInv'
      BY <3>1 DEF DriveInv, CycleInv, HeldForRecapture, Counted, Reuses
    <3> QED BY <3>2, TailStrayStep
  <2> QED BY <2>1, <2>2, TailMovesLoop DEF DriveInv, tvars
<1>3. CycleInv /\ TailStraysPaid => CyclesNotAttempts
  BY DEF CycleInv, TailStraysPaid, CyclesNotAttempts
<1> QED
  BY <1>1, <1>2, <1>3, DriveInvariant, PTL DEF TailSafe

-----------------------------------------------------------------------------
(* The test machine waits for the operator's transfer and its verification.  *)

\* While a transfer is due, an owner that works, and a result that waits, left no
\* entry behind that a review still holds; the Guardian's entry is never reviewed,
\* and may.
EntryTaken ==
    owed = "due" =>
        /\ pc \in {"agent", "settling", "routing", "announcing"} /\ node # GUARDIAN
             => entry = "no"
        /\ pending # NoHandoff /\ pending.stage # GUARDIAN => entry = "no"

\* Manipulation works in this step or has just returned, or its result waits: the
\* tail will ask for the transfer when it has looked at the step.
Working == {"agent", "settling", "routing", "announcing", "failing"}

Carries ==
    \/ /\ before = MANIPULATION /\ entry = "no"
       /\ \/ tail = "stepping" /\ pc \in Working
          \/ tail = "stepped" /\ pending = NoHandoff
    \/ pending # NoHandoff /\ pending.stage = MANIPULATION

\* The operator has confirmed the transfer, and the run is at Vision or at a stage
\* of A, from which it cannot come to the equipment but through Vision.
Transferred ==
    token # NoTransfer /\ (status[token] = "operator_confirmed" \/ StopRequested)

Way(A) == A \cup {VISION} \cup Terminal

Heads(A) ==
    /\ Transferred
    /\ \/ tail \in {"top", "holding", "stepped"} /\ stage \in Way(A)
       \/ tail = "stepping" /\ before = VISION
       \/ tail = "stepping" /\ before \in A /\ (pc = "announcing" => stage \in Way(A))
       \/ tail = "stepped" /\ before = VISION /\ entry = "no" /\ pending = NoHandoff

OwedInv(A) == owed = "due" => Hybrid /\ (tail \in {"waiting", "ended"} \/ Carries \/ Heads(A))

\* No route leads from the Guardian to the equipment but through Vision: A holds
\* the Guardian and what may follow it before Vision.
LeadsToVision(A) ==
    /\ A \subseteq Stages
    /\ GUARDIAN \in A /\ EQUIPMENT \notin A
    /\ \A s \in A : Successors[s] \subseteq A \cup {VISION} \cup Terminal

DistinctStages ==
    /\ MANIPULATION # EQUIPMENT /\ MANIPULATION # VISION /\ MANIPULATION # GUARDIAN
    /\ EQUIPMENT # VISION

LEMMA StagesAreDistinct == DistinctStages
<1> SUFFICES ASSUME ~DistinctStages PROVE FALSE
  OBVIOUS
<1>1. PICK a, b, c, d : {DESIGN, MANIPULATION, EQUIPMENT, VISION, GUARDIAN} = {a, b, c, d}
  <2>1. CASE MANIPULATION = EQUIPMENT \/ MANIPULATION = VISION \/ MANIPULATION = GUARDIAN
    <3>1. {DESIGN, MANIPULATION, EQUIPMENT, VISION, GUARDIAN}
            = {DESIGN, EQUIPMENT, VISION, GUARDIAN}
      BY <2>1
    <3> QED BY <3>1
  <2>2. CASE EQUIPMENT = VISION
    <3>1. {DESIGN, MANIPULATION, EQUIPMENT, VISION, GUARDIAN}
            = {DESIGN, MANIPULATION, VISION, GUARDIAN}
      BY <2>2
    <3> QED BY <3>1
  <2> QED BY <2>1, <2>2 DEF DistinctStages
<1>2. IsFiniteSet({a, b, c, d}) /\ Cardinality({a, b, c, d}) <= 4
  <2>1. IsFiniteSet({a}) /\ Cardinality({a}) = 1
    BY FS_Singleton, Zenon
  <2>2. Cardinality({a}) \in Nat /\ Cardinality({a}) <= 1
    BY <2>1
  <2>3. IsFiniteSet({a, b}) /\ Cardinality({a, b}) \in Nat /\ Cardinality({a, b}) <= 2
    BY <2>1, <2>2, FS_AddElement, {a} \cup {b} = {a, b}
  <2>4. IsFiniteSet({a, b, c}) /\ Cardinality({a, b, c}) \in Nat
        /\ Cardinality({a, b, c}) <= 3
    BY <2>3, FS_AddElement, {a, b} \cup {c} = {a, b, c}
  <2> QED BY <2>4, FS_AddElement, {a, b, c} \cup {d} = {a, b, c, d}
<1> QED BY <1>1, <1>2, TailAssumption

\* What a step of step() does to the held entry.
LEMMA StepEntries ==
    ASSUME Step
    PROVE  \/ entry' \in {entry, "no"}
           \/ /\ Supervised
              /\ pc = "entry" /\ pc' = "top" /\ pending' = pending
<1>1. CASE StepAdmits
  BY <1>1 DEF StepAdmits
<1>2. CASE StepHoldsEntry
  BY <1>2 DEF StepHoldsEntry, EntryHeld, EndTick
<1>3. CASE StepStarts
  BY <1>3 DEF StepStarts, EntryAdmitted, entering
<1>4. CASE StepPauses \/ StepSettles \/ StepOn
  BY <1>4 DEF StepPauses, StepSettles, StepOn, entering
<1>5. CASE StepFails
  BY <1>5 DEF StepFails, EntryAdmitted, entering
<1> QED BY <1>1, <1>2, <1>3, <1>4, <1>5 DEF Step

\* How a step of step() may come to a point where an owner works or its result is
\* routed, and what it then leaves waiting.
LEMMA StepWorks ==
    ASSUME LoopInv, Step
    PROVE  /\ pending' # NoHandoff =>
                 \/ pending # NoHandoff /\ pending'.stage = pending.stage
                 \/ pc = "settling" /\ pending'.stage = node
           /\ pc' \in {"agent", "settling", "routing", "announcing"} =>
                 \/ pc \in {"agent", "settling", "routing"} /\ UNCHANGED <<node, entry>>
                 \/ pc = "admitting" /\ pending # NoHandoff /\ node' = node
                 \/ StepStarts
<1> USE DEF LoopInv, ResultHoldsTheRun, RouteHasResult, Working, entering
<1>1. CASE StepAdmits
  BY <1>1 DEF StepAdmits, RefreshObservation, ResumeHandoff, OwnerMissing, PreGate, EndTick
<1>2. CASE StepHoldsEntry \/ StepStarts
  BY <1>2 DEF StepHoldsEntry, StepStarts, EntryHeld, StartOwner, EndTick
<1>3. CASE StepPauses
  BY <1>3 DEF StepPauses, PauseInStage
<1>4. CASE StepSettles
  <2>1. /\ pc = "settling" /\ node' = node /\ entry' = entry
        /\ \E next : pending' = [stage |-> node, next |-> next, status |-> "prepared"]
    BY <1>4 DEF StepSettles, RecordResult, Completed
  <2> QED BY <2>1
<1>5. CASE StepFails
  BY <1>5 DEF StepFails, ResultNotStorable, StageRaises
<1>6. CASE StepOn
  <2>1. CASE Approved \/ AskApproval \/ Disapproved
    BY <2>1 DEF Approved, AskApproval, Disapproved, EndTick
  <2>2. CASE OwnerReturns \/ PostGateDiverts \/ RetryStage \/ FailRun
    BY <1>6, <2>2 DEF StepOn, OwnerReturns, PostGateDiverts, RetryStage, FailRun, EndTick
  <2>3. CASE HoldRoute \/ CommitRoute \/ Announced
    BY <1>6, <2>3 DEF StepOn, HoldRoute, CommitRoute, Announced, EndTick
  <2>4. CASE DeferRoute \/ AbandonRoute
    <3>1. pending \in Handoffs /\ pc = "routing" /\ pc' = "top"
      BY <2>4, HandoffAssumption DEF DeferRoute, AbandonRoute, EndTick
    <3>2. pending' = pending \/ \E st : pending' = [pending EXCEPT !.status = st]
      BY <2>4 DEF DeferRoute, AbandonRoute
    <3>3. pending'.stage = pending.stage
      BY <3>1, <3>2 DEF Handoffs
    <3> QED BY <3>1, <3>3, HandoffAssumption
  <2> QED BY <1>6, <2>1, <2>2, <2>3, <2>4 DEF StepOn, Routing
<1> QED BY <1>1, <1>2, <1>3, <1>4, <1>5, <1>6 DEF Step

\* Outside step() no entry is held or taken, and no owner comes to work.
LEMMA OutsideSteps ==
    ASSUME DriveInv, TailNext, ~Step
    PROVE  /\ UNCHANGED entry
           /\ owed' = "due" => owed = "due"
           /\ \/ pc' = pc /\ node' = node
              \/ pc' \in {"admitting", "top", "finished"}
           /\ \/ pending' = pending
              \/ pending # NoHandoff /\ pending'.stage = pending.stage
<1> USE DEF Rest, entering, judgment, tailVars
<1>1. CASE BeginTail \/ BeginStep \/ OutOfSteps
  BY <1>1 DEF BeginTail, BeginStep, OutOfSteps
<1>2. CASE StepRaises
  BY <1>2 DEF StepRaises, RunRaises
<1>3. CASE HaltAfterStep \/ HaltHolding \/ TransferRefused
  BY <1>3 DEF HaltAfterStep, HaltHolding, TransferRefused
<1>4. CASE EvidenceFails
  BY <1>4 DEF EvidenceFails
<1>5. CASE StepAgain \/ HelpArrives \/ StopCancels \/ Teleoperate
  BY <1>5 DEF StepAgain, HelpArrives, StopCancels, Teleoperate, vars
<1>6. CASE HoldForHelp \/ EndPaused \/ GoOn \/ EndCycle
  <2>1. UNCHANGED <<pc, node, pending>>
    BY <1>6 DEF HoldForHelp, EndPaused, GoOn, EndCycle, vars
  <2>2. UNCHANGED entry /\ (owed' = "due" => owed = "due")
    BY <1>6 DEF HoldForHelp, EndPaused, GoOn, EndCycle, Passed
  <2> QED BY <2>1, <2>2
<1>7. CASE OpenTransfer \/ TransferConfirmed \/ TransferStopped
  BY <1>7 DEF OpenTransfer, TransferConfirmed, TransferStopped
<1>8. CASE Request
  <2>1. UNCHANGED <<pc, node, pending>>
    BY <1>8 DEF Request, Pause, Resume, RequestStop, Approve, Refuse
  <2> QED BY <1>8, <2>1 DEF Request
<1>9. CASE EmergencyEnds
  <2>1. UNCHANGED <<entry, owed>> /\ pc' = "finished"
    BY <1>9 DEF EmergencyEnds, CancelRun
  <2>2. pending' = pending \/ /\ pc = "routing"
                              /\ pending' = [pending EXCEPT !.status = "deferred"]
    BY <1>9 DEF EmergencyEnds, CancelRun
  <2>3. pc = "routing" => pending \in Handoffs /\ pending # NoHandoff
    BY HandoffAssumption DEF DriveInv, LoopInv, RouteHasResult
  <2> QED BY <2>1, <2>2, <2>3 DEF Handoffs
<1> QED
  BY <1>1, <1>2, <1>3, <1>4, <1>5, <1>6, <1>7, <1>8, <1>9
  DEF TailNext, TailTask, AfterStep, InWait

\* What an owner that is admitted leaves due.
LEMMA StartsOwe ==
    ASSUME StepStarts, owed' = "due"
    PROVE  /\ node # GUARDIAN => entry' = "no"
           /\ owed = "due" \/ (Hybrid /\ node = MANIPULATION)
  BY DEF StepStarts, DebtAfter

\* Only an owner that is admitted makes a transfer due.
LEMMA OnlyStartsOwe ==
    ASSUME DriveInv, [TailNext]_tvars, owed' = "due", owed # "due"
    PROVE  Step /\ StepStarts
<1>1. CASE Step
  BY <1>1 DEF Step, StepAdmits, StepHoldsEntry, StepPauses, StepSettles, StepFails, StepOn,
              judgment
<1>2. CASE TailNext /\ ~Step
  BY <1>2, OutsideSteps
<1>3. CASE UNCHANGED tvars
  BY <1>3 DEF tvars, tailVars, judgment
<1> QED BY <1>1, <1>2, <1>3

LEMMA EntryStep ==
    ASSUME DriveInv, DriveInv', EntryTaken, [TailNext]_tvars
    PROVE  EntryTaken'
<1> SUFFICES ASSUME owed' = "due"
             PROVE  /\ pc' \in {"agent", "settling", "routing", "announcing"}
                         /\ node' # GUARDIAN => entry' = "no"
                    /\ pending' # NoHandoff /\ pending'.stage # GUARDIAN => entry' = "no"
  BY DEF EntryTaken
<1>1. CASE Step /\ StepStarts
  <2>1. node # GUARDIAN => entry' = "no"
    BY <1>1, StartsOwe
  <2>2. pc' = "agent" /\ node' = node
    BY <1>1 DEF StepStarts, StartOwner
  <2>3. pending' = NoHandoff
    BY <2>2 DEF DriveInv, LoopInv, ResultHoldsTheRun
  <2> QED BY <2>1, <2>2, <2>3
<1>2. CASE ~(Step /\ StepStarts)
  <2>0. /\ pc \in {"agent", "settling", "routing", "announcing"} /\ node # GUARDIAN
             => entry = "no"
        /\ pending # NoHandoff /\ pending.stage # GUARDIAN => entry = "no"
    BY <1>2, OnlyStartsOwe DEF EntryTaken
  <2>1. CASE Step
    <3> USE <2>1 DEF DriveInv, LoopInv
    <3>1. ASSUME pending' # NoHandoff, pending'.stage # GUARDIAN PROVE entry' = "no"
      <4>1. CASE pending # NoHandoff /\ pending'.stage = pending.stage
        BY <2>0, <3>1, <4>1, StepEntries DEF ResultHoldsTheRun
      <4>2. CASE pc = "settling" /\ pending'.stage = node
        BY <2>0, <3>1, <4>2, StepEntries
      <4> QED BY <3>1, <4>1, <4>2, StepWorks
    <3>2. ASSUME pc' \in {"agent", "settling", "routing", "announcing"}, node' # GUARDIAN
          PROVE  entry' = "no"
      <4>1. CASE pc = "admitting" /\ pending # NoHandoff /\ node' = node
        BY <2>0, <3>2, <4>1, StepEntries DEF AdmitsOwnResult
      <4> QED BY <1>2, <2>0, <3>2, <4>1, StepWorks
    <3> QED BY <3>1, <3>2
  <2>2. CASE TailNext /\ ~Step
    BY <2>0, <2>2, OutsideSteps
  <2>3. CASE UNCHANGED tvars
    BY <2>0, <2>3 DEF tvars, vars, tailVars, entering
  <2> QED BY <2>1, <2>2, <2>3
<1> QED BY <1>1, <1>2

\* The stage a step of step() goes on to.
LEMMA StepGoes ==
    ASSUME LoopInv, Step
    PROVE  \/ /\ InTick /\ pc' # "announcing"
              /\ stage' \in {stage, node, VISION, GUARDIAN} \cup Terminal
           \/ /\ pc = "routing" /\ pc' = "announcing"
              /\ stage' = pending.next /\ pending' = NoHandoff
           \/ /\ pc = "announcing" /\ pc' # "announcing"
              /\ UNCHANGED <<stage, pending, entry>>
<1> USE DEF InTick, Enter, EndTick, Terminal, entering
<1>1. CASE StepAdmits
  BY <1>1 DEF StepAdmits, RefreshObservation, ResumeHandoff, OwnerMissing, PreGate, Diverted
<1>2. CASE StepHoldsEntry \/ StepStarts
  BY <1>2 DEF StepHoldsEntry, StepStarts, EntryHeld, StartOwner
<1>3. CASE StepPauses \/ StepSettles
  BY <1>3 DEF StepPauses, StepSettles, PauseInStage, RecordResult, Completed
<1>4. CASE StepFails
  BY <1>4 DEF StepFails, ResultNotStorable, StageRaises, Completed
<1>5. CASE StepOn
  <2>1. CASE Approved \/ AskApproval \/ Disapproved
    BY <2>1 DEF Approved, AskApproval, Disapproved
  <2>2. CASE OwnerReturns \/ PostGateDiverts \/ RetryStage \/ FailRun
    BY <2>2 DEF OwnerReturns, PostGateDiverts, RetryStage, FailRun, Diverted
  <2>3. CASE HoldRoute \/ DeferRoute \/ AbandonRoute \/ CommitRoute
    BY <2>3 DEF HoldRoute, DeferRoute, AbandonRoute, CommitRoute
  <2>4. CASE Announced
    BY <1>5, <2>4 DEF StepOn, Announced
  <2> QED BY <1>5, <2>1, <2>2, <2>3, <2>4 DEF StepOn, Routing
<1> QED BY <1>1, <1>2, <1>3, <1>4, <1>5 DEF Step

\* A stop request of a planning run is never taken back.
LEMMA TailStopsStay ==
    ASSUME DriveInv, TailNext, StopRequested
    PROVE  StopRequested'
<1>1. Moves => StopRequested'
  BY DEF Moves, Kept, flags, StopRequested
<1> QED BY <1>1, StopsStay, TailMovesLoop DEF DriveInv

\* The popup does not take back a confirmation.
LEMMA PopupKeepsConfirmed ==
    ASSUME TailInv, Registry!Popup, token # NoTransfer, status[token] = "operator_confirmed"
    PROVE  status'[token] = "operator_confirmed"
  BY DEF TailInv, Registry!TypeOK, Registry!Popup, Registry!Handler, Registry!Launch,
      Registry!Bind, Registry!BindRefused, Registry!AnswerUnbound, Registry!Undo,
      Registry!Stop,
      Registry!Release, Registry!AskStart, Registry!Confirm

\* A confirmed transfer stays confirmed until Vision's evidence is judged or a stop
\* is requested.
LEMMA TransferStays ==
    ASSUME DriveInv, TailInv, TailNext, Transferred, ~Passing,
           tail' \notin {"waiting", "ended"}
    PROVE  Transferred'
<1>1. StopRequested => StopRequested'
  BY TailStopsStay
<1>2. CASE Apart
  BY <1>1, <1>2, ApartKeepsRecords, ApartKeepsToken DEF records, Transferred
<1>3. CASE Awaking
  <2>1. token' = token /\ UNCHANGED records
    BY <1>3 DEF Awaking, TransferConfirmed, TransferStopped, HelpArrives, HaltHolding, Fail,
                Halt
  <2> QED BY <1>1, <2>1 DEF records, Transferred
<1>4. CASE Cancelling
  <2>1. token' = token /\ StopRequested
    BY <1>4 DEF Cancelling, StopCancels, EmergencyEnds, tailVars
  <2> QED BY <1>1, <2>1 DEF Transferred
<1>5. CASE Request
  BY <1>1, <1>5 DEF Request, tailVars, records, Transferred
<1>6. CASE Teleoperate
  <2>1. token' = token /\ Registry!Popup
    BY <1>6 DEF Teleoperate, tailVars
  <2> QED BY <1>1, <2>1, PopupKeepsConfirmed DEF Transferred
<1>7. ~OpenTransfer
  BY DEF OpenTransfer
<1> QED BY <1>2, <1>3, <1>4, <1>5, <1>6, <1>7, TailSteps

\* An owner that works goes on working, or its step ends; a tick that finds a result
\* only routes it.
LEMMA StepOnWorks ==
    ASSUME Step, pc \in Working \/ (pc = "admitting" /\ pending # NoHandoff), pc' # "top"
    PROVE  pc' \in Working
<1> USE DEF Working, EndTick
<1>1. CASE StepAdmits
  BY <1>1 DEF StepAdmits, RefreshObservation, ResumeHandoff, OwnerMissing, PreGate
<1>2. CASE StepHoldsEntry \/ StepStarts
  BY <1>2 DEF StepHoldsEntry, StepStarts, EntryHeld, StartOwner
<1>3. CASE StepPauses \/ StepSettles
  BY <1>3 DEF StepPauses, StepSettles, PauseInStage, RecordResult
<1>4. CASE StepFails
  BY <1>4 DEF StepFails, ResultNotStorable, StageRaises
<1>5. CASE StepOn
  <2>1. CASE Approved \/ AskApproval \/ Disapproved
    BY <2>1 DEF Approved, AskApproval, Disapproved
  <2>2. CASE OwnerReturns \/ PostGateDiverts \/ RetryStage \/ FailRun
    BY <2>2 DEF OwnerReturns, PostGateDiverts, RetryStage, FailRun
  <2>3. CASE Routing
    BY <2>3 DEF Routing, HoldRoute, DeferRoute, AbandonRoute, CommitRoute, Announced
  <2> QED BY <1>5, <2>1, <2>2, <2>3 DEF StepOn
<1> QED BY <1>1, <1>2, <1>3, <1>4, <1>5 DEF Step

\* What was carried before a step of step() is carried after it.
LEMMA StepCarries ==
    ASSUME DriveInv, EntryTaken, owed = "due", Step, Carries
    PROVE  Carries'
<1> USE DEF DriveInv, LoopInv
<1>1. before' = before /\ node = before /\ tail = "stepping"
  BY DEF Step, TailPlace
<1>2. /\ before = MANIPULATION /\ entry = "no"
      /\ pc \in Working \/ (pc = "admitting" /\ pending # NoHandoff)
  <2>1. CASE pending # NoHandoff /\ pending.stage = MANIPULATION
    <3>1. pc \in {"admitting", "routing"}
      BY <1>1, <2>1 DEF ResultHoldsTheRun, TailPlace
    <3>2. before = MANIPULATION
      BY <1>1, <2>1, <3>1 DEF AdmitsOwnResult, RouteHasResult
    <3>3. entry = "no"
      BY <2>1, StagesAreDistinct DEF DistinctStages, EntryTaken
    <3> QED BY <2>1, <3>1, <3>2, <3>3 DEF Working
  <2>2. CASE ~(pending # NoHandoff /\ pending.stage = MANIPULATION)
    BY <1>1, <2>2 DEF Carries
  <2> QED BY <2>1, <2>2
<1>3. entry' = "no"
  BY <1>2, StepEntries DEF Working
<1>4. CASE pending' # NoHandoff
  <2>1. pending # NoHandoff => pending.stage = node
    BY <1>1, <1>2 DEF Working, ResultHoldsTheRun, RouteHasResult, AdmitsOwnResult
  <2> QED BY <1>1, <1>2, <1>4, <2>1, StepWorks DEF Carries
<1>5. CASE pending' = NoHandoff /\ pc' = "top"
  BY <1>1, <1>2, <1>3, <1>5, StepsStayInside DEF Carries
<1>6. CASE pending' = NoHandoff /\ pc' # "top"
  <2>1. pc' \in Working
    BY <1>2, <1>6, StepOnWorks
  <2> QED BY <1>1, <1>2, <1>3, <1>6, <2>1, StepsStayInside DEF Carries
<1> QED BY <1>4, <1>5, <1>6

\* A step of Vision, or of a stage before it, keeps the run on its way, or is one
\* whose evidence the tail is about to judge.
LEMMA StepHeads ==
    ASSUME NEW A, LeadsToVision(A), DriveInv, TurnInv, TailInv, EntryTaken, owed = "due",
           Step, Heads(A), TailNext
    PROVE  Heads(A)'
<1> USE DEF DriveInv, LoopInv
<1>1. /\ before' = before /\ node = before /\ tail = "stepping"
      /\ tail' \in {"stepped", "stepping"}
      /\ tail' = IF pc' = "top" THEN "stepped" ELSE "stepping"
  BY DEF Step, TailPlace, Returns
<1>2. Transferred'
  <2>1. ~Passing
    BY <1>1 DEF Passing, EvidenceFails, HoldForHelp, EndPaused, EndCycle, GoOn, Passed, Ready
  <2> QED BY <1>1, <2>1, TransferStays DEF Heads
<1>3. before \in A \cup {VISION}
  BY <1>1 DEF Heads
<1>4. CASE /\ InTick /\ pc' # "announcing"
           /\ stage' \in {stage, node, VISION, GUARDIAN} \cup Terminal
  <2>1. stage' \in Way(A)
    BY <1>1, <1>3, <1>4 DEF Way, StageIsNode, LeadsToVision
  <2> QED BY <1>1, <1>2, <1>3, <1>4, <2>1 DEF Heads, Way
<1>5. CASE /\ pc = "routing" /\ pc' = "announcing"
           /\ stage' = pending.next /\ pending' = NoHandoff
  <2>1. before \in A => stage' \in Way(A)
    BY <1>1, <1>5, HandoffAssumption
    DEF RouteHasResult, TurnInv, RouteIsEdge, LeadsToVision, Way
  <2> QED BY <1>1, <1>2, <1>3, <1>5, <2>1 DEF Heads, Way
<1>6. CASE /\ pc = "announcing" /\ pc' # "announcing"
           /\ UNCHANGED <<stage, pending, entry>>
  <2>1. pending = NoHandoff
    BY <1>6 DEF ResultHoldsTheRun
  <2>2. CASE before = VISION
    <3>1. entry = "no"
      BY <1>1, <1>6, <2>2, StagesAssumption DEF EntryTaken
    <3> QED BY <1>1, <1>2, <1>6, <2>1, <2>2, <3>1 DEF Heads, Way
  <2>3. CASE before # VISION
    <3>1. before \in A /\ stage \in Way(A)
      BY <1>1, <1>6, <2>3 DEF Heads
    <3> QED BY <1>1, <1>2, <1>6, <3>1 DEF Heads, Way
  <2> QED BY <2>2, <2>3
<1> QED BY <1>4, <1>5, <1>6, StepGoes

\* What the tail owes it keeps owing on the way to Vision, whatever happens.
LEMMA OwedStep ==
    ASSUME NEW A, LeadsToVision(A), DriveInv, TurnInv, TailInv, WaitsForOne,
           EntryTaken, OwedInv(A), TailNext
    PROVE  OwedInv(A)'
<1> USE DEF Rest, entering, judgment
<1>0. owed' = "due" =>
         owed = "due" \/ (Step /\ StepStarts /\ Hybrid /\ node = MANIPULATION)
  BY OnlyStartsOwe, StartsOwe
<1> SUFFICES ASSUME owed' = "due", tail' \notin {"waiting", "ended"}
             PROVE  Carries' \/ Heads(A)'
  BY <1>0 DEF OwedInv
<1>1. CASE Step
  <2>1. tail = "stepping" /\ before' = before /\ node = before
    BY <1>1 DEF Step, DriveInv, TailPlace
  <2>2. CASE StepStarts /\ Hybrid /\ node = MANIPULATION
    <3>1. entry' = "no"
      BY <2>2, StartsOwe, StagesAreDistinct DEF DistinctStages
    <3>2. pc' = "agent" /\ tail' = "stepping"
      BY <1>1, <2>2, StepsStayInside DEF StepStarts, StartOwner
    <3> QED BY <2>1, <2>2, <3>1, <3>2 DEF Carries, Working
  <2>3. CASE ~(StepStarts /\ Hybrid /\ node = MANIPULATION)
    <3>1. owed = "due" /\ (Carries \/ Heads(A))
      BY <1>0, <2>1, <2>3 DEF OwedInv
    <3> QED BY <1>1, <3>1, StepCarries, StepHeads
  <2> QED BY <2>2, <2>3
<1>2. CASE TailNext /\ ~Step
  <2>1. owed = "due"
    BY <1>0, <1>2
  <2>2. Hybrid /\ (tail \in {"waiting", "ended"} \/ Carries \/ Heads(A))
    BY <2>1 DEF OwedInv
  <2> USE DEF DriveInv, LoopInv, TailPlace
  <2>3. ~Passing /\ Transferred => Transferred'
    BY TransferStays
  <2>4. CASE BeginTail
    <3>1. tail = "begin" /\ pending = NoHandoff
      BY <2>4 DEF BeginTail, ResultHoldsTheRun
    <3> QED BY <2>2, <3>1 DEF Carries, Heads
  <2>5. CASE BeginStep
    <3>1. tail = "top" /\ before' = stage /\ UNCHANGED pending /\ ~Passing
      BY <2>5 DEF BeginStep, Passing, EvidenceFails, HoldForHelp, EndPaused, EndCycle, GoOn,
                  Passed, Ready
    <3>2. \/ tail' = "stepped" /\ stage' \in {stage, COMPLETE}
          \/ tail' = "stepping" /\ stage' = stage /\ stage \in Stages /\ pc' = "admitting"
      BY <2>5 DEF BeginStep
    <3>3. CASE Carries
      BY <3>1, <3>3 DEF Carries
    <3>4. CASE Heads(A)
      <4>1. Transferred' /\ stage \in Way(A)
        BY <2>3, <3>1, <3>4 DEF Heads
      <4>2. stage \in Stages => stage \in A \cup {VISION}
        BY <4>1, StagesAssumption DEF Way, Terminal
      <4> QED BY <3>1, <3>2, <4>1, <4>2 DEF Heads, Way, Terminal
    <3> QED BY <2>2, <3>1, <3>3, <3>4
  <2>6. CASE StepAgain
    <3>1. /\ tail = "stepped" /\ tail' = "top" /\ (pending # NoHandoff \/ entry # "no")
          /\ UNCHANGED <<stage, pending>>
      BY <2>6 DEF StepAgain, Held, vars
    <3>2. Heads(A) => Transferred'
      BY <2>3, <2>6 DEF Heads, StepAgain, Passing, EvidenceFails, HoldForHelp, EndPaused,
                        EndCycle, GoOn, Passed, Ready
    <3> QED BY <2>2, <3>1, <3>2 DEF Carries, Heads, Way
  <2>7. CASE HoldForHelp \/ GoOn
    <3>1. /\ tail = "stepped" /\ ~StopRequested /\ pending = NoHandoff /\ entry = "no"
          /\ ~NeedsTransfer /\ ~NeedsEvidence
          /\ UNCHANGED <<stage, token, records>>
          /\ tail' \in {"top", "holding"}
      BY <2>7 DEF HoldForHelp, GoOn, Passed, Ready, Held, vars
    <3>2. stage \notin Terminal
      BY <2>7, StagesAssumption
      DEF HoldForHelp, GoOn, CycleOver, TailTypes, Terminal
    <3>3. before # MANIPULATION
      BY <2>2, <3>1, <3>2 DEF NeedsTransfer
    <3>4. Heads(A)
      BY <2>2, <3>1, <3>3 DEF Carries
    <3>5. before # VISION /\ stage \in Way(A)
      BY <3>1, <3>4 DEF Heads, Transferred, NeedsEvidence
    <3>6. Transferred'
      BY <3>1, <3>4 DEF Heads, Transferred, records
    <3> QED BY <2>2, <3>1, <3>5, <3>6 DEF Heads, Way
  <2>8. CASE TransferConfirmed
    <3>1. /\ tail = "waiting" /\ tail' = "top" /\ stage' = VISION
          /\ status[token] = "operator_confirmed" /\ UNCHANGED <<token, records>>
      BY <2>8 DEF TransferConfirmed, Enter
    <3> QED BY <2>2, <3>1 DEF Heads, Way, Transferred, WaitsForOne, records
  <2>9. CASE HelpArrives
    <3>1. tail = "holding" /\ tail' = "top" /\ UNCHANGED stage /\ pending = NoHandoff
      BY <2>9 DEF HelpArrives, vars
    <3>2. Heads(A)
      BY <2>2, <3>1 DEF Carries
    <3>3. Transferred'
      BY <2>3, <3>1, <3>2 DEF Heads, Passing, EvidenceFails, HoldForHelp, EndPaused, EndCycle,
                              GoOn, Passed, Ready
    <3> QED BY <2>2, <3>1, <3>2, <3>3 DEF Heads, Way
  <2>10. CASE Request \/ StopCancels \/ Teleoperate
    <3>1. UNCHANGED <<tail, before, entry, token, pc, pending>>
      BY <2>10 DEF Request, StopCancels, Teleoperate, tailVars, vars, Pause, Resume,
                   RequestStop, Approve, Refuse
    <3>2. stage' \in {stage} \cup Terminal
      BY <2>10 DEF Request, StopCancels, Teleoperate, vars, Pause, Resume, RequestStop,
                   Approve, Refuse, Terminal
    <3>3. Transferred => Transferred'
      <4>1. CASE Request
        BY <4>1, <3>1, TailStopsStay DEF Request, records, Transferred
      <4>2. CASE StopCancels
        BY <4>2, <3>1, TailStopsStay DEF StopCancels, Transferred
      <4>3. CASE Teleoperate
        BY <4>3, <3>1, PopupKeepsConfirmed, TailStopsStay DEF Teleoperate, Transferred
      <4> QED BY <2>10, <4>1, <4>2, <4>3
    <3> QED BY <2>2, <3>1, <3>2, <3>3 DEF Carries, Heads, Way
  <2>11. ~(OutOfSteps \/ StepRaises \/ HaltAfterStep \/ TransferRefused \/ EvidenceFails
           \/ EndPaused \/ EndCycle \/ TransferStopped \/ HaltHolding \/ EmergencyEnds
           \/ OpenTransfer)
    BY DEF OutOfSteps, StepRaises, HaltAfterStep, TransferRefused, EvidenceFails, EndPaused,
           EndCycle, TransferStopped, HaltHolding, EmergencyEnds, OpenTransfer, Halt, Fail
  <2> QED
    BY <1>2, <2>4, <2>5, <2>6, <2>7, <2>8, <2>9, <2>10, <2>11
    DEF TailNext, TailTask, AfterStep, InWait
<1> QED BY <1>1, <1>2

\* The test machine does not work before the operator has confirmed the transfer and
\* Vision has verified it (docs/runtime/test_mode.md), unless an owner was admitted past
\* the question of an earlier entry: in a graph that leads from the Guardian to the
\* equipment only through Vision, as the shipped one does.
THEOREM EquipmentWaits ==
    ASSUME NEW A, LeadsToVision(A)
    PROVE  TailSafe => []EquipmentAfterTransfer
<1> DEFINE Inv == /\ DriveInv /\ TurnInv /\ TailInv /\ WaitsForOne /\ EntryTaken
                  /\ OwedInv(A)
<1>1. TailInit => Inv
  <2> SUFFICES ASSUME TailInit PROVE Inv
    OBVIOUS
  <2>1. TurnInv
    BY TurnInit DEF TailInit
  <2>2. EntryTaken /\ WaitsForOne /\ OwedInv(A)
    BY DEF TailInit, EntryTaken, WaitsForOne, OwedInv
  <2> QED BY <2>1, <2>2, DriveInit, TailInitInv
<1>2. Inv /\ [TailNext]_tvars => Inv'
  <2> SUFFICES ASSUME Inv, [TailNext]_tvars PROVE Inv'
    OBVIOUS
  <2>0. DriveInv'
    BY DriveStep
  <2>1. DriveInv' /\ TailInv' /\ WaitsForOne' /\ EntryTaken'
    BY <2>0, TailStep, TailKeepsWait, EntryStep
  <2>2. TurnInv'
    <3>1. [Next]_vars \/ Moves
      BY TailMovesLoop DEF DriveInv, tvars
    <3>2. CASE Moves
      BY <2>1, <3>2 DEF DriveInv, TurnInv, Moves, Kept, Dispatches, Enters, Ends,
                        OwnerHasStarted, RouteIsEdge, HeldForRecapture, Reuses
    <3> QED BY <3>1, <3>2, TurnInvStep
  <2>3. OwedInv(A)'
    <3>1. CASE TailNext
      BY <3>1, OwedStep
    <3>2. CASE UNCHANGED tvars
      BY <3>2 DEF tvars, vars, tailVars, entering, judgment, records, flags, OwedInv, Carries,
                  Heads, Way, Transferred, StopRequested
    <3> QED BY <3>1, <3>2
  <2> QED BY <2>1, <2>2, <2>3
<1>3. Inv => EquipmentAfterTransfer
  <2> SUFFICES ASSUME Inv, pc \in {"agent", "settling"}, node = EQUIPMENT,
                      owed = "due"
               PROVE  FALSE
    BY DEF EquipmentAfterTransfer
  <2>1. tail = "stepping" /\ node = before
    BY DEF DriveInv, TailPlace, TailTypes, TailPCs
  <2>2. pending = NoHandoff
    BY DEF DriveInv, LoopInv, ResultHoldsTheRun
  <2> QED
    BY <2>1, <2>2, StagesAreDistinct
    DEF OwedInv, Carries, Heads, LeadsToVision, DistinctStages
<1> QED BY <1>1, <1>2, <1>3, PTL DEF TailSafe

-----------------------------------------------------------------------------
(* A stop request leaves the tail few steps.                                *)

LEMMA OneMore == \A a, b \in Int : (a < b => 1 + a < 1 + b) /\ (a <= b => 1 + a <= 1 + b)
  OBVIOUS

TailStepsInRange ==
    /\ TailStepsLeft \in 0..11
    /\ tail = "stepping" => TailStepsLeft = 1 + StepsLeft /\ StepsLeft \in 3..10

LEMMA TailStepsRange == DriveInv => TailStepsInRange
<1> SUFFICES ASSUME DriveInv PROVE TailStepsInRange
  OBVIOUS
<1>1. tail = "stepping" => StepsLeft \in 3..10
  BY DEF DriveInv, LoopInv, TypeOK, PCs, TailPlace, StepsLeft
<1>2. tail = "stepping" => TailStepsLeft = 1 + StepsLeft
  BY DEF TailStepsLeft
<1>3. tail # "stepping" => TailStepsLeft \in 0..3
  BY DEF DriveInv, TailTypes, TailPCs, TailStepsLeft
<1> QED BY <1>1, <1>2, <1>3 DEF TailStepsInRange

LEMMA TailStepsRangeNext == DriveInv' => TailStepsInRange'
  BY TailStepsRange, PTL

\* A step of step() nears the end of the run task, and with it that of the tail.
LEMMA StepNears ==
    ASSUME DriveInv, DriveInv', StopRequested, Step
    PROVE  TailStepsLeft' < TailStepsLeft
<1>1. StepsLeft' < StepsLeft
  <2>1. RunTask
    BY DEF Step, StepAdmits, StepHoldsEntry, StepStarts, StepPauses, StepSettles, StepFails,
           StepOn, RunTask, Admission, Settlement, Failure
  <2> QED BY <2>1, TaskStepsNear DEF DriveInv
<1>2. TailStepsLeft = 1 + StepsLeft /\ StepsLeft \in 3..10
  BY TailStepsRange DEF TailStepsInRange, Step
<1>3. CASE pc' = "top"
  <2>1. tail' = "stepped"
    BY <1>3 DEF Step, Returns
  <2>2. TailStepsLeft' = 1
    BY <2>1 DEF TailStepsLeft
  <2> QED BY <1>2, <2>2
<1>4. CASE pc' # "top"
  <2>1. tail' = "stepping"
    BY <1>4 DEF Step, Returns
  <2>2. TailStepsLeft' = 1 + StepsLeft' /\ StepsLeft' \in 3..10
    BY <2>1, TailStepsRangeNext DEF TailStepsInRange
  <2>3. StepsLeft \in Int /\ StepsLeft' \in Int
    BY <1>2, <2>2
  <2>4. 1 + StepsLeft' < 1 + StepsLeft
    BY <1>1, <2>3, OneMore, Zenon
  <2> QED BY <1>2, <2>2, <2>4, Zenon
<1> QED BY <1>3, <1>4

\* So does what the tail does before and after a step, and in its waits.
LEMMA BetweenStepsNears ==
    ASSUME DriveInv, StopRequested, TailTask, ~Step
    PROVE  TailStepsLeft' < TailStepsLeft
<1>1. CASE BeginTail
  <2>1. tail = "begin" /\ tail' = "ended"
    BY <1>1 DEF BeginTail
  <2> QED BY <2>1 DEF TailStepsLeft
<1>2. CASE BeginStep
  <2>1. tail = "top" /\ tail' = "stepped"
    BY <1>2 DEF BeginStep
  <2> QED BY <2>1 DEF TailStepsLeft
<1>3. CASE AfterStep
  <2>1. tail = "stepped" /\ tail' = "ended"
    BY <1>3 DEF AfterStep, HaltAfterStep, Halt, StepAgain, OpenTransfer, TransferRefused,
                EvidenceFails, HoldForHelp, EndPaused, EndCycle, GoOn, Passed, Ready
  <2> QED BY <2>1 DEF TailStepsLeft
<1>4. CASE InWait
  <2>1. tail \in {"waiting", "holding"} /\ tail' \in {"top", "ended"}
    BY <1>4 DEF InWait, TransferConfirmed, TransferStopped, HelpArrives, HaltHolding, Halt,
                Fail
  <2> QED BY <2>1 DEF TailStepsLeft
<1> QED BY <1>1, <1>2, <1>3, <1>4 DEF TailTask

\* What else happens does not take the tail back: the requests of the operator, the
\* cancelling of a handoff, a spent budget, an exception, the popup.
LEMMA RequestsDoNotHinder ==
    ASSUME DriveInv, DriveInv', [TailNext]_tvars, ~TailTask
    PROVE  TailStepsLeft' <= TailStepsLeft
<1>0. TailStepsLeft \in 0..11
  BY TailStepsRange DEF TailStepsInRange
<1>1. CASE OutOfSteps \/ StepRaises \/ EmergencyEnds
  <2>1. tail' = "ended"
    BY <1>1 DEF OutOfSteps, StepRaises, EmergencyEnds
  <2>2. TailStepsLeft' = 0
    BY <2>1 DEF TailStepsLeft
  <2> QED BY <1>0, <2>2
<1>2. CASE Request
  <2>1. tail' = tail
    BY <1>2 DEF Request, tailVars
  <2>2. CASE tail = "stepping"
    <3>1. Operator
      BY <1>2 DEF Request, Operator
    <3>2. StepsLeft' <= StepsLeft
      BY <3>1, OthersDoNotHinder DEF DriveInv
    <3>3. TailStepsLeft = 1 + StepsLeft /\ StepsLeft \in 3..10
      BY <2>2, TailStepsRange DEF TailStepsInRange
    <3>4. TailStepsLeft' = 1 + StepsLeft' /\ StepsLeft' \in 3..10
      BY <2>1, <2>2, TailStepsRangeNext DEF TailStepsInRange
    <3>5. StepsLeft \in Int /\ StepsLeft' \in Int
      BY <3>3, <3>4
    <3>6. 1 + StepsLeft' <= 1 + StepsLeft
      BY <3>2, <3>5, OneMore, Zenon
    <3> QED BY <3>3, <3>4, <3>6, Zenon
  <2>3. CASE tail # "stepping"
    <3>1. tail \in {"begin", "top", "stepped", "waiting", "holding", "ended"}
      BY <2>3 DEF DriveInv, TailTypes, TailPCs
    <3>2. TailStepsLeft' = TailStepsLeft
      BY <2>1, <3>1 DEF TailStepsLeft
    <3> QED BY <1>0, <3>2
  <2> QED BY <2>2, <2>3
<1>3. CASE StopCancels \/ Teleoperate \/ UNCHANGED tvars
  <2>1. UNCHANGED <<tail, pc, stage>>
    BY <1>3 DEF StopCancels, Teleoperate, tvars, tailVars, vars
  <2>2. TailStepsLeft' = TailStepsLeft
    BY <2>1 DEF TailStepsLeft, StepsLeft
  <2> QED BY <1>0, <2>2
<1> QED BY <1>1, <1>2, <1>3 DEF TailNext

\* A stop request of any kind leaves the tail at most eleven steps: each one takes it
\* nearer to its end, also out of the wait for a transfer and out of the hold for help,
\* and no operator takes it back (halt_for_control_flag and the loops of the two waits).
THEOREM TailStopsNear ==
    TailSafe => StopNearsTailEnd /\ [](TailStepsLeft \in 0..11)
<1>1. DriveInv /\ DriveInv' /\ [TailNext]_tvars
        => [StopRequested => /\ StopRequested'
                             /\ TailStepsLeft' <= TailStepsLeft
                             /\ TailTask => TailStepsLeft' < TailStepsLeft]_tvars
  <2> SUFFICES ASSUME DriveInv, DriveInv', [TailNext]_tvars, tvars' # tvars, StopRequested
               PROVE  /\ StopRequested'
                      /\ TailStepsLeft' <= TailStepsLeft
                      /\ TailTask => TailStepsLeft' < TailStepsLeft
    OBVIOUS
  <2>1. StopRequested'
    BY TailStopsStay DEF tvars
  <2>2. TailTask => TailStepsLeft' < TailStepsLeft
    BY StepNears, BetweenStepsNears
  <2>3. TailStepsLeft \in 0..11 /\ TailStepsLeft' \in 0..11
    BY TailStepsRange, TailStepsRangeNext DEF TailStepsInRange
  <2>4. ~TailTask => TailStepsLeft' <= TailStepsLeft
    BY RequestsDoNotHinder
  <2> QED BY <2>1, <2>2, <2>3, <2>4
<1>2. DriveInv => TailStepsLeft \in 0..11
  BY TailStepsRange DEF TailStepsInRange
<1> QED
  BY <1>1, <1>2, DriveInvariant, PTL DEF TailSafe, StopNearsTailEnd
=============================================================================
