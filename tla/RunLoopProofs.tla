---------------------------- MODULE RunLoopProofs ----------------------------
(* Safety of the run loop for any graph of stages, any set of physical and  *)
(* approval-gated stages, any retry budget and any number of cycles; last,  *)
(* that few steps are left once a stop is requested.                        *)
EXTENDS RunLoop, TLAPS

-----------------------------------------------------------------------------
(* The inductive invariant.                                                 *)

\* A route is taken only for a recorded result of the stage being executed.
RouteHasResult == pc = "routing" => pending \in Handoffs /\ pending.stage = node

\* Only an end of the run takes the state out of the stage being executed.
StageIsNode == InTick => stage \in {node} \cup Terminal

\* A tick that finds a waiting result finds one of its own stage.
AdmitsOwnResult == pc = "admitting" /\ pending # NoHandoff => pending.stage = node

\* The owner of a physical stage that has run left a result, or the run ends.
PhysicalIsSpent ==
    /\ pc = "top" /\ stage \in Physical /\ started => pending # NoHandoff
    /\ pc = "admitting" /\ node \in Physical /\ started => pending # NoHandoff
    /\ pc \in {"gated", "entry"} /\ node \in Physical => ~started
    /\ pc \in {"start", "announcing"} => ~started

LoopInv ==
    /\ TypeOK
    /\ RouteHasResult
    /\ StageIsNode
    /\ AdmitsOwnResult
    /\ ResultHoldsTheRun
    /\ PhysicalIsSpent
    /\ OnlyApprovedOwnersRun

LEMMA LoopInit == Init => LoopInv
<1> SUFFICES ASSUME Init PROVE LoopInv
  OBVIOUS
<1>1. TypeOK
  <2>1. /\ paused \in BOOLEAN /\ stopReq \in BOOLEAN /\ safeReq \in BOOLEAN
        /\ estop \in BOOLEAN /\ resumed \in BOOLEAN /\ started \in BOOLEAN
    BY DEF Init
  <2>2. retries \in [Stages -> 0..MaxRetry]
    BY PolicyAssumption DEF Init
  <2>3. asked \cup granted \cup refused \subseteq NeedsApproval \X Nat
    BY DEF Init
  <2>4. /\ stage = IDLE /\ node \in Stages /\ pc \in PCs
        /\ passes \in Nat /\ strays \in Nat /\ lateStarts \in 0..2
        /\ pending = NoHandoff /\ hold = "none" /\ verdict \in Verdicts
    BY StagesAssumption DEF Init, PCs, Verdicts
  <2>5. loop \in Nat
    <3>1. loop = LoopBefore
      BY DEF Init
    <3> QED BY <3>1, PolicyAssumption DEF LoopBefore
  <2> QED BY <2>1, <2>2, <2>3, <2>4, <2>5 DEF TypeOK
<1>2. /\ RouteHasResult /\ StageIsNode /\ AdmitsOwnResult /\ ResultHoldsTheRun
      /\ PhysicalIsSpent /\ OnlyApprovedOwnersRun
  BY DEF Init, RouteHasResult, StageIsNode, InTick, AdmitsOwnResult, ResultHoldsTheRun,
         PhysicalIsSpent, OnlyApprovedOwnersRun
<1> QED BY <1>1, <1>2 DEF LoopInv

-----------------------------------------------------------------------------
LEMMA TickKeepsLoopInv == LoopInv /\ Tick => LoopInv'
<1> SUFFICES ASSUME LoopInv, Tick PROVE LoopInv'
  OBVIOUS
<1> USE StagesAssumption, GraphAssumption, PhysicalAssumption, PolicyAssumption,
        HandoffAssumption
    DEF LoopInv, TypeOK, PCs, Verdicts, Terminal, RouteHasResult, StageIsNode, InTick,
        AdmitsOwnResult, ResultHoldsTheRun, PhysicalIsSpent, OnlyApprovedOwnersRun,
        flags, approvals, history, EndTick, Enter, Handoffs
<1>1. CASE PreRunGate
  <2>1. pc = "start" /\ pc' = "top" /\ stage' \in {stage} \cup Terminal
    BY <1>1 DEF PreRunGate
  <2>2. UNCHANGED <<node, paused, stopReq, safeReq, estop, loop, retries, pending, resumed,
                    hold, verdict, asked, granted, refused, started, passes, strays, lateStarts>>
    BY <1>1 DEF PreRunGate
  <2> QED BY <2>1, <2>2
<1>2. CASE Finish
  BY <1>2 DEF Finish
<1>3. CASE StopStep
  BY <1>3 DEF StopStep, MayStep
<1>4. CASE IdleStep
  BY <1>4 DEF IdleStep, MayStep, StopRequested
<1>5. CASE DispatchStage
  BY <1>5 DEF DispatchStage, MayStep, StopRequested
<1>6. QED
  BY <1>1, <1>2, <1>3, <1>4, <1>5 DEF Tick

LEMMA AdmissionKeepsLoopInv == LoopInv /\ Admission => LoopInv'
<1> SUFFICES ASSUME LoopInv, Admission PROVE LoopInv'
  OBVIOUS
<1> USE StagesAssumption, GraphAssumption, PhysicalAssumption, PolicyAssumption,
        HandoffAssumption
    DEF LoopInv, TypeOK, PCs, Verdicts, Terminal, RouteHasResult, StageIsNode, InTick,
        AdmitsOwnResult, ResultHoldsTheRun, PhysicalIsSpent, OnlyApprovedOwnersRun,
        flags, approvals, history, EndTick, Enter, Handoffs
<1>1. CASE RefreshObservation
  BY <1>1 DEF RefreshObservation, HoldInForce
<1>2. CASE ResumeHandoff
  BY <1>2 DEF ResumeHandoff, HoldLookedAt
<1>3. CASE PreGate
  <2>1. /\ pc = "admitting" /\ pending = NoHandoff
        /\ hold' \in {"none", "entry", "result"}
    BY <1>3 DEF PreGate, HoldLookedAt
  <2>2. \/ pc' = "gated" /\ UNCHANGED <<stage, started>>
        \/ pc' = "top" /\ stage' \in {COMPLETE, GUARDIAN} /\ started' \in BOOLEAN
    BY <1>3 DEF PreGate, Diverted
  <2>3. UNCHANGED <<node, paused, stopReq, safeReq, estop, loop, retries, pending, resumed,
                    verdict, asked, granted, refused, passes, strays, lateStarts>>
    BY <1>3 DEF PreGate
  <2> QED BY <2>1, <2>2, <2>3
<1>4. CASE Approved
  BY <1>4 DEF Approved, GateKey
<1>5. CASE AskApproval
  BY <1>5 DEF AskApproval, GateKey
<1>6. CASE Disapproved
  BY <1>6 DEF Disapproved, GateKey
<1>7. CASE EntryHeld
  BY <1>7 DEF EntryHeld
<1>8. CASE StartOwner
  BY <1>8 DEF StartOwner
<1>9. CASE OwnerMissing
  BY <1>9 DEF OwnerMissing, HoldLookedAt
<1>10. QED
  BY <1>1, <1>2, <1>3, <1>4, <1>5, <1>6, <1>7, <1>8, <1>9 DEF Admission

LEMMA SettlementKeepsLoopInv == LoopInv /\ Settlement => LoopInv'
<1> SUFFICES ASSUME LoopInv, Settlement PROVE LoopInv'
  OBVIOUS
<1> USE StagesAssumption, GraphAssumption, PhysicalAssumption, PolicyAssumption,
        HandoffAssumption
    DEF LoopInv, TypeOK, PCs, Verdicts, Terminal, RouteHasResult, StageIsNode, InTick,
        AdmitsOwnResult, ResultHoldsTheRun, PhysicalIsSpent, OnlyApprovedOwnersRun,
        flags, approvals, history, EndTick, Enter, Handoffs
<1>1. CASE OwnerReturns
  BY <1>1 DEF OwnerReturns
<1>2. CASE PauseInStage
  BY <1>2 DEF PauseInStage
<1>3. CASE PostGateDiverts
  BY <1>3 DEF PostGateDiverts, Diverted
<1>4. CASE RecordResult
  <2>1. pc = "settling" /\ pc' = "routing" /\ resumed' \in BOOLEAN
    BY <1>4 DEF RecordResult, Completed
  <2>2. loop' \in Nat
    BY <1>4 DEF RecordResult, CountCycle
  <2>3. PICK next \in Successors[node] :
               pending' = [stage |-> node, next |-> next, status |-> "prepared"]
    BY <1>4 DEF RecordResult
  <2>4. next \in Stages \cup Terminal
    BY <2>3
  <2>5. pending' \in Handoffs /\ pending'.stage = node
    BY <2>3, <2>4
  <2>6. UNCHANGED <<stage, node, paused, stopReq, safeReq, estop, retries, hold, verdict,
                    asked, granted, refused, started, passes, strays, lateStarts>>
    BY <1>4 DEF RecordResult
  <2> QED BY <2>1, <2>2, <2>5, <2>6
<1>5. CASE ResultNotStorable
  BY <1>5 DEF ResultNotStorable, Completed, CountCycle
<1>6. QED
  BY <1>1, <1>2, <1>3, <1>4, <1>5 DEF Settlement

LEMMA RoutingKeepsLoopInv == LoopInv /\ Routing => LoopInv'
<1> SUFFICES ASSUME LoopInv, Routing PROVE LoopInv'
  OBVIOUS
<1> USE StagesAssumption, GraphAssumption, PhysicalAssumption, PolicyAssumption,
        HandoffAssumption
    DEF LoopInv, TypeOK, PCs, Verdicts, Terminal, RouteHasResult, StageIsNode, InTick,
        AdmitsOwnResult, ResultHoldsTheRun, PhysicalIsSpent, OnlyApprovedOwnersRun,
        flags, approvals, history, EndTick, Enter, Handoffs
<1>1. CASE HoldRoute
  BY <1>1 DEF HoldRoute
<1>2. CASE DeferRoute
  BY <1>2 DEF DeferRoute
<1>3. CASE AbandonRoute
  BY <1>3 DEF AbandonRoute
<1>4. CASE CommitRoute
  <2>1. /\ pc = "routing" /\ pc' = "announcing"
        /\ pending' = NoHandoff
        /\ stage' \in Stages \cup Terminal /\ started' = FALSE
        /\ hold' \in {"none", "entry", "result"} /\ passes' \in Nat
    BY <1>4 DEF CommitRoute
  <2>2. UNCHANGED <<node, paused, stopReq, safeReq, estop, loop, retries, resumed, verdict,
                    asked, granted, refused, strays, lateStarts>>
    BY <1>4 DEF CommitRoute
  <2> QED BY <2>1, <2>2
<1>5. CASE Announced
  BY <1>5 DEF Announced
<1>6. QED
  BY <1>1, <1>2, <1>3, <1>4, <1>5 DEF Routing

LEMMA FailureKeepsLoopInv == LoopInv /\ Failure => LoopInv'
<1> SUFFICES ASSUME LoopInv, Failure PROVE LoopInv'
  OBVIOUS
<1> USE StagesAssumption, GraphAssumption, PhysicalAssumption, PolicyAssumption,
        HandoffAssumption
    DEF LoopInv, TypeOK, PCs, Verdicts, Terminal, RouteHasResult, StageIsNode, InTick,
        AdmitsOwnResult, ResultHoldsTheRun, PhysicalIsSpent, OnlyApprovedOwnersRun,
        flags, approvals, history, EndTick, Enter, Handoffs
<1>1. CASE StageRaises
  BY <1>1 DEF StageRaises
<1>2. CASE RetryStage
  BY <1>2 DEF RetryStage, MayRetry
<1>3. CASE FailRun
  BY <1>3 DEF FailRun
<1>4. QED
  BY <1>1, <1>2, <1>3 DEF Failure

LEMMA OperatorKeepsLoopInv == LoopInv /\ Operator => LoopInv'
<1> SUFFICES ASSUME LoopInv, Operator PROVE LoopInv'
  OBVIOUS
<1> USE StagesAssumption, GraphAssumption, PhysicalAssumption, PolicyAssumption,
        HandoffAssumption
    DEF LoopInv, TypeOK, PCs, Verdicts, Terminal, RouteHasResult, StageIsNode, InTick,
        AdmitsOwnResult, ResultHoldsTheRun, PhysicalIsSpent, OnlyApprovedOwnersRun,
        flags, approvals, history, EndTick, Enter, Handoffs
<1>1. CASE Pause
  BY <1>1 DEF Pause
<1>2. CASE Resume
  <2>1. paused' \in BOOLEAN
    BY <1>2 DEF Resume
  <2>2. UNCHANGED <<stage, node, pc, stopReq, safeReq, estop, loop, retries, pending,
                    resumed, hold, verdict, asked, granted, refused, started, passes,
                    strays, lateStarts>>
    BY <1>2 DEF Resume
  <2> QED BY <2>1, <2>2
<1>3. CASE RequestStop
  <2>1. stopReq' \in BOOLEAN /\ safeReq' \in BOOLEAN /\ estop' \in BOOLEAN
    BY <1>3 DEF RequestStop
  <2>2. UNCHANGED <<stage, node, pc, paused, loop, retries, pending, resumed, hold,
                    verdict, asked, granted, refused, started, passes, strays, lateStarts>>
    BY <1>3 DEF RequestStop
  <2> QED BY <2>1, <2>2
<1>4. CASE CancelRun
  BY <1>4 DEF CancelRun
<1>5. CASE Approve
  <2>1. /\ paused' \in BOOLEAN
        /\ (asked \cup granted \cup refused)' \subseteq asked \cup granted \cup refused
        /\ granted \subseteq granted'
    BY <1>5 DEF Approve
  <2>2. UNCHANGED <<stage, node, pc, stopReq, safeReq, estop, loop, retries, pending,
                    resumed, hold, verdict, started, passes, strays, lateStarts>>
    BY <1>5 DEF Approve
  <2> QED BY <2>1, <2>2
<1>6. CASE Refuse
  <2>1. /\ paused' \in BOOLEAN
        /\ (asked \cup granted \cup refused)' \subseteq asked \cup granted \cup refused
        /\ stage' = ERROR
    BY <1>6 DEF Refuse
  <2>2. UNCHANGED <<node, pc, stopReq, safeReq, estop, loop, retries, pending, resumed,
                    hold, verdict, granted, started, passes, strays, lateStarts>>
    BY <1>6 DEF Refuse
  <2> QED BY <2>1, <2>2
<1>7. QED
  BY <1>1, <1>2, <1>3, <1>4, <1>5, <1>6 DEF Operator

LEMMA RunRaisesKeepsLoopInv == LoopInv /\ RunRaises => LoopInv'
<1> SUFFICES ASSUME LoopInv, RunRaises PROVE LoopInv'
  OBVIOUS
<1> QED
  BY DEF RunRaises, LoopInv, TypeOK, PCs, RouteHasResult, StageIsNode, InTick,
         AdmitsOwnResult, ResultHoldsTheRun, PhysicalIsSpent, OnlyApprovedOwnersRun,
         flags, approvals, history

\* The steps the whole specification takes: every action keeps the invariant.
LEMMA LoopStep == LoopInv /\ [Next]_vars => LoopInv'
<1> SUFFICES ASSUME LoopInv, [Next]_vars PROVE LoopInv'
  OBVIOUS
<1>1. CASE RunTask
  BY <1>1, TickKeepsLoopInv, AdmissionKeepsLoopInv, SettlementKeepsLoopInv,
     RoutingKeepsLoopInv, FailureKeepsLoopInv
  DEF RunTask
<1>2. CASE RunRaises
  BY <1>2, RunRaisesKeepsLoopInv
<1>3. CASE Operator
  BY <1>3, OperatorKeepsLoopInv
<1>4. CASE UNCHANGED vars
  BY <1>4
  DEF vars, flags, approvals, history, LoopInv, TypeOK, RouteHasResult, StageIsNode, InTick,
      AdmitsOwnResult, ResultHoldsTheRun, PhysicalIsSpent, OnlyApprovedOwnersRun
<1>5. QED
  BY <1>1, <1>2, <1>3, <1>4 DEF Next

\* The invariant holds of every reachable state.
LEMMA LoopInvariant == Spec => []LoopInv
<1> QED
  BY LoopInit, LoopStep, PTL DEF Spec

-----------------------------------------------------------------------------
(* What a reader of the code wants of it.                                   *)

\* Type correctness of the run loop's state.
THEOREM LoopTypes == Spec => []TypeOK
<1>1. LoopInv => TypeOK
  BY DEF LoopInv
<1> QED
  BY <1>1, LoopInvariant, PTL

\* A recorded result holds the run: until its route is consumed no owner works
\* and the run does not move on (_resume_completed_handoff).
THEOREM ResultHolds == Spec => []ResultHoldsTheRun
<1>1. LoopInv => ResultHoldsTheRun
  BY DEF LoopInv
<1> QED
  BY <1>1, LoopInvariant, PTL

\* No owner that needs the operator's approval runs with the approval of
\* another stage or another cycle (_module_approval_ready).
THEOREM ApprovedOnly == Spec => []OnlyApprovedOwnersRun
<1>1. LoopInv => OnlyApprovedOwnersRun
  BY DEF LoopInv
<1> QED
  BY <1>1, LoopInvariant, PTL

\* Only StartOwner takes the run into agent.run.
LEMMA OnlyStartOwnerStarts ==
    LoopInv /\ [Next]_vars /\ pc # "agent" /\ pc' = "agent" => StartOwner
<1> SUFFICES ASSUME LoopInv, [Next]_vars, pc # "agent", pc' = "agent" PROVE StartOwner
  OBVIOUS
<1>1. ~Tick
  BY DEF Tick, PreRunGate, Finish, StopStep, IdleStep, DispatchStage, MayStep, EndTick
<1>2. Admission => StartOwner
  BY DEF Admission, RefreshObservation, ResumeHandoff, OwnerMissing, PreGate, Approved, AskApproval,
         Disapproved, EntryHeld, EndTick
<1>3. ~Settlement
  BY DEF Settlement, OwnerReturns, PauseInStage, PostGateDiverts, RecordResult,
         ResultNotStorable, EndTick
<1>4. ~Routing
  BY DEF Routing, HoldRoute, DeferRoute, AbandonRoute, CommitRoute, Announced, EndTick
<1>5. ~Failure /\ ~RunRaises
  BY DEF Failure, StageRaises, RetryStage, FailRun, EndTick, RunRaises
<1>6. ~Operator
  BY DEF Operator, Pause, Resume, RequestStop, CancelRun, Approve, Refuse
<1>7. ~UNCHANGED vars
  BY DEF vars
<1> QED
  BY <1>1, <1>2, <1>3, <1>4, <1>5, <1>6, <1>7 DEF Next, RunTask

\* A physical owner is started at most once each time the run enters its
\* stage, whatever fails, is deferred, paused or resumed in between.
THEOREM PhysicalOnce == Spec => NoPhysicalReplay
<1>1. LoopInv /\ [Next]_vars
        => [pc # "agent" /\ pc' = "agent" /\ node \in Physical => ~started]_vars
  BY OnlyStartOwnerStarts DEF StartOwner, LoopInv, PhysicalIsSpent
<1> QED
  BY <1>1, LoopInvariant, PTL DEF Spec, NoPhysicalReplay

-----------------------------------------------------------------------------
(* The cycle counter.                                                       *)

\* Only a route inside an observation task is held for a recapture, so what a
\* recapture gives up is never a Guardian result.
HeldForRecapture == hold = "result" => pending # NoHandoff /\ Reuses(pending)

CycleInv ==
    /\ LoopInv
    /\ HeldForRecapture
    /\ loop = IF SeriesCycle = 0 THEN Counted
              ELSE IF Counted = 0 THEN LoopBefore ELSE SeriesCycle

\* What a step does to the count: nothing, or a completion of the Guardian is counted.
Recounts ==
    \/ loop' = loop /\ Counted' = Counted
    \/ node = GUARDIAN /\ CountCycle /\ Counted' = Counted + 1

LEMMA CountedIsNat == TypeOK => Counted \in Nat
  BY DEF TypeOK, Counted

LEMMA CycleInit == Init => CycleInv
<1> SUFFICES ASSUME Init PROVE CycleInv
  OBVIOUS
<1>1. Counted = 0 /\ HeldForRecapture
  BY DEF Init, Counted, HeldForRecapture
<1>2. loop = LoopBefore
  BY DEF Init
<1> QED
  BY <1>1, <1>2, LoopInit DEF CycleInv, LoopBefore

\* Every step of the loop keeps the count, or counts a completion of the Guardian.
LEMMA CycleMoves ==
    ASSUME LoopInv, HeldForRecapture, [Next]_vars
    PROVE  HeldForRecapture' /\ Recounts
<1> USE HandoffAssumption, GraphAssumption DEF HeldForRecapture, Counted, Recounts, Reuses
<1>1. CASE UNCHANGED <<loop, passes, strays, pending, hold>>
  BY <1>1
<1>2. CASE RefreshObservation
  <2>1. pending # NoHandoff => pending.stage # GUARDIAN
    <3>1. pending # NoHandoff => hold = "result"
      BY <1>2 DEF RefreshObservation, HoldInForce
    <3> QED BY <3>1
  <2>2. pending' = NoHandoff /\ hold' = "none" /\ UNCHANGED <<loop, passes, strays>>
    BY <1>2 DEF RefreshObservation
  <2> QED BY <2>1, <2>2
<1>3. CASE RecordResult
  <2>1. PICK next \in Successors[node] :
               pending' = [stage |-> node, next |-> next, status |-> "prepared"]
    BY <1>3 DEF RecordResult
  <2>2. next \in Stages \cup Terminal
    BY <2>1 DEF LoopInv, TypeOK
  <2>3. pending' # NoHandoff /\ pending'.stage = node
    BY <2>1, <2>2 DEF Handoffs, LoopInv, TypeOK
  <2>4. pending = NoHandoff
    BY <1>3 DEF RecordResult, Completed, LoopInv, ResultHoldsTheRun
  <2>5. CountCycle /\ UNCHANGED <<hold, passes, strays>>
    BY <1>3 DEF RecordResult, history
  <2>6. node # GUARDIAN => loop' = loop
    BY <2>5 DEF CountCycle
  <2>7. passes + strays \in Nat
    BY DEF LoopInv, TypeOK
  <2>8. Counted' = IF node = GUARDIAN THEN Counted + 1 ELSE Counted
    BY <2>3, <2>4, <2>5, <2>7
  <2>9. HeldForRecapture'
    BY <2>4, <2>5
  <2> QED BY <2>5, <2>6, <2>8, <2>9
<1>4. CASE ResultNotStorable
  <2>1. CountCycle /\ UNCHANGED <<passes, pending, hold>>
    BY <1>4 DEF ResultNotStorable
  <2>2. strays' = IF node = GUARDIAN THEN strays + 1 ELSE strays
    BY <1>4 DEF ResultNotStorable
  <2>3. node # GUARDIAN => loop' = loop
    BY <2>1 DEF CountCycle
  <2>4. Counted' = IF node = GUARDIAN THEN Counted + 1 ELSE Counted
    BY <2>1, <2>2 DEF LoopInv, TypeOK
  <2> QED BY <2>1, <2>3, <2>4
<1>5. CASE HoldRoute
  BY <1>5 DEF HoldRoute, LoopInv, RouteHasResult, history
<1>6. CASE CommitRoute
  <2>1. /\ pending # NoHandoff /\ pending' = NoHandoff /\ hold' # "result"
        /\ passes' = IF pending.stage = GUARDIAN THEN passes + 1 ELSE passes
        /\ UNCHANGED <<loop, strays>>
    BY <1>6 DEF CommitRoute, LoopInv, RouteHasResult
  <2> QED BY <2>1 DEF LoopInv, TypeOK
<1>7. CASE /\ pending \in Handoffs
           /\ \E st \in {"prepared", "deferred"} :
                 pending' = [pending EXCEPT !.status = st]
           /\ UNCHANGED <<loop, passes, strays, hold>>
  BY <1>7 DEF Handoffs
<1>8. Tick => UNCHANGED <<loop, passes, strays, pending, hold>>
  BY DEF Tick, PreRunGate, Finish, StopStep, IdleStep, DispatchStage, history
<1>9. CASE Admission
  <2>1. \/ RefreshObservation
        \/ /\ UNCHANGED <<loop, passes, strays, pending>>
           /\ hold' = "result" => hold = "result"
    BY <1>9 DEF Admission, ResumeHandoff, OwnerMissing, PreGate, Approved, AskApproval,
                Disapproved, EntryHeld, StartOwner, HoldLookedAt, history
  <2> QED BY <1>2, <2>1
<1>10. CASE Settlement
  <2>1. \/ RecordResult \/ ResultNotStorable
        \/ UNCHANGED <<loop, passes, strays, pending, hold>>
    BY <1>10 DEF Settlement, OwnerReturns, PauseInStage, PostGateDiverts, history
  <2> QED BY <1>1, <1>3, <1>4, <2>1
<1>11. CASE Routing
  <2>1. CASE DeferRoute
    BY <1>1, <1>7, <2>1 DEF DeferRoute, LoopInv, RouteHasResult, history
  <2>2. CASE AbandonRoute
    BY <1>7, <2>2 DEF AbandonRoute, LoopInv, RouteHasResult, history
  <2>3. CASE Announced
    BY <1>1, <2>3 DEF Announced, history
  <2> QED BY <1>5, <1>6, <1>11, <2>1, <2>2, <2>3 DEF Routing
<1>12. Failure \/ RunRaises => UNCHANGED <<loop, passes, strays, pending, hold>>
  BY DEF Failure, StageRaises, RetryStage, FailRun, RunRaises, history
<1>13. CASE Operator
  <2>1. CASE CancelRun
    BY <1>1, <1>7, <2>1 DEF CancelRun, LoopInv, RouteHasResult, history
  <2>2. Operator /\ ~CancelRun => UNCHANGED <<loop, passes, strays, pending, hold>>
    BY DEF Operator, Pause, Resume, RequestStop, Approve, Refuse, history
  <2> QED BY <1>1, <1>13, <2>1, <2>2
<1>14. CASE UNCHANGED vars
  BY <1>1, <1>14 DEF vars, history
<1> QED
  BY <1>1, <1>8, <1>9, <1>10, <1>11, <1>12, <1>13, <1>14 DEF Next, RunTask

LEMMA CycleStep == CycleInv /\ [Next]_vars => CycleInv'
<1> SUFFICES ASSUME CycleInv, [Next]_vars PROVE CycleInv'
  OBVIOUS
<1>1. LoopInv' /\ HeldForRecapture' /\ Recounts
  BY LoopStep, CycleMoves DEF CycleInv
<1>2. Counted \in Nat /\ SeriesCycle \in Nat
  BY CountedIsNat, PolicyAssumption DEF CycleInv, LoopInv
<1>3. CASE loop' = loop /\ Counted' = Counted
  BY <1>1, <1>3 DEF CycleInv, LoopBefore
<1>4. CASE node = GUARDIAN /\ CountCycle /\ Counted' = Counted + 1
  <2>1. Counted' # 0
    BY <1>2, <1>4
  <2>2. loop' = IF SeriesCycle = 0 THEN loop + 1 ELSE SeriesCycle
    BY <1>2, <1>4 DEF CountCycle
  <2>3. SeriesCycle = 0 => loop = Counted
    BY DEF CycleInv
  <2> QED BY <1>1, <1>4, <2>1, <2>2, <2>3 DEF CycleInv
<1> QED BY <1>1, <1>3, <1>4 DEF Recounts

\* A Guardian whose result could not be stored is failing, or the run has ended in it.
FailedReview == pc = "failing" /\ node = GUARDIAN
Over == pc = "finished" \/ (pc = "top" /\ stage \in Terminal)

Paid == strays <= retries[GUARDIAN]

StraysArePaid ==
    /\ strays <= retries[GUARDIAN] + 1
    /\ ~FailedReview /\ ~Over => Paid

\* A stray ends in a failure or in the end of the run, and a failure of the Guardian
\* that does not end the run is charged to its retries.
LEMMA StrayMoves ==
    ASSUME LoopInv, [Next]_vars
    PROVE  /\ \/ strays' = strays /\ retries'[GUARDIAN] >= retries[GUARDIAN]
              \/ /\ pc = "settling" /\ strays' = strays + 1 /\ retries' = retries
                 /\ (FailedReview \/ Over)'
           /\ FailedReview /\ ~(FailedReview \/ Over)' =>
                 retries'[GUARDIAN] = retries[GUARDIAN] + 1
           /\ Over => Over'
<1> USE StagesAssumption DEF LoopInv, TypeOK, FailedReview, Over
<1>0. \A s \in Stages : retries[s] \in Nat
  BY PolicyAssumption
<1>1. CASE ResultNotStorable
  <2>1. stage \in {node} \cup Terminal
    BY <1>1 DEF ResultNotStorable, Completed, StageIsNode, InTick
  <2>2. /\ pc = "settling" /\ UNCHANGED <<stage, node, retries>>
        /\ pc' = IF stage # node THEN "top" ELSE "failing"
        /\ strays' = IF node = GUARDIAN THEN strays + 1 ELSE strays
    BY <1>1 DEF ResultNotStorable, Completed
  <2> QED BY <1>0, <2>1, <2>2
<1>2. CASE RetryStage
  <2>1. /\ pc = "failing" /\ pc' = "top" /\ node' = node /\ strays' = strays
        /\ retries' = [retries EXCEPT ![node] = @ + 1]
    BY <1>2 DEF RetryStage, EndTick, history
  <2>2. retries'[GUARDIAN] = IF node = GUARDIAN THEN retries[GUARDIAN] + 1
                                               ELSE retries[GUARDIAN]
    BY <2>1
  <2> QED BY <1>0, <2>1, <2>2
<1>3. CASE Next /\ ~ResultNotStorable /\ ~RetryStage
  <2>1. UNCHANGED <<strays, retries>>
    BY <1>3 DEF Next, RunTask, Tick, Admission, Settlement, Routing, Failure, Operator,
      PreRunGate, Finish, StopStep, IdleStep, DispatchStage, RefreshObservation,
      ResumeHandoff, OwnerMissing, PreGate, Approved, AskApproval, Disapproved, EntryHeld,
      StartOwner, OwnerReturns, PauseInStage, PostGateDiverts, RecordResult, HoldRoute,
      DeferRoute, AbandonRoute, CommitRoute, Announced, StageRaises, FailRun, RunRaises,
      Pause, Resume, RequestStop, CancelRun, Approve, Refuse, history
  <2>2. FailedReview => FailedReview' \/ Over'
    <3>1. CASE RunTask /\ pc = "failing"
      BY <1>3, <3>1 DEF RunTask, Tick, Admission, Settlement, Routing, Failure, PreRunGate,
        Finish, StopStep, IdleStep, DispatchStage, MayStep, RefreshObservation,
        ResumeHandoff, OwnerMissing, PreGate, Approved, AskApproval, Disapproved, EntryHeld,
        StartOwner, OwnerReturns, PauseInStage, PostGateDiverts, RecordResult, Completed,
        HoldRoute, DeferRoute, AbandonRoute, CommitRoute, Announced, StageRaises, FailRun,
        EndTick, Terminal
    <3>2. CASE RunRaises
      BY <3>2 DEF RunRaises
    <3>3. CASE Operator
      BY <3>3 DEF Operator, Pause, Resume, RequestStop, CancelRun, Approve, Refuse
    <3> QED BY <1>3, <3>1, <3>2, <3>3 DEF Next
  <2>3. Over => Over'
    <3>1. CASE RunTask /\ Over
      BY <3>1 DEF RunTask, Tick, Admission, Settlement, Routing, Failure, PreRunGate,
        Finish, StopStep, IdleStep, DispatchStage, MayStep, RefreshObservation,
        ResumeHandoff, OwnerMissing, PreGate, Approved, AskApproval, Disapproved, EntryHeld,
        StartOwner, OwnerReturns, PauseInStage, PostGateDiverts, RecordResult, Completed,
        ResultNotStorable, HoldRoute, DeferRoute, AbandonRoute, CommitRoute, Announced,
        StageRaises, RetryStage, FailRun
    <3>2. CASE RunRaises
      BY <3>2 DEF RunRaises
    <3>3. CASE Operator
      BY <3>3 DEF Operator, Pause, Resume, RequestStop, CancelRun, Approve, Refuse, Terminal
    <3> QED BY <1>3, <3>1, <3>2, <3>3 DEF Next
  <2> QED BY <1>0, <2>1, <2>2, <2>3
<1>4. CASE UNCHANGED vars
  BY <1>0, <1>4 DEF vars, history
<1> QED BY <1>1, <1>2, <1>3, <1>4

LEMMA StrayInit == Init => StraysArePaid
  BY StagesAssumption DEF Init, StraysArePaid, Paid

LEMMA StrayStep == LoopInv /\ LoopInv' /\ StraysArePaid /\ [Next]_vars => StraysArePaid'
<1> SUFFICES ASSUME LoopInv, LoopInv', StraysArePaid, [Next]_vars PROVE StraysArePaid'
  OBVIOUS
<1>1. /\ strays \in Nat /\ strays' \in Nat
      /\ retries[GUARDIAN] \in Nat /\ retries'[GUARDIAN] \in Nat
  BY StagesAssumption, PolicyAssumption DEF LoopInv, TypeOK
<1>2. pc = "settling" => Paid
  BY DEF StraysArePaid, FailedReview, Over
<1> QED
  BY <1>1, <1>2, StrayMoves DEF StraysArePaid, Paid

\* loop_count is the number of completed cycles: in a planning series the series' own
\* index, in a run of its own one per completion of the Guardian.  A completion that
\* the checkpoint refuses is counted too (record_guardian_completion comes before
\* handoff_checkpoint), and costs a retry or the run.
THEOREM CyclesCounted == Spec => []CyclesNotAttempts
<1>1. Init => CycleInv /\ StraysArePaid
  BY CycleInit, StrayInit
<1>2. CycleInv /\ StraysArePaid /\ [Next]_vars => (CycleInv /\ StraysArePaid)'
  <2> SUFFICES ASSUME CycleInv, StraysArePaid, [Next]_vars PROVE (CycleInv /\ StraysArePaid)'
    OBVIOUS
  <2>1. CycleInv'
    BY CycleStep
  <2> QED BY <2>1, StrayStep DEF CycleInv
<1>3. CycleInv /\ StraysArePaid => CyclesNotAttempts
  BY DEF CycleInv, StraysArePaid, CyclesNotAttempts
<1> QED
  BY <1>1, <1>2, <1>3, PTL DEF Spec

-----------------------------------------------------------------------------
(* Owners that start after a stop request.                                  *)

\* Once one has, a stop is requested for good and the tick it started in is the last
\* that can reach an owner.
LateInv ==
    /\ lateStarts \in {0, 1}
    /\ lateStarts = 1 => StopRequested /\ pc \notin {"admitting", "gated", "entry"}

\* A stop request is never taken back.
LEMMA StopsStay ==
    ASSUME [Next]_vars, StopRequested
    PROVE  StopRequested'
<1>1. UNCHANGED flags => StopRequested'
  BY DEF flags, StopRequested
<1>2. CASE Operator
  <2>1. RequestStop \/ CancelRun => StopRequested'
    BY DEF RequestStop, CancelRun, StopRequested
  <2>2. Operator => RequestStop \/ CancelRun \/ UNCHANGED flags
    BY DEF Operator, Pause, Resume, Approve, Refuse
  <2> QED BY <1>1, <1>2, <2>1, <2>2
<1>3. RunTask \/ RunRaises => UNCHANGED flags
  <2>1. Tick => UNCHANGED flags
    BY DEF Tick, PreRunGate, Finish, StopStep, IdleStep, DispatchStage
  <2>2. Admission => UNCHANGED flags
    BY DEF Admission, RefreshObservation, ResumeHandoff, OwnerMissing, PreGate, Approved,
           AskApproval, Disapproved, EntryHeld, StartOwner
  <2>3. Settlement => UNCHANGED flags
    BY DEF Settlement, OwnerReturns, PauseInStage, PostGateDiverts, RecordResult,
           ResultNotStorable
  <2>4. Routing => UNCHANGED flags
    BY DEF Routing, HoldRoute, DeferRoute, AbandonRoute, CommitRoute, Announced
  <2>5. Failure \/ RunRaises => UNCHANGED flags
    BY DEF Failure, StageRaises, RetryStage, FailRun, RunRaises
  <2> QED BY <2>1, <2>2, <2>3, <2>4, <2>5 DEF RunTask
<1> QED
  BY <1>1, <1>2, <1>3 DEF Next, vars

\* A tick that may start an owner begins without a stop request.
LEMMA TicksBeginUnstopped ==
    ASSUME [Next]_vars, pc' \in {"admitting", "gated", "entry"}, ~StartOwner
    PROVE  pc \in {"admitting", "gated", "entry"} \/ ~StopRequested
<1>1. Tick => ~StopRequested
  BY DEF Tick, PreRunGate, Finish, StopStep, IdleStep, DispatchStage, MayStep, EndTick
<1>2. Admission => pc \in {"admitting", "gated", "entry"}
  BY DEF Admission, RefreshObservation, ResumeHandoff, OwnerMissing, PreGate, Approved,
         AskApproval, Disapproved, EntryHeld
<1>3. ~Settlement
  BY DEF Settlement, OwnerReturns, PauseInStage, PostGateDiverts, RecordResult,
         ResultNotStorable, EndTick
<1>4. ~Routing
  BY DEF Routing, HoldRoute, DeferRoute, AbandonRoute, CommitRoute, Announced, EndTick
<1>5. ~Failure /\ ~RunRaises
  BY DEF Failure, StageRaises, RetryStage, FailRun, RunRaises, EndTick
<1>6. Operator \/ UNCHANGED vars => pc' = pc
  BY DEF Operator, Pause, Resume, RequestStop, CancelRun, Approve, Refuse, vars
<1> QED
  BY <1>1, <1>2, <1>3, <1>4, <1>5, <1>6 DEF Next, RunTask

\* Only StartOwner counts.
LEMMA OthersDoNotCount == [Next]_vars /\ ~StartOwner => UNCHANGED lateStarts
<1>1. Tick => UNCHANGED lateStarts
  BY DEF Tick, PreRunGate, Finish, StopStep, IdleStep, DispatchStage, history
<1>2. Admission /\ ~StartOwner => UNCHANGED lateStarts
  BY DEF Admission, RefreshObservation, ResumeHandoff, OwnerMissing, PreGate, Approved,
         AskApproval, Disapproved, EntryHeld, history
<1>3. Settlement => UNCHANGED lateStarts
  BY DEF Settlement, OwnerReturns, PauseInStage, PostGateDiverts, RecordResult,
         ResultNotStorable, history
<1>4. Routing => UNCHANGED lateStarts
  BY DEF Routing, HoldRoute, DeferRoute, AbandonRoute, CommitRoute, Announced, history
<1>5. Failure \/ RunRaises => UNCHANGED lateStarts
  BY DEF Failure, StageRaises, RetryStage, FailRun, RunRaises, history
<1>6. Operator \/ UNCHANGED vars => UNCHANGED lateStarts
  BY DEF Operator, Pause, Resume, RequestStop, CancelRun, Approve, Refuse, vars, history
<1> QED
  BY <1>1, <1>2, <1>3, <1>4, <1>5, <1>6 DEF Next, RunTask

LEMMA LateStep == LateInv /\ [Next]_vars => LateInv'
<1> SUFFICES ASSUME LateInv, [Next]_vars PROVE LateInv'
  OBVIOUS
<1>1. CASE StartOwner
  <2>1. lateStarts = 0 /\ pc' = "agent"
    BY <1>1 DEF StartOwner, LateInv
  <2>2. lateStarts' = IF StopRequested THEN 1 ELSE 0
    BY <1>1, <2>1 DEF StartOwner
  <2> QED BY <2>1, <2>2, StopsStay DEF LateInv
<1>2. CASE ~StartOwner
  <2>1. lateStarts' = lateStarts
    BY <1>2, OthersDoNotCount
  <2> QED BY <1>2, <2>1, StopsStay, TicksBeginUnstopped DEF LateInv
<1> QED
  BY <1>1, <1>2

\* After a stop request at most one more owner starts, the one whose tick had begun:
\* never the owner of a later stage, a retry or a resumed route (step's look at the
\* flags, which _execute_agent_stage does not repeat).
THEOREM OneLateStart == Spec => []AtMostOneLateStart
<1>1. Init => LateInv
  BY DEF Init, LateInv
<1>2. LateInv => AtMostOneLateStart
  BY DEF LateInv, AtMostOneLateStart
<1> QED
  BY <1>1, <1>2, LateStep, PTL DEF Spec

-----------------------------------------------------------------------------
(* A stop request leaves the run task few steps.                            *)

LEMMA StepsLeftRange == LoopInv => StepsLeft \in 0..10
  BY DEF LoopInv, TypeOK, PCs, StepsLeft

\* Every step of the task that a stop request does not forbid takes it on; what starts
\* a tick, enters a stage or consumes a route is forbidden.
LEMMA TaskStepsNear ==
    ASSUME LoopInv, StopRequested, RunTask \/ RunRaises
    PROVE  StepsLeft' < StepsLeft
<1> USE DEF EndTick, StepsLeft
<1>1. CASE Tick
  <2>1. ~IdleStep /\ ~DispatchStage
    BY DEF IdleStep, DispatchStage
  <2>2. CASE PreRunGate
    BY <2>2 DEF PreRunGate
  <2>3. CASE Finish
    BY <2>3 DEF Finish
  <2>4. CASE StopStep
    BY <2>4 DEF StopStep, MayStep, Terminal
  <2> QED BY <1>1, <2>1, <2>2, <2>3, <2>4 DEF Tick
<1>2. CASE Admission
  <2>1. ~RefreshObservation
    BY DEF RefreshObservation
  <2>2. CASE ResumeHandoff \/ OwnerMissing \/ PreGate
    BY <2>2 DEF ResumeHandoff, OwnerMissing, PreGate
  <2>3. CASE Approved \/ AskApproval \/ Disapproved
    BY <2>3 DEF Approved, AskApproval, Disapproved
  <2>4. CASE EntryHeld \/ StartOwner
    BY <2>4 DEF EntryHeld, StartOwner
  <2> QED BY <1>2, <2>1, <2>2, <2>3, <2>4 DEF Admission
<1>3. CASE Settlement
  BY <1>3 DEF Settlement, OwnerReturns, PauseInStage, PostGateDiverts, RecordResult,
              ResultNotStorable, Completed
<1>4. CASE Routing
  <2>1. ~CommitRoute
    BY DEF CommitRoute
  <2> QED BY <1>4, <2>1 DEF Routing, HoldRoute, DeferRoute, AbandonRoute, Announced
<1>5. CASE Failure \/ RunRaises
  BY <1>5 DEF Failure, StageRaises, RetryStage, FailRun, RunRaises
<1> QED BY <1>1, <1>2, <1>3, <1>4, <1>5 DEF RunTask

LEMMA OthersDoNotHinder ==
    ASSUME LoopInv, Operator \/ UNCHANGED vars
    PROVE  StepsLeft' <= StepsLeft
<1>0. StepsLeft \in 0..10
  BY StepsLeftRange
<1>1. CASE Pause \/ Resume \/ RequestStop \/ Approve \/ UNCHANGED vars
  <2>1. UNCHANGED <<pc, stage>>
    BY <1>1 DEF Pause, Resume, RequestStop, Approve, vars
  <2>2. StepsLeft' = StepsLeft
    BY <2>1 DEF StepsLeft
  <2> QED BY <1>0, <2>2
<1>2. CASE Refuse
  <2>1. pc' = pc /\ stage' \in Terminal
    BY <1>2 DEF Refuse, Terminal
  <2> QED BY <2>1 DEF StepsLeft, LoopInv, TypeOK, PCs
<1>3. CASE CancelRun
  <2>1. StepsLeft' = 0
    BY <1>3 DEF CancelRun, StepsLeft
  <2> QED BY <1>0, <2>1
<1> QED BY <1>1, <1>2, <1>3 DEF Operator

\* What one step of the loop does to the steps that are left.
LEMMA LoopStepNears ==
    ASSUME LoopInv, [Next]_vars, StopRequested
    PROVE  /\ StopRequested'
           /\ StepsLeft' <= StepsLeft
           /\ RunTask \/ RunRaises => StepsLeft' < StepsLeft
<1>1. StepsLeft \in 0..10
  BY StepsLeftRange
<1>2. StepsLeft' \in 0..10
  BY LoopStep DEF LoopInv, TypeOK, PCs, StepsLeft
<1>3. StopRequested'
  BY StopsStay
<1>4. CASE RunTask \/ RunRaises
  <2>1. StepsLeft' < StepsLeft
    BY <1>4, TaskStepsNear
  <2> QED BY <1>1, <1>2, <1>3, <2>1
<1>5. CASE ~(RunTask \/ RunRaises)
  BY <1>3, <1>5, OthersDoNotHinder DEF Next
<1> QED BY <1>4, <1>5

\* A stop request of any kind leaves the run task at most ten steps: each one takes it
\* nearer to its end and no operator takes it back.  What is left to the scheduler is
\* to take them (run's and step's look at the flags).
THEOREM StopsNearTheEnd == Spec => StopNearsEnd /\ [](StepsLeft \in 0..10)
<1>1. LoopInv /\ [Next]_vars
        => [StopRequested => /\ StopRequested'
                             /\ StepsLeft' <= StepsLeft
                             /\ RunTask \/ RunRaises => StepsLeft' < StepsLeft]_vars
  BY LoopStepNears
<1> QED
  BY <1>1, StepsLeftRange, LoopInvariant, PTL DEF Spec, StopNearsEnd

-----------------------------------------------------------------------------
(* The loop takes turns: RunLoop implements OwnerTurn.                       *)

\* An owner that is at work, or whose result is being settled, has started.
OwnerHasStarted == pc \in {"agent", "settling"} => started

\* A result waits for a route of the graph.
RouteIsEdge == pending # NoHandoff => pending.next \in Successors[pending.stage]

TurnInv == LoopInv /\ OwnerHasStarted /\ RouteIsEdge /\ HeldForRecapture

\* What a step does to the turn.
TurnStep == Turn!Next \/ (TurnAt' = TurnAt /\ TurnWork' = TurnWork)

LEMMA TurnInit == Init => TurnInv
  BY LoopInit DEF Init, TurnInv, OwnerHasStarted, RouteIsEdge, HeldForRecapture

\* What is recorded, held and started, over a step.
LEMMA TurnInvStep == TurnInv /\ [Next]_vars => TurnInv'
<1> SUFFICES ASSUME TurnInv, [Next]_vars
             PROVE  (OwnerHasStarted /\ RouteIsEdge /\ HeldForRecapture)'
  BY LoopStep DEF TurnInv
<1> USE HandoffAssumption, GraphAssumption
    DEF TurnInv, OwnerHasStarted, RouteIsEdge, HeldForRecapture, Reuses, history
<1>1. CASE /\ UNCHANGED <<pending, started>> /\ hold' \in {hold, "none", "entry"}
           /\ pc' \in {"agent", "settling"} => pc \in {"agent", "settling"}
  BY <1>1
<1>2. CASE /\ pending' = NoHandoff /\ hold' # "result" /\ pc' \notin {"agent", "settling"}
  BY <1>2
<1>3. CASE /\ pending \in Handoffs /\ UNCHANGED <<hold, started>>
           /\ \E st \in {"prepared", "deferred"} :
                 pending' = [pending EXCEPT !.status = st]
           /\ pc' \notin {"agent", "settling"}
  BY <1>3 DEF Handoffs
<1>4. CASE Tick
  <2>1. UNCHANGED <<pending, hold>> /\ pc' \notin {"agent", "settling"}
    BY <1>4 DEF Tick, PreRunGate, Finish, StopStep, IdleStep, DispatchStage, MayStep, EndTick
  <2> QED BY <2>1
<1>5. CASE Admission
  <2>1. CASE RefreshObservation
    BY <1>2, <2>1 DEF RefreshObservation, EndTick
  <2>2. CASE StartOwner
    BY <2>2 DEF StartOwner, LoopInv, TypeOK
  <2>3. Admission /\ ~RefreshObservation /\ ~StartOwner =>
          /\ pending' = pending /\ pc' \notin {"agent", "settling"}
          /\ hold' \in {hold, "none", "entry"}
    BY DEF Admission, ResumeHandoff, OwnerMissing, PreGate, Approved, AskApproval,
           Disapproved, EntryHeld, HoldLookedAt, EndTick
  <2> QED BY <1>5, <2>1, <2>2, <2>3
<1>6. CASE Settlement
  <2>1. CASE RecordResult
    <3>1. PICK next \in Successors[node] :
                 pending' = [stage |-> node, next |-> next, status |-> "prepared"]
      BY <2>1 DEF RecordResult
    <3>2. pending'.stage = node /\ pending'.next = next
      BY <3>1
    <3>3. hold # "result" /\ hold' = hold /\ pc' = "routing"
      BY <2>1 DEF RecordResult, Completed, LoopInv, ResultHoldsTheRun
    <3> QED BY <3>2, <3>3
  <2>2. Settlement /\ ~RecordResult =>
          /\ UNCHANGED <<pending, hold>>
          /\ pc' \in {"agent", "settling"} => pc \in {"agent", "settling"} /\ started' = started
    BY DEF Settlement, OwnerReturns, PauseInStage, PostGateDiverts, ResultNotStorable,
           Completed, EndTick
  <2> QED BY <1>6, <2>1, <2>2
<1>7. CASE Routing
  <2>1. CASE HoldRoute
    BY <2>1 DEF HoldRoute, EndTick, LoopInv, RouteHasResult
  <2>2. CASE DeferRoute
    BY <1>1, <1>3, <2>2 DEF DeferRoute, EndTick, LoopInv, RouteHasResult
  <2>3. CASE AbandonRoute
    BY <1>3, <2>3 DEF AbandonRoute, EndTick, LoopInv, RouteHasResult
  <2>4. CASE CommitRoute
    BY <1>2, <2>4 DEF CommitRoute
  <2>5. CASE Announced
    BY <1>1, <2>5 DEF Announced, EndTick
  <2> QED BY <1>7, <2>1, <2>2, <2>3, <2>4, <2>5 DEF Routing
<1>8. CASE Failure \/ RunRaises
  BY <1>1, <1>8 DEF Failure, StageRaises, RetryStage, FailRun, RunRaises, EndTick
<1>9. CASE Operator
  <2>1. CASE CancelRun
    BY <1>1, <1>3, <2>1 DEF CancelRun, LoopInv, RouteHasResult
  <2>2. Operator /\ ~CancelRun => UNCHANGED <<pc, pending, hold, started>>
    BY DEF Operator, Pause, Resume, RequestStop, Approve, Refuse
  <2> QED BY <1>1, <1>9, <2>1, <2>2
<1>10. CASE UNCHANGED vars
  BY <1>1, <1>10 DEF vars
<1> QED
  BY <1>4, <1>5, <1>6, <1>7, <1>8, <1>9, <1>10 DEF Next, RunTask

\* A tick begins at the stage of the turn; it enters the first stage or ends the run.
LEMMA TickTurns == TurnInv /\ Tick => TurnStep
<1> SUFFICES ASSUME TurnInv, Tick PROVE TurnStep
  OBVIOUS
<1> USE StagesAssumption, GraphAssumption, PhysicalAssumption, HandoffAssumption
    DEF TurnInv, LoopInv, TypeOK, PCs, Terminal, Verdicts, RouteHasResult, StageIsNode,
        AdmitsOwnResult, ResultHoldsTheRun, PhysicalIsSpent, OwnerHasStarted, InTick,
        TurnAt, TurnWork, TurnStep, EndTick, Enter, history
<1>1. CASE PreRunGate
  BY <1>1 DEF PreRunGate, Turn!Next, Turn!End
<1>2. CASE Finish
  BY <1>2 DEF Finish, Turn!Next, Turn!End
<1>3. CASE StopStep
  BY <1>3 DEF StopStep, Turn!Next, Turn!End, MayStep
<1>4. CASE IdleStep
  <2>1. pending # NoHandoff => pending.stage \in Stages
    BY DEF Handoffs
  <2>2. pc = "top" /\ stage = IDLE /\ pending = NoHandoff
    BY <1>4, <2>1 DEF IdleStep, MayStep
  <2>3. stage' = First /\ pc' = "top" /\ pending' = NoHandoff
    BY <1>4, <2>2 DEF IdleStep
  <2>4. TurnAt = IDLE /\ TurnAt' = First /\ TurnWork' = "due"
    BY <2>2, <2>3
  <2> QED BY <2>4 DEF Turn!Next, Turn!Begin
<1>5. CASE DispatchStage
  BY <1>5 DEF DispatchStage, Turn!Next, Turn!End, MayStep
<1> QED
  BY <1>1, <1>2, <1>3, <1>4, <1>5 DEF Tick

\* Before the owner starts, its turn is due.
LEMMA AdmissionTurns == TurnInv /\ Admission => TurnStep
<1> SUFFICES ASSUME TurnInv, Admission PROVE TurnStep
  OBVIOUS
<1> USE StagesAssumption, GraphAssumption, PhysicalAssumption, HandoffAssumption
    DEF TurnInv, LoopInv, TypeOK, PCs, Terminal, Verdicts, RouteHasResult, StageIsNode,
        AdmitsOwnResult, ResultHoldsTheRun, PhysicalIsSpent, OwnerHasStarted, InTick,
        TurnAt, TurnWork, TurnStep, EndTick, Enter, history
<1>1. CASE RefreshObservation
  <2>1. pc = "admitting" /\ stage = node /\ TurnAt = node
    BY <1>1 DEF RefreshObservation, HoldInForce
  <2>2. TurnAt' = VISION /\ TurnWork' = "due"
    BY <1>1 DEF RefreshObservation
  <2>3. CASE hold = "result"
    <3>1. pending # NoHandoff /\ <<node, pending.next>> \in Fresh
      BY <1>1, <2>1, <2>3 DEF RefreshObservation, HoldInForce, HeldForRecapture, Reuses
    <3>2. TurnWork = "held" /\ pending.next \in Stages
      BY <2>1, <3>1
    <3> QED BY <2>1, <2>2, <3>1, <3>2 DEF Turn!Next, Turn!Recapture
  <2>4. CASE hold = "entry"
    <3>1. pending = NoHandoff /\ node \in FreshEntries
      BY <1>1, <2>1, <2>4 DEF RefreshObservation, HoldInForce
    <3>2. PICK e \in Fresh : node = e[2]
      BY <3>1 DEF FreshEntries
    <3>3. e[1] \in Stages /\ <<e[1], node>> \in Fresh
      BY <3>2
    <3>4. TurnWork = "due"
      BY <2>1, <3>1
    <3> QED BY <2>1, <2>2, <3>3, <3>4 DEF Turn!Next, Turn!Recapture
  <2> QED BY <1>1, <2>3, <2>4 DEF RefreshObservation, HoldInForce
<1>2. CASE ResumeHandoff
  BY <1>2 DEF ResumeHandoff, Turn!Next, Turn!End
<1>3. CASE OwnerMissing
  BY <1>3 DEF OwnerMissing, Turn!Next, Turn!End
<1>4. CASE PreGate
  BY <1>4 DEF PreGate, Turn!Next, Turn!End, Turn!Divert, Diverted
<1>5. CASE Approved
  BY <1>5 DEF Approved, Turn!Next, Turn!End
<1>6. CASE AskApproval
  BY <1>6 DEF AskApproval, Turn!Next, Turn!End
<1>7. CASE Disapproved
  BY <1>7 DEF Disapproved, Turn!Next, Turn!End
<1>8. CASE EntryHeld
  BY <1>8 DEF EntryHeld, Turn!Next, Turn!End
<1>9. CASE StartOwner
  BY <1>9 DEF StartOwner, Turn!Next, Turn!End, Turn!Start
<1> QED
  BY <1>1, <1>2, <1>3, <1>4, <1>5, <1>6, <1>7, <1>8, <1>9 DEF Admission

\* A result ends the owner's turn at work.
LEMMA SettlementTurns == TurnInv /\ Settlement => TurnStep
<1> SUFFICES ASSUME TurnInv, Settlement PROVE TurnStep
  OBVIOUS
<1> USE StagesAssumption, GraphAssumption, PhysicalAssumption, HandoffAssumption
    DEF TurnInv, LoopInv, TypeOK, PCs, Terminal, Verdicts, RouteHasResult, StageIsNode,
        AdmitsOwnResult, ResultHoldsTheRun, PhysicalIsSpent, OwnerHasStarted, InTick,
        TurnAt, TurnWork, TurnStep, EndTick, Enter, history
<1>1. CASE OwnerReturns
  BY <1>1 DEF OwnerReturns, Turn!Next, Turn!End
<1>2. CASE PauseInStage
  BY <1>2 DEF PauseInStage, Turn!Next, Turn!End, Turn!Repeat
<1>3. CASE PostGateDiverts
  BY <1>3 DEF PostGateDiverts, Turn!Next, Turn!End, Turn!Divert, Diverted
<1>4. CASE RecordResult
  <2>1. PICK next \in Successors[node] :
               pending' = [stage |-> node, next |-> next, status |-> "prepared"]
    BY <1>4 DEF RecordResult
  <2>2. pending' \in Handoffs
    BY <2>1 DEF Handoffs
  <2>3. /\ pc = "settling" /\ pc' = "routing" /\ node' = node
        /\ pending = NoHandoff /\ pending' # NoHandoff
    BY <1>4, <2>2 DEF RecordResult, Completed
  <2>4. TurnAt = node /\ TurnAt' = node /\ TurnWork = "running" /\ TurnWork' = "held"
    BY <2>3
  <2> QED BY <2>4 DEF Turn!Next, Turn!Hold
<1>5. CASE ResultNotStorable
  BY <1>5 DEF ResultNotStorable, Turn!Next, Turn!End, Turn!Repeat, Completed
<1> QED
  BY <1>1, <1>2, <1>3, <1>4, <1>5 DEF Settlement

\* A result is held until it is routed along an edge.
LEMMA RoutingTurns == TurnInv /\ Routing => TurnStep
<1> SUFFICES ASSUME TurnInv, Routing PROVE TurnStep
  OBVIOUS
<1> USE StagesAssumption, GraphAssumption, PhysicalAssumption, HandoffAssumption
    DEF TurnInv, LoopInv, TypeOK, PCs, Terminal, Verdicts, RouteHasResult, StageIsNode,
        AdmitsOwnResult, ResultHoldsTheRun, PhysicalIsSpent, OwnerHasStarted, InTick,
        TurnAt, TurnWork, TurnStep, EndTick, Enter, history
<1>1. CASE HoldRoute
  BY <1>1 DEF HoldRoute, Turn!Next, Turn!End
<1>2. CASE DeferRoute
  <2>1. /\ pc = "routing" /\ pc' = "top" /\ UNCHANGED <<stage, node>>
        /\ pending \in Handoffs /\ pending # NoHandoff
    BY <1>2 DEF DeferRoute
  <2>2. pending' = pending \/ pending' = [pending EXCEPT !.status = "deferred"]
    BY <1>2 DEF DeferRoute
  <2>3. pending' \in Handoffs
    BY <2>1, <2>2 DEF Handoffs
  <2> QED BY <2>1, <2>3 DEF Turn!Next, Turn!End
<1>3. CASE AbandonRoute
  BY <1>3 DEF AbandonRoute, Turn!Next, Turn!End
<1>4. CASE CommitRoute
  BY <1>4 DEF CommitRoute, Turn!Next, Turn!End, Turn!Route, RouteIsEdge
<1>5. CASE Announced
  BY <1>5 DEF Announced, Turn!Next, Turn!End
<1> QED
  BY <1>1, <1>2, <1>3, <1>4, <1>5 DEF Routing

\* A failure repeats the turn of an owner that is not physical, or ends the run.
LEMMA FailureTurns == TurnInv /\ Failure => TurnStep
<1> SUFFICES ASSUME TurnInv, Failure PROVE TurnStep
  OBVIOUS
<1> USE StagesAssumption, GraphAssumption, PhysicalAssumption, HandoffAssumption
    DEF TurnInv, LoopInv, TypeOK, PCs, Terminal, Verdicts, RouteHasResult, StageIsNode,
        AdmitsOwnResult, ResultHoldsTheRun, PhysicalIsSpent, OwnerHasStarted, InTick,
        TurnAt, TurnWork, TurnStep, EndTick, Enter, history
<1>1. CASE StageRaises
  BY <1>1 DEF StageRaises, Turn!Next, Turn!End, Turn!Repeat
<1>2. CASE RetryStage
  BY <1>2 DEF RetryStage, Turn!Next, Turn!End, Turn!Repeat, MayRetry
<1>3. CASE FailRun
  BY <1>3 DEF FailRun, Turn!Next, Turn!End
<1> QED
  BY <1>1, <1>2, <1>3 DEF Failure

\* An operator ends the run or leaves the turn alone.
LEMMA OperatorTurns == TurnInv /\ Operator => TurnStep
<1> SUFFICES ASSUME TurnInv, Operator PROVE TurnStep
  OBVIOUS
<1> USE StagesAssumption, GraphAssumption, PhysicalAssumption, HandoffAssumption
    DEF TurnInv, LoopInv, TypeOK, PCs, Terminal, Verdicts, RouteHasResult, StageIsNode,
        AdmitsOwnResult, ResultHoldsTheRun, PhysicalIsSpent, OwnerHasStarted, InTick,
        TurnAt, TurnWork, TurnStep, EndTick, Enter, history
<1>1. CASE Pause
  BY <1>1 DEF Pause, Turn!Next, Turn!End
<1>2. CASE Resume
  BY <1>2 DEF Resume, Turn!Next, Turn!End
<1>3. CASE RequestStop
  BY <1>3 DEF RequestStop, Turn!Next, Turn!End
<1>4. CASE CancelRun
  BY <1>4 DEF CancelRun, Turn!Next, Turn!End
<1>5. CASE Approve
  BY <1>5 DEF Approve, Turn!Next, Turn!End
<1>6. CASE Refuse
  BY <1>6 DEF Refuse, Turn!Next, Turn!End
<1> QED
  BY <1>1, <1>2, <1>3, <1>4, <1>5, <1>6 DEF Operator

LEMMA StepTakesTurn == TurnInv /\ [Next]_vars => TurnStep
<1>1. RunRaises => TurnAt' = COMPLETE /\ TurnWork' = "due"
  BY DEF RunRaises, TurnAt, TurnWork, InTick
<1>2. RunRaises => TurnStep
  BY <1>1 DEF TurnStep, Turn!Next, Turn!End
<1>3. UNCHANGED vars => TurnStep
  BY DEF vars, history, TurnStep, TurnAt, TurnWork, InTick
<1> QED
  BY <1>2, <1>3, TickTurns, AdmissionTurns, SettlementTurns, RoutingTurns, FailureTurns,
     OperatorTurns
  DEF Next, RunTask

\* The loop implements OwnerTurn: whatever is gated, held, deferred, retried, paused,
\* stopped or failed, a stage's owner has its turn, its result is held and routed once
\* along an edge of the graph, and a physical owner's turn does not come back
\* (_execute_agent_stage, _resume_completed_handoff).
THEOREM LoopTakesTurns == Spec => TakesTurns
<1>1. Init => Turn!Init
  BY StagesAssumption DEF Init, Turn!Init, TurnAt, TurnWork, InTick, Terminal
<1>2. TurnInv /\ [Next]_vars => [Turn!Next]_<<TurnAt, TurnWork>>
  BY StepTakesTurn DEF TurnStep
<1> QED
  BY <1>1, <1>2, TurnInit, TurnInvStep, PTL DEF Spec, TakesTurns, Turn!Spec
=============================================================================
