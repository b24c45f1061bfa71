-------------------------- MODULE ClearCycleProofs --------------------------
(***************************************************************************)
(* What holds of the clearance for any set of controls, however many of    *)
(* them are used and however often the run is resumed: the types,          *)
(* StartedOnce, StopWins, DoneIsClear and SupervisedMotion.                *)
(***************************************************************************)
EXTENDS ClearCycle, TLAPS

Execs == [state : States, simulated : BOOLEAN, verified : BOOLEAN,
          attempted : BOOLEAN, bound : BOOLEAN, framed : BOOLEAN,
          unseen : BOOLEAN]
CallSet == [by : Callers, op : Ops, at : Steps, res : Answers]
Pcs == {"equipment", "manip", "vision", "between"} \cup Awaits \cup Ends

\* The type of what the bridge has, and of the rest.
BridgeOK ==
  /\ session \in {"none", "active", "completed", "failed", "stopped"}
  /\ alive \in BOOLEAN /\ exit \in {"-", "ok", "unverified", "failed"}
  /\ fixture \in {"specimen", "empty"}
TailOK ==
  /\ exec \in Execs /\ pc \in Pcs
  /\ visit \in Visits /\ after \in {"between", "ended"}
  /\ shot \in {"-", "other", "clear"} /\ clock \in 0..2 /\ asked \in Nat
ControlOK ==
  /\ flags \subseteq {"stop", "safe", "emergency"}
  /\ ctl \in [Controls -> {"idle", "fast", "cancelling", "noticed",
                           "stopping", "again", "done"}]
  /\ resumes \in Nat
CallsOK == calls \subseteq CallSet

LEMMA TypeParts ==
  ClearTypeOK <=> BridgeOK /\ TailOK /\ ControlOK /\ CallsOK
  BY DEF ClearTypeOK, BridgeOK, TailOK, ControlOK, CallsOK, Execs, CallSet, Pcs

LEMMA TypePartsNext ==
  BridgeOK' /\ TailOK' /\ ControlOK' /\ CallsOK' => ClearTypeOK'
  BY DEF ClearTypeOK, BridgeOK, TailOK, ControlOK, CallsOK, Execs, CallSet, Pcs

LEMMA TypeInit == Init => ClearTypeOK
<1> SUFFICES ASSUME Init PROVE ClearTypeOK
  OBVIOUS
<1>1. NoExec \in Execs
  BY DEF NoExec, Execs, States
<1>2. TailOK
  BY <1>1 DEF Init, TailOK, Pcs, Visits
<1>3. ControlOK
  BY DEF Init, ControlOK
<1>4. BridgeOK /\ CallsOK
  BY DEF Init, BridgeOK, CallsOK
<1> QED BY <1>2, <1>3, <1>4, TypeParts

\* The calls that are asked, settled and moved on have their types.
LEMMA SettleTypes ==
  ASSUME CallsOK, NEW c \in calls, NEW res \in Answers
  PROVE  Settle(c, res) \subseteq CallSet
  BY DEF Settle, CallsOK, CallSet, Steps

LEMMA CallTypes ==
  ASSUME NEW by \in Callers, NEW op \in Ops, NEW at \in Steps
  PROVE  Call(by, op, at) \in CallSet
  BY DEF Call, CallSet, Answers

LEMMA ExecTypes ==
  ASSUME exec \in Execs
  PROVE  /\ \A s \in States : [exec EXCEPT !.state = s] \in Execs
         /\ \A s \in States : [exec EXCEPT !.state = s].state = s
         /\ [exec EXCEPT !.attempted = TRUE] \in Execs
         /\ [exec EXCEPT !.bound = TRUE] \in Execs
         /\ [exec EXCEPT !.attempted = TRUE].state = exec.state
         /\ [exec EXCEPT !.bound = TRUE].state = exec.state
         /\ exec.state \in States
  BY DEF Execs

\* A clear that is given up without a look at its replay.
LEMMA UnseenIs ==
  ASSUME exec \in Execs, NEW so \in BOOLEAN, FailsUnseen(so)
  PROVE  /\ exec' \in Execs /\ exec'.state = "error"
         /\ so => exec'.unseen
         /\ exec'.simulated = exec.simulated /\ exec'.verified = exec.verified
         /\ exec'.attempted = exec.attempted
  BY DEF FailsUnseen, Execs, States

LEMMA ServeTypes ==
  ASSUME ClearTypeOK, NEW by \in Callers, Serve(by)
  PROVE  ClearTypeOK'
<1>1. BridgeOK /\ TailOK /\ ControlOK /\ CallsOK
  BY TypeParts
<1>2. PICK c \in calls : \/ Runs(c) \/ Starts(c) \/ Started(c) \/ Status(c)
                         \/ Stops(c)
  BY DEF Serve, Waits
<1>3. c \in CallSet
  BY <1>1 DEF CallsOK
<1>4. UNCHANGED <<exec, pc, visit, after, shot, clock, asked>> => TailOK'
  BY <1>1 DEF TailOK
<1>5. UNCHANGED <<flags, ctl, resumes>> => ControlOK'
  BY <1>1 DEF ControlOK
<1>6. TailOK' /\ ControlOK'
  BY <1>2, <1>4, <1>5 DEF Runs, Starts, Started, Status, Stops, tail, bridge
<1>7. Refreshed \in {"none", "active", "completed", "failed", "stopped"}
  BY <1>1 DEF Refreshed, BridgeOK
<1>8. BridgeOK' /\ CallsOK'
  <2>1. CASE Runs(c)
    BY <1>1, <1>3, <2>1 DEF Runs, bridge, BridgeOK, CallsOK, CallSet, Steps
  <2>2. CASE Starts(c)
    <3>1. CASE session # "none" /\ session' = Refreshed
               /\ calls' = Settle(c, IF session' = "failed" THEN "failed"
                                                            ELSE "ok")
               /\ UNCHANGED <<alive, exit, fixture>>
      BY <1>1, <1>7, <3>1, SettleTypes DEF BridgeOK, CallsOK, Answers
    <3>2. CASE calls' = Settle(c, "refused") /\ UNCHANGED bridge
      BY <1>1, <3>2, SettleTypes DEF bridge, BridgeOK, CallsOK, Answers
    <3>3. CASE /\ alive' = TRUE /\ UNCHANGED <<session, exit, fixture>>
               /\ calls' = (calls \ {c}) \cup {[c EXCEPT !.at = "run"]}
      BY <1>1, <1>3, <3>3 DEF BridgeOK, CallsOK, CallSet, Steps
    <3> QED BY <2>2, <3>1, <3>2, <3>3 DEF Starts
  <2>3. CASE Started(c)
    <3>1. BridgeOK'
      BY <1>1, <2>3 DEF Started, BridgeOK
    <3>2. PICK res : calls' = Settle(c, res) /\ res \in Answers
      BY <2>3 DEF Started, Answers
    <3> QED BY <1>1, <3>1, <3>2, SettleTypes DEF CallsOK
  <2>4. CASE Status(c)
    <3>1. session' = Refreshed /\ UNCHANGED <<alive, exit, fixture>>
      BY <2>4 DEF Status
    <3>2. PICK res : calls' = Settle(c, res) /\ res \in Answers
      BY <1>7, <2>4, <3>1 DEF Status, Answers
    <3> QED BY <1>1, <1>7, <3>1, <3>2, SettleTypes DEF BridgeOK, CallsOK
  <2>5. CASE Stops(c)
    <3>1. BridgeOK'
      BY <1>1, <2>5 DEF Stops, BridgeOK
    <3>2. PICK res : calls' = Settle(c, res) /\ res \in Answers
      BY <2>5 DEF Stops, Answers
    <3> QED BY <1>1, <3>1, <3>2, SettleTypes DEF CallsOK
  <2> QED BY <1>2, <2>1, <2>2, <2>3, <2>4, <2>5
<1> QED BY <1>6, <1>8, TypePartsNext

LEMMA StopPendingTypes ==
  ASSUME TailOK, CallsOK, NEW to \in {"between", "ended"}, StopPending(to)
  PROVE  /\ exec' \in Execs /\ pc' \in Pcs /\ after' \in {"between", "ended"}
         /\ CallsOK'
<1> USE DEF TailOK, Pcs, Awaits, Ends
<1>1. CASE exec.state = "done"
  BY <1>1 DEF StopPending, CallsOK
<1>2. CASE exec.state # "done" /\ exec' = [exec EXCEPT !.attempted = TRUE]
           /\ Asks("stopOwn") /\ pc' = "stop" /\ after' = to
  <2>1. Call("tail", "stopOwn", "pool") \in CallSet
    BY CallTypes DEF Callers, Ops, Steps
  <2> QED BY <1>2, <2>1, ExecTypes DEF Asks, CallsOK
<1>3. CASE Enters("error") /\ pc' = to /\ UNCHANGED <<calls, after>>
  BY <1>3, ExecTypes DEF Enters, States, CallsOK
<1> QED BY <1>1, <1>2, <1>3 DEF StopPending

LEMMA ExaminesTypes ==
  ASSUME TailOK, CallsOK, Examines
  PROVE  /\ pc' \in Pcs /\ CallsOK' /\ UNCHANGED <<visit, after, shot>>
         /\ exec' \in Execs
<1>1. Call("tail", "status", "pool") \in CallSet
  BY CallTypes DEF Callers, Ops, Steps
<1>2. exec \in Execs /\ exec.simulated \in BOOLEAN
  BY DEF TailOK, Execs
<1>3. exec' \in Execs
  BY <1>2, UnseenIs DEF Examines
<1> QED BY <1>1, <1>3 DEF Examines, Goes, Returns, Asks, CallsOK, Pcs, Awaits

LEMMA TailTypes ==
  ASSUME ClearTypeOK, TailStep
  PROVE  ClearTypeOK'
<1>1. BridgeOK /\ TailOK /\ ControlOK /\ CallsOK
  BY TypeParts
<1>2. BridgeOK' /\ ControlOK'
  <2>1. KeepOutside
    BY DEF TailStep, Requested, EnterManipulation, Decided, StartAnswered,
           EnterVision, Slept, Watched, Captured, Reviewed, ResultReviewed,
           StopAnswered, Between
  <2> QED BY <1>1, <2>1 DEF KeepOutside, bridge, BridgeOK, ControlOK
<1>3. TailOK' /\ CallsOK'
  <2> USE <1>1 DEF Goes, Returns, Leaves, Fails
  <2>e. \A s \in States : [exec EXCEPT !.state = s] \in Execs
    BY ExecTypes DEF TailOK
  <2>s. {"none", "requested", "deciding", "starting", "running", "waiting",
         "done", "error"} = States
    BY DEF States
  <2>p. {"equipment", "manip", "vision", "between", "ended", "cancelled",
         "decide", "start", "sleep", "status", "capture", "review", "result",
         "stop"} = Pcs
    BY DEF Pcs, Awaits, Ends
  <2>k. ASSUME exec' \in Execs, pc' \in Pcs, visit' \in Visits,
               after' \in {"between", "ended"},
               shot' \in {"-", "other", "clear"},
               clock' \in 0..2, asked' \in Nat
        PROVE  TailOK'
    BY <2>k DEF TailOK
  <2>v. "vision" \in Visits /\ visit \in Visits
    BY DEF Visits, TailOK
  <2>c. ASSUME NEW c, calls' = calls \ {c} PROVE CallsOK'
    BY <2>c DEF CallsOK
  <2>1. CASE Requested
    <3>1. exec' \in Execs
      BY <2>1, <2>s DEF Requested, TailOK, Execs
    <3> QED BY <2>1, <2>p, <2>k, <3>1 DEF Requested, TailOK, CallsOK
  <2>2. CASE EnterManipulation
    BY <2>2, <2>e, <2>s, <2>p, <2>k, <2>v
       DEF EnterManipulation, Enters, TailOK, CallsOK
  <2>3. CASE Decided
    <3>1. Call("tail", "start", "pool") \in CallSet
      BY CallTypes DEF Callers, Ops, Steps
    <3>2. [exec EXCEPT !.state = "waiting", !.verified = TRUE] \in Execs
      BY <2>s DEF TailOK, Execs
    <3>3. exec' \in Execs
      BY <2>3, <2>e, <2>s, <3>2 DEF Decided, Enters, TailOK
    <3>4. /\ pc' \in {"between", "start"} /\ visit' \in {"vision", visit}
          /\ UNCHANGED <<after, shot, clock>> /\ asked' \in {asked, asked + 1}
      BY <2>3 DEF Decided
    <3>5. CallsOK'
      BY <2>3, <3>1 DEF Decided, Asks, CallsOK
    <3> QED BY <2>p, <2>k, <2>v, <3>3, <3>4, <3>5 DEF TailOK
  <2>4. CASE StartAnswered
    <3>1. [exec EXCEPT !.state = "running", !.bound = TRUE] \in Execs
      BY <2>s DEF TailOK, Execs
    <3>2. exec' \in Execs
      BY <2>4, <3>1, UnseenIs DEF StartAnswered, TailOK
    <3> QED BY <2>4, <2>p, <2>k, <2>v, <2>c, <3>2 DEF StartAnswered, TailOK
  <2>5. CASE EnterVision
    <3>1. CASE StopPending("between") /\ UNCHANGED <<visit, shot>>
      BY <2>5, <2>k, <3>1, StopPendingTypes DEF EnterVision, TailOK
    <3>2. CASE Examines
      BY <2>5, <2>k, <3>2, ExaminesTypes DEF EnterVision, TailOK
    <3>3. CASE /\ pc' \in {"between", "sleep"}
               /\ UNCHANGED <<visit, after, shot, exec, calls>>
      BY <2>5, <2>k, <2>p, <3>3 DEF EnterVision, TailOK, CallsOK
    <3> QED BY <2>5, <3>1, <3>2, <3>3 DEF EnterVision
  <2>6. CASE Slept
    <3>1. CASE StopPending("between") /\ UNCHANGED <<visit, shot>>
      BY <2>6, <2>k, <3>1, StopPendingTypes DEF Slept, TailOK
    <3>2. CASE Examines
      BY <2>6, <2>k, <3>2, ExaminesTypes DEF Slept, TailOK
    <3> QED BY <2>6, <3>1, <3>2 DEF Slept
  <2>7. CASE Watched
    <3>1. /\ [exec EXCEPT !.bound = TRUE] \in Execs
          /\ [exec EXCEPT !.state = "waiting", !.bound = TRUE,
                          !.verified = TRUE, !.framed = TRUE] \in Execs
      BY <2>s DEF TailOK, Execs
    <3>2. exec' \in Execs
      BY <2>7, <3>1, UnseenIs DEF Watched, TailOK
    <3>3. /\ pc' \in {"between", "capture"} /\ UNCHANGED <<visit, after, shot>>
          /\ clock' \in {clock, 0} /\ asked' = asked
      BY <2>7 DEF Watched
    <3>4. CallsOK'
      BY <2>7, <2>c DEF Watched
    <3> QED BY <2>p, <2>k, <3>2, <3>3, <3>4 DEF TailOK
  <2>8. CASE Captured
    <3>1. CallsOK' /\ clock' = clock /\ asked' = asked
      BY <2>8 DEF Captured, CallsOK
    <3>2. /\ exec' \in Execs /\ pc' \in {"between", "review"}
          /\ shot' \in {"-", "other", "clear"} /\ UNCHANGED <<visit, after>>
      BY <2>8, <2>e, <2>s DEF Captured, Enters, TailOK
    <3> QED BY <2>k, <2>p, <3>1, <3>2 DEF TailOK
  <2>9. CASE Reviewed
    BY <2>9, <2>e, <2>s, <2>p, <2>k DEF Reviewed, Enters, TailOK, CallsOK
  <2>10. CASE ResultReviewed
    BY <2>10, <2>e, <2>s, <2>p, <2>k
       DEF ResultReviewed, Enters, TailOK, CallsOK
  <2>11. CASE StopAnswered
    BY <2>11, <2>e, <2>s, <2>p, <2>k, <2>c DEF StopAnswered, Enters, TailOK
  <2>12. CASE Between
    <3>1. CASE Stopped
      BY <2>12, <2>k, <3>1, StopPendingTypes DEF Between, TailOK
    <3>2. CASE ~Stopped
      <4>1. pc' \in Pcs
        BY <2>12, <2>p, <3>2 DEF Between, TailOK, Visits
      <4> QED BY <2>12, <2>k, <3>2, <4>1 DEF Between, TailOK, CallsOK
    <3> QED BY <3>1, <3>2
  <2> QED BY <2>1, <2>2, <2>3, <2>4, <2>5, <2>6, <2>7, <2>8, <2>9, <2>10,
             <2>11, <2>12 DEF TailStep
<1> QED BY <1>2, <1>3, TypePartsNext

LEMMA CancelsTypes ==
  ASSUME TailOK, NEW left \in SUBSET CallSet, Cancels(left)
  PROVE  /\ exec' \in Execs /\ pc' \in Pcs /\ CallsOK'
         /\ UNCHANGED <<visit, after, shot>>
<1>1. CASE pc \in Ends
  BY <1>1 DEF Cancels, TailOK, CallsOK, tail
<1>2. CASE pc \notin Ends
  <2>1. exec' \in Execs
    BY <1>2, ExecTypes DEF Cancels, TailOK, States
  <2>2. \A d \in left : [d EXCEPT !.by = "nobody"] \in CallSet
    BY DEF CallSet, Callers
  <2>3. calls' \subseteq CallSet
    BY <1>2, <2>2 DEF Cancels
  <2> QED BY <1>2, <2>1, <2>3 DEF Cancels, Goes, CallsOK, Pcs, Ends
<1> QED BY <1>1, <1>2

LEMMA ControlTypes ==
  ASSUME ClearTypeOK,
         \/ \E k \in Controls : Control(k)
         \/ Notices \/ FastAnswered \/ FastCancels \/ Resumes
  PROVE  ClearTypeOK'
<1>1. BridgeOK /\ TailOK /\ ControlOK /\ CallsOK
  BY TypeParts
<1>b. UNCHANGED <<session, alive, exit, fixture>> => BridgeOK'
  BY <1>1 DEF BridgeOK
<1>t. UNCHANGED <<exec, pc, visit, after, shot, clock, asked>> => TailOK'
  BY <1>1 DEF TailOK
<1>2. ASSUME NEW k \in Controls, Press(k) PROVE ClearTypeOK'
  <2>1. Call(k, "stopAll", "pool") \in CallSet
    BY CallTypes DEF Callers, Ops, Steps
  <2>2. Flag(k) \in {"stop", "safe", "emergency"}
    BY ControlsAssumption DEF Flag, Estops
  <2>3. ControlOK' /\ CallsOK'
    BY <1>1, <1>2, <2>1, <2>2 DEF Press, ControlOK, CallsOK
  <2> QED BY <1>2, <1>b, <1>t, <2>3, TypePartsNext DEF Press, tail, bridge
<1>3. ASSUME NEW k \in Controls, Pressed(k) PROVE ClearTypeOK'
  <2>1. ControlOK'
    BY <1>1, <1>3 DEF Pressed, ControlOK
  <2>2. TailOK' /\ CallsOK'
    <3>1. PICK c \in Got(k) :
            IF k \in Estops /\ ctl[k] = "stopping"
              THEN Cancels(calls \ {c})
              ELSE calls' = calls \ {c} /\ UNCHANGED <<exec, tail>>
      BY <1>3 DEF Pressed
    <3>2. clock' = clock /\ asked' = asked
      BY <1>3 DEF Pressed
    <3>3. CASE Cancels(calls \ {c})
      <4>1. calls \ {c} \in SUBSET CallSet
        BY <1>1 DEF CallsOK
      <4> QED BY <1>1, <3>2, <3>3, <4>1, CancelsTypes DEF TailOK
    <3>4. CASE calls' = calls \ {c} /\ UNCHANGED <<exec, tail>>
      BY <1>1, <3>2, <3>4 DEF TailOK, CallsOK, tail
    <3> QED BY <3>1, <3>3, <3>4
  <2> QED BY <1>3, <1>b, <2>1, <2>2, TypePartsNext DEF Pressed, bridge
<1>4. CASE Notices
  <2>1. Call("plc", "stopAll", "queue") \in CallSet
    BY <1>4, CallTypes DEF Notices, Callers, Ops, Steps
  <2>2. ControlOK' /\ CallsOK'
    BY <1>1, <1>4, <2>1 DEF Notices, ControlOK, CallsOK
  <2> QED BY <1>4, <1>b, <1>t, <2>2, TypePartsNext DEF Notices, tail, bridge
<1>5. CASE FastAnswered
  <2>1. ControlOK' /\ CallsOK'
    BY <1>1, <1>5 DEF FastAnswered, ControlOK, CallsOK
  <2> QED BY <1>5, <1>b, <1>t, <2>1, TypePartsNext DEF FastAnswered, tail, bridge
<1>6. CASE FastCancels
  <2>1. ControlOK'
    BY <1>1, <1>6 DEF FastCancels, ControlOK
  <2>2. calls \in SUBSET CallSet
    BY <1>1 DEF CallsOK
  <2>3. TailOK' /\ CallsOK'
    BY <1>1, <1>6, <2>2, CancelsTypes DEF FastCancels, TailOK
  <2> QED BY <1>6, <1>b, <2>1, <2>3, TypePartsNext DEF FastCancels, bridge
<1>7. CASE Resumes
  <2>1. TailOK' /\ ControlOK' /\ CallsOK'
    BY <1>1, <1>7
       DEF Resumes, Goes, TailOK, ControlOK, CallsOK, Pcs, Awaits, Ends
  <2> QED BY <1>7, <1>b, <2>1, TypePartsNext DEF Resumes, bridge
<1> QED BY <1>2, <1>3, <1>4, <1>5, <1>6, <1>7 DEF Control

LEMMA TypeStep == ClearTypeOK /\ [Next]_vars => ClearTypeOK'
<1> SUFFICES ASSUME ClearTypeOK, [Next]_vars PROVE ClearTypeOK'
  OBVIOUS
<1>1. CASE UNCHANGED vars
  BY <1>1 DEF vars, tail, bridge, ClearTypeOK
<1>2. CASE Ticks
  BY <1>2 DEF Ticks, tail, bridge, ClearTypeOK
<1>3. CASE Lifts
  BY <1>3 DEF Lifts, tail, ClearTypeOK
<1>4. CASE Exits
  <2>1. BridgeOK /\ TailOK /\ ControlOK /\ CallsOK
    BY TypeParts
  <2>2. BridgeOK'
    BY <1>4, <2>1 DEF Exits, BridgeOK
  <2>3. TailOK' /\ ControlOK' /\ CallsOK'
    BY <1>4, <2>1 DEF Exits, tail, TailOK, ControlOK, CallsOK
  <2> QED BY <2>2, <2>3, TypePartsNext
<1> QED BY <1>1, <1>2, <1>3, <1>4, TailTypes, ServeTypes, ControlTypes DEF Next

\* Every state has the types of ClearTypeOK.
THEOREM ClearTypes == Spec => []ClearTypeOK
  BY TypeInit, TypeStep, PTL DEF Spec

-----------------------------------------------------------------------------

\* Before the decision nothing was asked for; the decision is taken in the
\* state that EnterManipulation set, and only the tail leaves that state.
AskedInv ==
  /\ asked \in {0, 1}
  /\ exec.state \in {"none", "requested", "deciding"} => asked = 0
  /\ pc = "decide" => exec.state = "deciding"
  /\ pc = "equipment" => exec.state = "none"

\* What a step may do to AskedInv without a closer look: the clear's state
\* stays or is beyond the decision, and the tail is at neither place.
LEMMA Onward ==
  ASSUME AskedInv, asked' = asked, pc' \notin {"decide", "equipment"},
         \/ exec'.state = exec.state
         \/ exec'.state \notin {"none", "requested", "deciding"}
  PROVE  AskedInv'
  BY DEF AskedInv

LEMMA StopPendingState ==
  ASSUME TailOK, NEW to \in {"between", "ended"}, StopPending(to)
  PROVE  /\ exec'.state = exec.state \/ exec'.state = "error"
         /\ pc' \in {"between", "ended", "stop"}
  BY ExecTypes DEF StopPending, Enters, TailOK, States

LEMMA WatchedState ==
  ASSUME exec \in Execs
  PROVE  /\ [exec EXCEPT !.state = "waiting", !.bound = TRUE,
                         !.verified = TRUE, !.framed = TRUE].state = "waiting"
         /\ [exec EXCEPT !.state = "running", !.bound = TRUE].state = "running"
         /\ [exec EXCEPT !.bound = TRUE].state = exec.state
  BY DEF Execs

LEMMA CancelsState ==
  ASSUME TailOK, NEW left, Cancels(left)
  PROVE  /\ exec'.state = exec.state \/ exec'.state = "error"
         /\ pc' \in Ends
  BY ExecTypes DEF Cancels, Goes, TailOK, States, Ends, tail

LEMMA TailAsksOnce ==
  ASSUME ClearTypeOK, AskedInv, TailStep
  PROVE  AskedInv'
<1>1. TailOK
  BY TypeParts
<1>e. \A s \in States : [exec EXCEPT !.state = s].state = s
  BY <1>1, ExecTypes DEF TailOK
<1>x. exec \in Execs
  BY <1>1 DEF TailOK
<1> USE DEF Goes, Returns, Leaves, Fails, Enters, States
<1>2. CASE Requested
  <2>1. asked = 0
    BY <1>2 DEF Requested, AskedInv
  <2> QED BY <1>2, <2>1 DEF Requested, AskedInv
<1>3. CASE EnterManipulation
  <2>1. CASE pc' = "vision" \/ pc' = "between"
    BY <1>3, <1>e, <2>1, Onward DEF EnterManipulation
  <2>2. CASE ~(pc' = "vision" \/ pc' = "between")
    <3>1. /\ exec.state = "requested" /\ exec'.state = "deciding"
          /\ pc' = "decide" /\ asked' = asked
      BY <1>3, <1>e, <2>2 DEF EnterManipulation
    <3> QED BY <3>1 DEF AskedInv
  <2> QED BY <2>1, <2>2
<1>4. CASE Decided
  <2>1. asked = 0 /\ asked' \in {asked, asked + 1}
    BY <1>4 DEF Decided, AskedInv
  <2>2. exec'.state \in {"error", "waiting", "starting"}
    BY <1>4, <1>e, <1>x DEF Decided, Execs
  <2>3. pc' \in {"between", "start"}
    BY <1>4 DEF Decided
  <2> QED BY <2>1, <2>2, <2>3 DEF AskedInv
<1>5. CASE StartAnswered
  <2>1. exec'.state \in {"running", "error"} /\ pc' = "between"
    BY <1>5, <1>x, WatchedState, UnseenIs DEF StartAnswered
  <2> QED BY <1>5, <2>1, Onward DEF StartAnswered
<1>6. CASE EnterVision \/ Slept
  <2>1. CASE StopPending("between")
    BY <1>1, <1>6, <2>1, StopPendingState, Onward DEF EnterVision, Slept
  <2>2. CASE exec' = exec /\ ~StopPending("between")
    <3>1. pc' \in {"between", "result", "status", "sleep"}
      BY <1>6, <2>2 DEF EnterVision, Slept, Examines
    <3> QED BY <1>6, <2>2, <3>1, Onward DEF EnterVision, Slept
  <2>3. CASE FailsUnseen(~exec.simulated) /\ Returns
    <3>1. exec'.state = "error" /\ pc' = "between"
      BY <1>x, <2>3, UnseenIs DEF Execs
    <3> QED BY <1>6, <3>1, Onward DEF EnterVision, Slept
  <2> QED BY <1>6, <2>1, <2>2, <2>3 DEF EnterVision, Slept, Examines
<1>7. CASE Watched
  <2>1. /\ exec'.state = exec.state \/ exec'.state \in {"waiting", "error"}
        /\ pc' \in {"between", "capture"}
    BY <1>7, <1>x, WatchedState, UnseenIs DEF Watched
  <2> QED BY <1>7, <2>1, Onward DEF Watched
<1>8. CASE Captured \/ Reviewed \/ ResultReviewed
  <2>1. exec'.state \in {exec.state, "error", "done"}
    BY <1>8, <1>e DEF Captured, Reviewed, ResultReviewed
  <2>2. pc' \in {"between", "review", "result"} /\ asked' = asked
    BY <1>8 DEF Captured, Reviewed, ResultReviewed
  <2> QED BY <2>1, <2>2, Onward
<1>9. CASE StopAnswered
  <2>1. exec'.state = "error" /\ pc' \in {"between", "ended"}
    BY <1>1, <1>9, <1>e DEF StopAnswered, TailOK
  <2> QED BY <1>9, <2>1, Onward DEF StopAnswered
<1>10. CASE Between
  <2>1. CASE Stopped
    BY <1>1, <1>10, <2>1, StopPendingState, Onward DEF Between
  <2>2. CASE ~Stopped
    <3>1. pc' \in {"ended", "manip", "vision"}
      BY <1>1, <1>10, <2>2 DEF Between, TailOK, Visits
    <3> QED BY <1>10, <2>2, <3>1, Onward DEF Between
  <2> QED BY <2>1, <2>2
<1> QED BY <1>2, <1>3, <1>4, <1>5, <1>6, <1>7, <1>8, <1>9, <1>10 DEF TailStep

LEMMA AskedStep ==
  ClearTypeOK /\ AskedInv /\ [Next]_vars => AskedInv'
<1> SUFFICES ASSUME ClearTypeOK, AskedInv, [Next]_vars PROVE AskedInv'
  OBVIOUS
<1>t. TailOK
  BY TypeParts
<1>q. ASSUME UNCHANGED <<exec, pc, asked>> PROVE AskedInv'
  BY <1>q DEF AskedInv
<1>c. ASSUME NEW left, Cancels(left), asked' = asked PROVE AskedInv'
  BY <1>c, <1>t, CancelsState, Onward DEF Ends
<1>1. CASE UNCHANGED vars
  BY <1>1, <1>q DEF vars, tail
<1>2. CASE Ticks \/ Lifts \/ Exits
  BY <1>2, <1>q DEF Ticks, Lifts, Exits, tail
<1>3. ASSUME NEW by \in Callers, Serve(by) PROVE AskedInv'
  BY <1>3, <1>q DEF Serve, Runs, Starts, Started, Status, Stops, tail
<1>4. ASSUME NEW k \in Controls, Control(k) PROVE AskedInv'
  <2>1. CASE Press(k)
    BY <1>q, <2>1 DEF Press, tail
  <2>2. CASE Pressed(k)
    BY <1>c, <1>q, <2>2 DEF Pressed, tail
  <2> QED BY <1>4, <2>1, <2>2 DEF Control
<1>5. CASE Notices \/ FastAnswered
  BY <1>5, <1>q DEF Notices, FastAnswered, tail
<1>6. CASE FastCancels
  BY <1>6, <1>c DEF FastCancels
<1>7. CASE Resumes
  BY <1>7 DEF Resumes, Goes, AskedInv
<1> QED BY <1>1, <1>2, <1>3, <1>4, <1>5, <1>6, <1>7, TailAsksOnce DEF Next

\* In one scope the sweep is asked for at most once, over every interruption,
\* cancellation and resume.
THEOREM SweepIsAskedOnce == Spec => []StartedOnce
<1>1. Init => AskedInv
  BY DEF Init, NoExec, AskedInv
<1>2. AskedInv => StartedOnce
  BY DEF AskedInv, StartedOnce
<1> QED BY <1>1, <1>2, AskedStep, ClearTypes, PTL DEF Spec

\* Under a stop flag no step asks for the sweep or makes the clear done.
THEOREM StopsWin == Spec => StopWins
<1>1. ASSUME ClearTypeOK, [Next]_vars, flags # {}
      PROVE  asked' = asked /\ (exec'.state = "done" => exec.state = "done")
  <2>t. TailOK
    BY <1>1, TypeParts
  <2>e. \A s \in States : [exec EXCEPT !.state = s].state = s
    BY <2>t, ExecTypes DEF TailOK
  <2>x. exec \in Execs
    BY <2>t DEF TailOK
  <2>s. Stopped
    BY <1>1 DEF Stopped
  <2> USE DEF Goes, Returns, Leaves, Fails, Enters, States
  <2>1. CASE TailStep
    <3>1. CASE Requested
      BY <3>1 DEF Requested
    <3>2. CASE EnterManipulation \/ Decided
      BY <2>e, <2>s, <3>2 DEF EnterManipulation, Decided
    <3>3. CASE EnterVision \/ Slept \/ Between
      BY <2>s, <2>t, <3>3, StopPendingState DEF EnterVision, Slept, Between
    <3>4. CASE StartAnswered \/ Watched
      BY <2>e, <2>x, <3>4, WatchedState, UnseenIs DEF StartAnswered, Watched
    <3>5. CASE Captured \/ Reviewed
      BY <2>e, <3>5 DEF Captured, Reviewed
    <3>6. CASE ResultReviewed \/ StopAnswered
      BY <2>e, <2>s, <3>6 DEF ResultReviewed, StopAnswered
    <3> QED BY <2>1, <3>1, <3>2, <3>3, <3>4, <3>5, <3>6 DEF TailStep
  <2>2. CASE UNCHANGED vars \/ Ticks \/ Lifts \/ Exits
    BY <2>2 DEF vars, tail, Ticks, Lifts, Exits
  <2>3. ASSUME NEW by \in Callers, Serve(by)
        PROVE  exec' = exec /\ asked' = asked
    BY <2>3 DEF Serve, Runs, Starts, Started, Status, Stops
  <2>4. ASSUME NEW k \in Controls, Control(k)
        PROVE  /\ asked' = asked
               /\ exec'.state = exec.state \/ exec'.state = "error"
    BY <2>t, <2>4, CancelsState DEF Control, Press, Pressed
  <2>5. CASE Notices \/ FastAnswered \/ FastCancels \/ Resumes
    BY <2>t, <2>5, CancelsState
       DEF Notices, FastAnswered, FastCancels, Resumes
  <2> QED BY <1>1, <2>1, <2>2, <2>3, <2>4, <2>5 DEF Next
<1>2. ClearTypeOK /\ [Next]_vars
        => [flags # {} => asked' = asked /\ (exec'.state = "done"
                                               => exec.state = "done")]_vars
  BY <1>1
<1> QED BY <1>2, ClearTypes, PTL DEF Spec, StopWins

-----------------------------------------------------------------------------
(* A clear that is done.                                                    *)

\* The session is known to be over.
Over == {"completed", "failed", "stopped"}

\* A session that is over left the arm at rest; what a call reported and a capture
\* showed stays true.
Told ==
  /\ session \in Over => ~alive
  /\ \A c \in calls : c.res = "completed" => session \in Over
  /\ shot = "clear" => fixture = "empty"

\* A clear that is not simulated is examined when its session is over, and its result
\* reviewed when the machine was seen empty.
Examined ==
  /\ pc \in {"capture", "review", "result"} /\ ~exec.simulated => session \in Over
  /\ pc = "result" /\ ~exec.simulated => fixture = "empty"
  /\ exec.state = "done" /\ ~exec.simulated
       => fixture = "empty" /\ session \in Over

DoneInv == ClearTypeOK /\ Told /\ Examined

LEMMA DoneInit == Init => DoneInv
  BY TypeInit DEF Init, NoExec, DoneInv, Told, Examined, Over

\* The calls there are after one was settled.
LEMMA SettleIs ==
  ASSUME CallsOK, NEW c \in calls, NEW res \in Answers, NEW d \in Settle(c, res)
  PROVE  \/ d \in calls /\ d # c
         \/ /\ c.by # "nobody" /\ d.by = c.by /\ d.op = c.op
            /\ d.at = "answered" /\ d.res = res
  BY DEF Settle, CallsOK, CallSet

LEMMA MovedIs ==
  ASSUME CallsOK, NEW c \in calls, NEW s \in Steps
  PROVE  /\ [c EXCEPT !.at = s].by = c.by /\ [c EXCEPT !.at = s].op = c.op
         /\ [c EXCEPT !.at = s].at = s /\ [c EXCEPT !.at = s].res = c.res
  BY DEF CallsOK, CallSet

\* A session that is over stays over; the arm is started for a session nobody knows.
LEMMA ServeKeepsOver ==
  ASSUME ClearTypeOK, Told, NEW by \in Callers, Serve(by)
  PROVE  /\ session \in Over => session' \in Over
         /\ session' \in Over => ~alive'
         /\ \A c \in calls' : c.res = "completed" => session' \in Over
<1>1. BridgeOK /\ CallsOK
  BY TypeParts
<1>2. PICK c \in calls : Runs(c) \/ Starts(c) \/ Started(c) \/ Status(c) \/ Stops(c)
  BY DEF Serve, Waits
<1> USE <1>1 DEF Told, Over, BridgeOK, bridge, tail, Steps, Answers
<1>3. CASE Runs(c)
  <2>1. [c EXCEPT !.at = "queue"].res = c.res
    BY MovedIs
  <2>2. UNCHANGED <<session, alive>> /\ calls' = (calls \ {c}) \cup {[c EXCEPT !.at = "queue"]}
    BY <1>3 DEF Runs
  <2> QED BY <2>1, <2>2
<1>4. CASE Starts(c)
  <2>1. /\ session \in Over => session' \in Over
        /\ session' \in Over => ~alive'
    BY <1>4 DEF Starts, Refreshed
  <2>2. \/ calls' = Settle(c, "ok") \/ calls' = Settle(c, "failed")
        \/ calls' = Settle(c, "refused")
        \/ calls' = (calls \ {c}) \cup {[c EXCEPT !.at = "run"]}
    BY <1>4 DEF Starts
  <2>3. [c EXCEPT !.at = "run"].res = c.res
    BY MovedIs
  <2>4. \A res \in {"ok", "failed", "refused"} :
          calls' = Settle(c, res) => \A d \in calls' : d.res = "completed" => d \in calls
    BY SettleIs
  <2>5. \A d \in calls' : d.res = "completed" => \E e \in calls : e.res = "completed"
    BY <2>2, <2>3, <2>4
  <2> QED BY <2>1, <2>5
<1>5. CASE Started(c)
  <2>1. /\ session \in Over => session' \in Over
        /\ session' \in Over => ~alive'
    BY <1>5 DEF Started
  <2>2. \E res \in {"ok", "failed", "raised"} : calls' = Settle(c, res)
    BY <1>5 DEF Started
  <2>3. \A d \in calls' : d.res = "completed" => \E e \in calls : e.res = "completed"
    BY <2>2, SettleIs
  <2> QED BY <2>1, <2>3
<1>6. CASE Status(c)
  <2>1. /\ session \in Over => session' \in Over
        /\ session' \in Over => ~alive'
    BY <1>6 DEF Status, Refreshed
  <2>2. \/ calls' = Settle(c, "missing") \/ calls' = Settle(c, "unverified")
        \/ calls' = Settle(c, session') \/ calls' = Settle(c, "raised")
    BY <1>6 DEF Status
  <2>3. session' \in Answers \cup {"none"}
    BY <1>6 DEF Status, Refreshed
  <2>4. session' = "none" => calls' = Settle(c, "missing") \/ calls' = Settle(c, "raised")
    BY <1>6 DEF Status
  <2>5. \A d \in calls' : d.res = "completed" =>
          session' = "completed" \/ \E e \in calls : e.res = "completed"
    BY <2>2, <2>3, <2>4, SettleIs
  <2> QED BY <2>1, <2>5
<1>7. CASE Stops(c)
  <2>1. /\ session \in Over => session' \in Over
        /\ session' \in Over => ~alive'
    BY <1>7 DEF Stops
  <2>2. calls' = Settle(c, "missing") \/ calls' = Settle(c, "stopped")
    BY <1>7 DEF Stops
  <2>3. \A d \in calls' : d.res = "completed" => \E e \in calls : e.res = "completed"
    BY <2>2, SettleIs
  <2> QED BY <2>1, <2>3
<1> QED BY <1>2, <1>3, <1>4, <1>5, <1>6, <1>7

LEMMA ServeDone ==
  ASSUME DoneInv, NEW by \in Callers, Serve(by)
  PROVE  Told' /\ Examined'
<1>1. UNCHANGED <<exec, tail, fixture>>
  BY DEF Serve, Runs, Starts, Started, Status, Stops, bridge
<1> QED BY <1>1, ServeKeepsOver DEF DoneInv, Told, Examined, tail

\* What a tail's step leaves alone or may say.
LEMMA Stays ==
  ASSUME Told, Examined, UNCHANGED <<session, alive, fixture>>,
         \A c \in calls' : c.res = "completed" => c \in calls,
         shot' = shot,
         pc' \notin {"capture", "review", "result"},
         \/ exec'.state # "done"
         \/ exec'.state = exec.state /\ exec'.simulated = exec.simulated
  PROVE  Told' /\ Examined'
  BY DEF Told, Examined

LEMMA Simulates ==
  ASSUME exec \in Execs
  PROVE  /\ \A s \in States : [exec EXCEPT !.state = s].simulated = exec.simulated
         /\ [exec EXCEPT !.attempted = TRUE].simulated = exec.simulated
         /\ [exec EXCEPT !.bound = TRUE].simulated = exec.simulated
         /\ [exec EXCEPT !.state = "waiting", !.bound = TRUE, !.verified = TRUE,
                         !.framed = TRUE].simulated = exec.simulated
  BY DEF Execs

\* What the tail asks has no answer yet.
LEMMA AsksCalls ==
  ASSUME NEW op, Asks(op)
  PROVE  \A c \in calls' : c.res = "completed" => c \in calls
  BY DEF Asks, Call

LEMMA StopPendingDone ==
  ASSUME ClearTypeOK, Told, Examined, NEW to \in {"between", "ended"}, StopPending(to),
         UNCHANGED <<session, alive, fixture, shot>>
  PROVE  Told' /\ Examined'
<1>1. exec \in Execs
  BY TypeParts DEF TailOK
<1>2. /\ pc' \in {"between", "ended", "stop"}
      /\ \A c \in calls' : c.res = "completed" => c \in calls
  BY AsksCalls DEF StopPending
<1>3. \/ exec'.state # "done"
      \/ exec'.state = exec.state /\ exec'.simulated = exec.simulated
  BY <1>1, ExecTypes, Simulates DEF StopPending, Enters, States
<1> QED BY <1>2, <1>3, Stays

LEMMA TailDone ==
  ASSUME DoneInv, TailStep
  PROVE  Told' /\ Examined'
<1>1. TailOK /\ exec \in Execs /\ ClearTypeOK /\ Told /\ Examined
  BY TypeParts DEF DoneInv, TailOK
<1>e. \A s \in States : /\ [exec EXCEPT !.state = s].state = s
                        /\ [exec EXCEPT !.state = s].simulated = exec.simulated
  BY <1>1, ExecTypes, Simulates
<1>o. UNCHANGED <<session, alive, fixture>>
  BY DEF TailStep, Requested, EnterManipulation, Decided, StartAnswered, EnterVision, Slept,
         Watched, Captured, Reviewed, ResultReviewed, StopAnswered, Between, KeepOutside,
         bridge
<1> USE DEF Goes, Returns, Leaves, Fails, Enters, States
<1>2. CASE Requested
  <2>1. exec'.state # "done" /\ pc' = "between" /\ UNCHANGED <<shot, calls>>
    BY <1>1, <1>2 DEF Requested, Execs
  <2> QED BY <1>1, <1>o, <2>1, Stays
<1>3. CASE EnterManipulation
  BY <1>1, <1>e, <1>o, <1>3, Stays DEF EnterManipulation
<1>4. CASE Decided
  <2>1. exec'.state # "done" /\ pc' \in {"vision", "between", "start"} /\ shot' = shot
    BY <1>1, <1>e, <1>4 DEF Decided, Execs
  <2>2. \A c \in calls' : c.res = "completed" => c \in calls
    BY <1>4, AsksCalls DEF Decided
  <2> QED BY <1>1, <1>o, <2>1, <2>2, Stays
<1>5. CASE StartAnswered
  <2>1. exec'.state # "done" /\ pc' = "between" /\ shot' = shot
    BY <1>1, <1>5, WatchedState, UnseenIs DEF StartAnswered
  <2>2. \A c \in calls' : c.res = "completed" => c \in calls
    BY <1>5 DEF StartAnswered
  <2> QED BY <1>1, <1>o, <2>1, <2>2, Stays
<1>6. CASE EnterVision \/ Slept \/ Between
  <2>1. CASE (StopPending("between") \/ StopPending("ended")) /\ shot' = shot
    BY <1>1, <1>o, <2>1, StopPendingDone
  <2>2. CASE /\ UNCHANGED <<exec, shot>>
             /\ pc' \notin {"capture", "review", "result"}
             /\ \A c \in calls' : c.res = "completed" => c \in calls
    BY <1>1, <1>o, <2>2, Stays
  <2>3. CASE /\ UNCHANGED <<exec, shot, calls>> /\ exec.simulated
    BY <1>1, <1>o, <2>3 DEF Told, Examined
  <2>4. Asks("status") => \A c \in calls' : c.res = "completed" => c \in calls
    BY AsksCalls
  <2>5. visit \in Visits
    BY <1>1 DEF TailOK
  <2>6. CASE /\ FailsUnseen(~exec.simulated) /\ pc' = "between" /\ UNCHANGED <<shot, calls>>
    <3>1. exec'.state = "error"
      BY <1>1, <2>6, UnseenIs DEF Execs
    <3> QED BY <1>1, <1>o, <2>6, <3>1, Stays
  <2> QED BY <1>6, <2>1, <2>2, <2>3, <2>4, <2>5, <2>6
          DEF EnterVision, Slept, Between, Examines, Visits
<1>7. CASE Watched
  <2>1. PICK c \in Got("tail") :
          /\ calls' = calls \ {c}
          /\ CASE c.res = "active" ->
                    exec' = [exec EXCEPT !.bound = TRUE] /\ Returns
                    /\ UNCHANGED clock
               [] c.res = "completed" ->
                    /\ exec' = [exec EXCEPT !.state = "waiting", !.bound = TRUE,
                                            !.verified = TRUE, !.framed = TRUE]
                    /\ clock' = IF exec.framed THEN clock ELSE 0
                    /\ Goes("capture")
               [] OTHER -> FailsUnseen(c.res = "raised") /\ Returns /\ UNCHANGED clock
    BY <1>7 DEF Watched
  <2>2. CASE c.res = "completed"
    <3>1. session \in Over
      BY <1>1, <2>1, <2>2 DEF Told, Got
    <3>2. /\ exec'.state = "waiting" /\ pc' = "capture" /\ shot' = shot
          /\ calls' \subseteq calls
      BY <1>1, <2>1, <2>2, WatchedState
    <3> QED BY <1>1, <1>o, <3>1, <3>2 DEF Told, Examined
  <2>3. CASE c.res # "completed"
    <3>1. /\ pc' = "between" /\ shot' = shot /\ calls' \subseteq calls
          /\ \/ exec'.state = "error"
             \/ exec'.state = exec.state /\ exec'.simulated = exec.simulated
      <4>1. CASE c.res = "active"
        BY <1>1, <2>1, <4>1, WatchedState, Simulates
      <4>2. CASE c.res # "active"
        BY <1>1, <2>1, <2>3, <4>2, UnseenIs
      <4> QED BY <4>1, <4>2
    <3> QED BY <1>1, <1>o, <3>1, Stays
  <2> QED BY <2>2, <2>3
<1>8. CASE Captured
  <2>1. CASE pc' = "between"
    BY <1>1, <1>e, <1>o, <1>8, <2>1, Stays DEF Captured
  <2>2. CASE pc' # "between"
    <3>1. /\ pc = "capture" /\ pc' = "review" /\ UNCHANGED <<exec, calls>>
          /\ shot' = "clear" => fixture = "empty"
      BY <1>8, <2>2 DEF Captured
    <3> QED BY <1>1, <1>o, <3>1 DEF Told, Examined
  <2> QED BY <2>1, <2>2
<1>9. CASE Reviewed
  <2>1. CASE pc' = "between"
    BY <1>1, <1>e, <1>o, <1>9, <2>1, Stays DEF Reviewed
  <2>2. CASE pc' # "between"
    <3>1. /\ pc = "review" /\ pc' = "result" /\ shot = "clear"
          /\ UNCHANGED <<exec, calls, shot>>
      BY <1>9, <2>2 DEF Reviewed
    <3> QED BY <1>1, <1>o, <3>1 DEF Told, Examined
  <2> QED BY <2>1, <2>2
<1>10. CASE ResultReviewed
  <2>1. /\ pc = "result" /\ pc' = "between" /\ UNCHANGED <<calls, shot>>
        /\ exec'.simulated = exec.simulated
    BY <1>e, <1>10 DEF ResultReviewed
  <2> QED BY <1>1, <1>o, <2>1 DEF Told, Examined
<1>11. CASE StopAnswered
  <2>1. exec'.state = "error" /\ pc' \in {"between", "ended"} /\ shot' = shot
    BY <1>1, <1>e, <1>11 DEF StopAnswered, TailOK
  <2>2. calls' \subseteq calls
    BY <1>11 DEF StopAnswered
  <2> QED BY <1>1, <1>o, <2>1, <2>2, Stays
<1> QED BY <1>2, <1>3, <1>4, <1>5, <1>6, <1>7, <1>8, <1>9, <1>10, <1>11 DEF TailStep

\* What a cancelled task leaves.
LEMMA CancelsCalls ==
  ASSUME NEW left, Cancels(left)
  PROVE  \A c \in calls' :
           \/ c \in left /\ (pc \in Ends \/ c.by # "tail")
           \/ \E d \in left : /\ c = [d EXCEPT !.by = "nobody"]
                             /\ d.by = "tail" /\ d.at \in {"queue", "run"}
<1>1. CASE pc \in Ends
  BY <1>1 DEF Cancels
<1>2. CASE pc \notin Ends
  <2>1. calls' = {d \in left : d.by # "tail"} \cup
          {[d EXCEPT !.by = "nobody"] :
             d \in {e \in left : e.by = "tail" /\ e.at \in {"queue", "run"}}}
    BY <1>2 DEF Cancels
  <2> QED BY <2>1
<1> QED BY <1>1, <1>2

LEMMA CancelsDone ==
  ASSUME ClearTypeOK, Told, Examined, NEW left \in SUBSET calls, Cancels(left),
         UNCHANGED <<session, alive, fixture>>
  PROVE  Told' /\ Examined'
<1>1. TailOK /\ CallsOK /\ exec \in Execs
  BY TypeParts DEF TailOK
<1>2. \A c \in left : [c EXCEPT !.by = "nobody"].res = c.res
  BY <1>1 DEF CallsOK, CallSet
<1>3. \A c \in calls' : c.res = "completed" => \E d \in calls : d.res = "completed"
  <2>1. ASSUME NEW c \in calls', c.res = "completed"
        PROVE  \E d \in calls : d.res = "completed"
    <3>1. CASE c \in left
      BY <2>1, <3>1
    <3>2. CASE c \notin left
      <4>1. PICK d \in left : c = [d EXCEPT !.by = "nobody"]
        BY <3>2, CancelsCalls
      <4> QED BY <1>2, <2>1, <4>1
    <3> QED BY <3>1, <3>2
  <2> QED BY <2>1
<1>4. shot' = shot
  BY DEF Cancels, Goes, tail
<1>5. CASE pc \in Ends
  BY <1>3, <1>4, <1>5 DEF Cancels, tail, Told, Examined
<1>6. CASE pc \notin Ends
  <2>1. \/ exec'.state # "done"
        \/ exec'.state = exec.state /\ exec'.simulated = exec.simulated
    BY <1>1, <1>6, ExecTypes DEF Cancels, States
  <2>2. pc' = "cancelled"
    BY <1>6 DEF Cancels, Goes
  <2> QED BY <1>3, <1>4, <2>1, <2>2 DEF Told, Examined
<1> QED BY <1>5, <1>6

LEMMA DoneStep == DoneInv /\ [Next]_vars => DoneInv'
<1> SUFFICES ASSUME DoneInv, [Next]_vars PROVE Told' /\ Examined'
  BY TypeStep DEF DoneInv
<1> USE DEF DoneInv
<1>1. CASE UNCHANGED vars
  BY <1>1 DEF vars, tail, bridge, Told, Examined
<1>2. CASE Ticks \/ Lifts \/ Exits
  BY <1>2 DEF Ticks, Lifts, Exits, tail, bridge, Told, Examined
<1>3. ASSUME NEW k \in Controls, Control(k) PROVE Told' /\ Examined'
  <2>1. CASE Press(k)
    BY <2>1 DEF Press, Call, tail, bridge, Told, Examined
  <2>2. CASE Pressed(k)
    <3>1. PICK c \in Got(k) :
            IF k \in Estops /\ ctl[k] = "stopping"
              THEN Cancels(calls \ {c})
              ELSE calls' = calls \ {c} /\ UNCHANGED <<exec, tail>>
      BY <2>2 DEF Pressed
    <3>2. UNCHANGED <<session, alive, fixture>>
      BY <2>2 DEF Pressed, bridge
    <3>3. CASE Cancels(calls \ {c})
      BY <3>2, <3>3, CancelsDone
    <3>4. CASE calls' = calls \ {c} /\ UNCHANGED <<exec, tail>>
      BY <3>2, <3>4 DEF tail, Told, Examined
    <3> QED BY <3>1, <3>3, <3>4
  <2> QED BY <1>3, <2>1, <2>2 DEF Control
<1>4. CASE Notices \/ FastAnswered
  BY <1>4 DEF Notices, FastAnswered, Call, tail, bridge, Told, Examined
<1>5. CASE FastCancels
  BY <1>5, CancelsDone DEF FastCancels, bridge
<1>6. CASE Resumes
  BY <1>6 DEF Resumes, Goes, bridge, Told, Examined
<1> QED BY <1>1, <1>2, <1>3, <1>4, <1>5, <1>6, TailDone, ServeDone DEF Next

LEMMA DoneAlways == Spec => []DoneInv
  BY DoneInit, DoneStep, PTL DEF Spec

\* A clear that is reported done left the machine empty and the arm at rest, over every
\* stop, cancellation and resume: its session was over before anything was captured, and
\* what the capture showed cannot be undone (run_clear_vision).
THEOREM DoneLeavesClear == Spec => []DoneIsClear
<1>1. DoneInv => DoneIsClear
  BY DEF DoneInv, Told, Examined, DoneIsClear
<1> QED BY <1>1, DoneAlways, PTL

-----------------------------------------------------------------------------
(* The arm moves under a clear that watches it.                             *)

\* Where the tail is decides how far the clear is.
Seats ==
  /\ pc = "manip" \/ (pc = "between" /\ visit = "manip")
       => exec.state \in {"requested", "error"}
  /\ pc \in {"vision", "sleep", "status", "capture", "review", "result"}
       => visit = "vision"
  /\ pc = "start" => exec.state = "starting"
  /\ exec.state = "starting" => pc \in {"start", "cancelled"}
  /\ pc \in {"sleep", "status", "stop"} => exec.state \in {"running", "waiting"}
  /\ pc \in {"capture", "review", "result"} => exec.state = "waiting"
  /\ pc \in {"status", "stop"} => ~exec.simulated

\* What the record says of the replay.
Marks ==
  /\ exec.attempted => pc \in {"stop", "cancelled"} \/ exec.state = "error"
  /\ exec.verified => exec.state \in {"waiting", "done", "error"}
  /\ exec.simulated => exec.state \notin {"starting", "running"}
  /\ exec.state = "running" => session # "none"
  /\ exec.state = "waiting" /\ ~exec.simulated => session \in Over

\* The tail waits for one call; an answer that ends the clear comes after the session.
Awaited == {<<"start", "start">>, <<"status", "status">>, <<"stopOwn", "stop">>}
OwnCalls ==
  /\ \A c \in Waits("tail") : <<c.op, pc>> \in Awaited
  /\ \A c, d \in Waits("tail") : c = d
  /\ \A c \in Got("tail") :
       c.op = "stopOwn" \/ (c.op = "status" /\ c.res \notin {"active", "raised"})
         => session \in Over

\* There is one start; the arm moves in it or for a session that is known.
StartCalls == {c \in calls : c.op = "start"}
OneStart ==
  /\ StartCalls # {} => exec.state = "starting"
  /\ \A c, d \in StartCalls : c = d
  /\ \A c \in StartCalls : c.at = "answered" =>
       IF c.res = "ok" THEN session # "none" ELSE c.res = "raised" \/ ~alive
  /\ alive /\ session = "none" => \E c \in StartCalls : c.at = "run"

Moves == alive => exec.state \in {"starting", "running"}

SupervisedInv == Seats /\ Marks /\ OwnCalls /\ OneStart /\ Moves

LEMMA SupervisedInit == Init => SupervisedInv
  BY DEF Init, NoExec, SupervisedInv, Seats, Marks, OwnCalls, OneStart, Moves, Waits, Got,
         StartCalls

-----------------------------------------------------------------------------
\* The calls after c was settled or moved on to n.
LEMMA SettledTo ==
  ASSUME CallsOK, NEW c \in calls, NEW res \in Answers, calls' = Settle(c, res)
  PROVE  \E n : /\ n.by = c.by /\ n.op = c.op /\ n.at = "answered" /\ n.res = res
                /\ \A d \in calls' : (d \in calls /\ d # c) \/ d = n
                /\ \A d \in calls \ {c} : d \in calls'
<1> DEFINE n == [c EXCEPT !.at = "answered", !.res = res]
<1>1. n.by = c.by /\ n.op = c.op /\ n.at = "answered" /\ n.res = res
  BY DEF CallsOK, CallSet
<1>2. /\ \A d \in calls' : (d \in calls /\ d # c) \/ d = n
      /\ \A d \in calls \ {c} : d \in calls'
  BY DEF Settle
<1> HIDE DEF n
<1> QED BY <1>1, <1>2

LEMMA MovedTo ==
  ASSUME CallsOK, NEW c \in calls, NEW s \in Steps,
         calls' = (calls \ {c}) \cup {[c EXCEPT !.at = s]}
  PROVE  \E n \in calls' :
           /\ n.by = c.by /\ n.op = c.op /\ n.at = s /\ n.res = c.res
           /\ \A d \in calls' : (d \in calls /\ d # c) \/ d = n
           /\ \A d \in calls \ {c} : d \in calls'
<1> DEFINE n == [c EXCEPT !.at = s]
<1>1. n.by = c.by /\ n.op = c.op /\ n.at = s /\ n.res = c.res
  BY MovedIs
<1>2. /\ \A d \in calls' : (d \in calls /\ d # c) \/ d = n
      /\ \A d \in calls \ {c} : d \in calls'
      /\ n \in calls'
  OBVIOUS
<1> HIDE DEF n
<1> QED BY <1>1, <1>2

\* Serving a call keeps what is said of all calls, if it is true of the call served.
LEMMA ServedCalls ==
  ASSUME SupervisedInv, UNCHANGED <<exec, pc>>, NEW c \in calls, NEW n,
         n.by = c.by, n.op = c.op,
         \A d \in calls' : (d \in calls /\ d # c) \/ d = n,
         session \in Over => session' \in Over,
         session # "none" => session' # "none",
         n.at = "answered" /\ c.by = "tail"
           /\ (c.op = "stopOwn" \/ (c.op = "status" /\ n.res \notin {"active", "raised"}))
           => session' \in Over,
         n.at = "answered" /\ c.op = "start"
           => IF n.res = "ok" THEN session' # "none" ELSE n.res = "raised" \/ ~alive',
         alive' => alive \/ c.op = "start",
         alive' /\ session' = "none" => \E d \in StartCalls' : d.at = "run"
  PROVE  OwnCalls' /\ OneStart'
<1> USE DEF SupervisedInv, OwnCalls, OneStart, Waits, Got, StartCalls
<1>1. OwnCalls'
  OBVIOUS
<1>2. /\ StartCalls' # {} => exec'.state = "starting"
      /\ \A a, b \in StartCalls' : a = b
  OBVIOUS
<1>3. \A d \in StartCalls' : d.at = "answered" =>
        IF d.res = "ok" THEN session' # "none" ELSE d.res = "raised" \/ ~alive'
  OBVIOUS
<1> QED BY <1>1, <1>2, <1>3

\* While no start holds its lock, the arm moves only for a session that is known.
LEMMA FreeIsKnown ==
  ASSUME OneStart, Free, alive
  PROVE  session # "none"
  BY DEF OneStart, Free, StartCalls

LEMMA ServeSupervised ==
  ASSUME ClearTypeOK, Told, SupervisedInv, NEW by \in Callers, Serve(by)
  PROVE  SupervisedInv'
<1>1. BridgeOK /\ CallsOK
  BY TypeParts
<1>2. PICK c \in calls : Runs(c) \/ Starts(c) \/ Started(c) \/ Status(c) \/ Stops(c)
  BY DEF Serve, Waits
<1>3. UNCHANGED <<exec, pc, visit>>
  BY <1>2 DEF Runs, Starts, Started, Status, Stops, tail, bridge
<1>4. /\ session \in Over => session' \in Over
      /\ session' \in Over => ~alive'
  BY ServeKeepsOver
<1>5. session # "none" => session' # "none"
  BY <1>2 DEF Runs, Starts, Started, Status, Stops, Refreshed, bridge
<1>6. Seats' /\ Marks'
  BY <1>3, <1>4, <1>5 DEF SupervisedInv, Seats, Marks
<1>7. c.by = "tail" => <<c.op, pc>> \in Awaited
  BY DEF SupervisedInv, OwnCalls, Waits
<1>8. c.by = "tail" /\ c.op \in {"status", "stopOwn"} => session # "none"
  <2>1. c.by = "tail" /\ c.op \in {"status", "stopOwn"} => pc \in {"status", "stop"}
    BY <1>7 DEF Awaited
  <2> QED BY <2>1 DEF SupervisedInv, Seats, Marks, Over
<1> SUFFICES OwnCalls' /\ OneStart' /\ Moves'
  BY <1>6 DEF SupervisedInv
<1>9. CASE Runs(c)
  <2>1. UNCHANGED <<session, alive>> /\ calls' = (calls \ {c}) \cup {[c EXCEPT !.at = "queue"]}
    BY <1>9 DEF Runs, bridge
  <2>2. PICK n \in calls' :
           /\ n.by = c.by /\ n.op = c.op /\ n.at = "queue" /\ n.res = c.res
           /\ \A d \in calls' : (d \in calls /\ d # c) \/ d = n
           /\ \A d \in calls \ {c} : d \in calls'
    BY <1>1, <2>1, MovedTo DEF Steps
  <2>3. alive' /\ session' = "none" => \E d \in StartCalls' : d.at = "run"
    BY <1>9, <2>1, <2>2 DEF Runs, SupervisedInv, OneStart, StartCalls
  <2>4. OwnCalls' /\ OneStart'
    BY <1>3, <2>1, <2>2, <2>3, ServedCalls
  <2> QED BY <1>3, <2>1, <2>4 DEF SupervisedInv, Moves
<1>10. CASE Starts(c)
  <2>1. CASE session # "none"
    <3>1. /\ session' = Refreshed /\ UNCHANGED alive
          /\ calls' = Settle(c, IF session' = "failed" THEN "failed" ELSE "ok")
      BY <1>10, <2>1 DEF Starts
    <3>2. PICK n : /\ n.by = c.by /\ n.op = c.op /\ n.at = "answered"
                   /\ n.res = IF session' = "failed" THEN "failed" ELSE "ok"
                   /\ \A d \in calls' : (d \in calls /\ d # c) \/ d = n
                   /\ \A d \in calls \ {c} : d \in calls'
      BY <1>1, <3>1, SettledTo DEF Answers
    <3>3. session' # "none" /\ (session' = "failed" => ~alive')
      BY <1>4, <1>5, <2>1 DEF Over
    <3>4. c.op = "start"
      BY <1>10 DEF Starts
    <3>5. OwnCalls' /\ OneStart'
      BY <1>3, <1>4, <1>5, <3>1, <3>2, <3>3, <3>4, ServedCalls
    <3> QED BY <1>3, <3>1, <3>5 DEF SupervisedInv, Moves
  <2>2. CASE session = "none" /\ calls' = Settle(c, "refused") /\ UNCHANGED bridge
    <3>1. PICK n : /\ n.by = c.by /\ n.op = c.op /\ n.at = "answered" /\ n.res = "refused"
                   /\ \A d \in calls' : (d \in calls /\ d # c) \/ d = n
                   /\ \A d \in calls \ {c} : d \in calls'
      BY <1>1, <2>2, SettledTo DEF Answers
    <3>2. ~alive /\ c.op = "start"
      BY <1>10, <2>2, FreeIsKnown DEF Starts, SupervisedInv
    <3>3. UNCHANGED <<session, alive>>
      BY <2>2 DEF bridge
    <3>4. OwnCalls' /\ OneStart'
      BY <1>3, <3>1, <3>2, <3>3, ServedCalls
    <3> QED BY <3>2, <3>3, <3>4 DEF Moves
  <2>3. CASE /\ session = "none" /\ alive' = TRUE /\ UNCHANGED session
             /\ calls' = (calls \ {c}) \cup {[c EXCEPT !.at = "run"]}
    <3>1. PICK n \in calls' :
             /\ n.by = c.by /\ n.op = c.op /\ n.at = "run" /\ n.res = c.res
             /\ \A d \in calls' : (d \in calls /\ d # c) \/ d = n
             /\ \A d \in calls \ {c} : d \in calls'
      BY <1>1, <2>3, MovedTo DEF Steps
    <3>2. c.op = "start"
      BY <1>10 DEF Starts
    <3>3. \E d \in StartCalls' : d.at = "run"
      BY <3>1, <3>2 DEF StartCalls
    <3>4. OwnCalls' /\ OneStart'
      BY <1>3, <2>3, <3>1, <3>2, <3>3, ServedCalls
    <3>5. exec.state = "starting"
      BY <3>2 DEF SupervisedInv, OneStart, StartCalls
    <3> QED BY <1>3, <3>4, <3>5 DEF Moves
  <2> QED BY <1>10, <2>1, <2>2, <2>3 DEF Starts
<1>11. CASE Started(c)
  <2>1. /\ session' = IF alive THEN "active"
                      ELSE IF exit = "failed" THEN "failed" ELSE "completed"
        /\ UNCHANGED alive /\ c.op = "start"
    BY <1>11 DEF Started
  <2>0. PICK res \in {IF session' = "failed" THEN "failed" ELSE "ok", "raised"} :
          calls' = Settle(c, res)
    BY <1>11 DEF Started
  <2>2. PICK n : /\ n.by = c.by /\ n.op = c.op /\ n.at = "answered" /\ n.res = res
                 /\ \A d \in calls' : (d \in calls /\ d # c) \/ d = n
                 /\ \A d \in calls \ {c} : d \in calls'
    <3>1. res \in Answers
      BY DEF Answers
    <3> QED BY <1>1, <2>0, <3>1, SettledTo
  <2>3. session' # "none" /\ (session' = "failed" => ~alive')
    BY <2>1
  <2>5. n.res = "ok" \/ n.res = "raised" \/ ~alive'
    BY <2>0, <2>2, <2>3
  <2>4. OwnCalls' /\ OneStart'
    BY <1>3, <1>4, <2>1, <2>2, <2>3, <2>5, ServedCalls
  <2> QED BY <1>3, <2>1, <2>4 DEF SupervisedInv, Moves
<1>12. CASE Status(c)
  <2>1. /\ session' = Refreshed /\ UNCHANGED alive /\ c.op = "status"
        /\ \E res \in {CASE session' = "none" -> "missing"
                        [] session' = "completed" /\ exit = "unverified" -> "unverified"
                        [] OTHER -> session', "raised"} : calls' = Settle(c, res)
    BY <1>12 DEF Status
  <2>2. session' \in {"none", "active"} \cup Over /\ (session = "none" <=> session' = "none")
    BY <1>1, <2>1 DEF Refreshed, BridgeOK, Over
  <2>3. PICK res \in Answers :
           calls' = Settle(c, res) /\ (session' = "active" => res \in {"active", "raised"})
    BY <2>1, <2>2 DEF Answers, Over
  <2>4. PICK n : /\ n.by = c.by /\ n.op = c.op /\ n.at = "answered" /\ n.res = res
                 /\ \A d \in calls' : (d \in calls /\ d # c) \/ d = n
                 /\ \A d \in calls \ {c} : d \in calls'
    BY <1>1, <2>3, SettledTo
  <2>5. alive' /\ session' = "none" => \E d \in StartCalls' : d.at = "run"
    BY <2>1, <2>2, <2>4 DEF SupervisedInv, OneStart, StartCalls
  <2>6. c.by = "tail" /\ n.res \notin {"active", "raised"} => session' \in Over
    BY <1>8, <2>1, <2>2, <2>3, <2>4
  <2>7. OwnCalls' /\ OneStart'
    BY <1>3, <1>4, <1>5, <2>1, <2>4, <2>5, <2>6, ServedCalls
  <2> QED BY <1>3, <2>1, <2>7 DEF SupervisedInv, Moves
<1>13. CASE Stops(c)
  <2>1. /\ c.op \in {"stopOwn", "stopAll"} /\ Free
        /\ session # "none" => session' = "stopped" /\ alive' = FALSE
        /\ session = "none" => UNCHANGED <<session, alive>>
    BY <1>13 DEF Stops
  <2>2. PICK res \in Answers : calls' = Settle(c, res)
    BY <1>13 DEF Stops, Answers
  <2>3. PICK n : /\ n.by = c.by /\ n.op = c.op /\ n.at = "answered" /\ n.res = res
                 /\ \A d \in calls' : (d \in calls /\ d # c) \/ d = n
                 /\ \A d \in calls \ {c} : d \in calls'
    BY <1>1, <2>2, SettledTo
  <2>4. ~alive'
    BY <2>1, FreeIsKnown DEF SupervisedInv
  <2>5. c.by = "tail" => session' \in Over
    BY <1>7, <1>8, <2>1 DEF Awaited, Over
  <2>6. OwnCalls' /\ OneStart'
    BY <1>3, <1>4, <1>5, <2>1, <2>3, <2>4, <2>5, ServedCalls
  <2> QED BY <2>4, <2>6 DEF Moves
<1> QED BY <1>2, <1>9, <1>10, <1>11, <1>12, <1>13

-----------------------------------------------------------------------------
\* Where the tail does not wait for an answer it has no call; no start is under way but
\* under a clear that starts.
LEMMA TailHasNoCall ==
  ASSUME SupervisedInv
  PROVE  /\ pc \notin {"start", "status", "stop"} => \A c \in calls : c.by # "tail"
         /\ pc \notin {"start", "cancelled"} => \A c \in calls : c.op # "start"
  BY DEF SupervisedInv, OwnCalls, OneStart, Seats, Awaited, Waits, StartCalls

\* The calls that are left when the tail waits for none.
LEMMA NoneOfTheTail ==
  ASSUME SupervisedInv, UNCHANGED <<session, alive>>,
         calls' \subseteq calls, \A c \in calls' : c.by # "tail",
         \A c \in calls : c.op = "start" /\ c.at = "run" => c \in calls',
         exec'.state = "starting" \/ \A c \in calls' : c.op # "start"
  PROVE  OwnCalls' /\ OneStart'
<1>1. OwnCalls'
  BY DEF OwnCalls, Waits, Got
<1>2. OneStart'
  BY DEF SupervisedInv, OneStart, StartCalls
<1> QED BY <1>1, <1>2

\* The tail asks for one call and waits for it.
LEMMA AsksOne ==
  ASSUME SupervisedInv, UNCHANGED <<session, alive>>, NEW op, Asks(op),
         <<op, pc'>> \in Awaited, \A c \in calls : c.by # "tail",
         \A c \in calls : c.op # "start",
         op = "start" => exec'.state = "starting"
  PROVE  OwnCalls' /\ OneStart'
<1> DEFINE n == Call("tail", op, "pool")
<1>1. n.by = "tail" /\ n.op = op /\ n.at = "pool"
  BY DEF Call
<1>2. calls' = calls \cup {n}
  BY DEF Asks
<1> HIDE DEF n
<1>3. OwnCalls'
  BY <1>1, <1>2 DEF OwnCalls, Waits, Got
<1>4. OneStart'
  BY <1>1, <1>2 DEF SupervisedInv, OneStart, StartCalls
<1> QED BY <1>3, <1>4

LEMMA ExecFields ==
  ASSUME exec \in Execs
  PROVE  /\ \A s \in States :
              /\ [exec EXCEPT !.state = s].state = s
              /\ [exec EXCEPT !.state = s].simulated = exec.simulated
              /\ [exec EXCEPT !.state = s].verified = exec.verified
              /\ [exec EXCEPT !.state = s].attempted = exec.attempted
         /\ [exec EXCEPT !.attempted = TRUE].state = exec.state
         /\ [exec EXCEPT !.attempted = TRUE].simulated = exec.simulated
         /\ [exec EXCEPT !.attempted = TRUE].verified = exec.verified
         /\ [exec EXCEPT !.bound = TRUE].state = exec.state
         /\ [exec EXCEPT !.bound = TRUE].simulated = exec.simulated
         /\ [exec EXCEPT !.bound = TRUE].verified = exec.verified
         /\ [exec EXCEPT !.bound = TRUE].attempted = exec.attempted
  BY DEF Execs

LEMMA MovedFields ==
  ASSUME exec \in Execs
  PROVE  /\ \A e :
              \/ e = [exec EXCEPT !.state = "waiting", !.verified = TRUE]
              \/ e = [exec EXCEPT !.state = "waiting", !.bound = TRUE,
                                  !.verified = TRUE, !.framed = TRUE]
              => /\ e.simulated = exec.simulated /\ e.attempted = exec.attempted
                 /\ e.state = "waiting"
         /\ \A e : e = [exec EXCEPT !.state = "running", !.bound = TRUE]
              => /\ e.simulated = exec.simulated /\ e.attempted = exec.attempted
                 /\ e.state = "running" /\ e.verified = exec.verified
  BY DEF Execs

\* A clear that is given up without a stop has nothing to stop.
LEMMA StopPendingSupervised ==
  ASSUME ClearTypeOK, SupervisedInv, NEW to \in {"between", "ended"}, StopPending(to),
         pc \in {"vision", "sleep", "between"}, to = "between" => visit = "vision",
         UNCHANGED <<visit, session, alive>>
  PROVE  SupervisedInv'
<1>1. exec \in Execs
  BY TypeParts DEF TailOK
<1>2. /\ \A c \in calls : c.by # "tail" /\ c.op # "start"
      /\ exec.state # "starting"
  BY TailHasNoCall DEF SupervisedInv, Seats
<1>3. CASE exec.state = "done"
  <2>1. pc' = to /\ UNCHANGED <<exec, calls>>
    BY <1>3 DEF StopPending
  <2>2. OwnCalls' /\ OneStart'
    BY <1>2, <2>1, NoneOfTheTail
  <2> QED BY <1>3, <2>1, <2>2 DEF SupervisedInv, Seats, Marks, Moves
<1>4. CASE /\ exec.state \in Pending
           /\ ~exec.simulated /\ ~exec.verified /\ ~exec.attempted
  <2>1. /\ exec' = [exec EXCEPT !.attempted = TRUE]
        /\ Asks("stopOwn") /\ pc' = "stop"
    BY <1>4 DEF StopPending, Pending
  <2>2. exec'.state = exec.state /\ exec'.simulated = exec.simulated
        /\ exec'.verified = exec.verified
    BY <1>1, <2>1, ExecFields
  <2>3. OwnCalls' /\ OneStart'
    BY <1>2, <2>1, AsksOne DEF Awaited
  <2>4. exec.state \in {"running", "waiting"}
    BY <1>2, <1>4 DEF Pending
  <2> QED BY <1>4, <2>1, <2>2, <2>3, <2>4 DEF SupervisedInv, Seats, Marks, Moves
<1>5. CASE Enters("error") /\ pc' = to /\ UNCHANGED calls
           /\ ~(/\ exec.state \in Pending
                /\ ~exec.simulated /\ ~exec.verified /\ ~exec.attempted)
  <2>1. exec'.state = "error"
    BY <1>1, <1>5, ExecFields DEF Enters, States
  <2>2. OwnCalls' /\ OneStart'
    BY <1>2, <1>5, NoneOfTheTail
  <2>3. ~alive
    BY <1>2, <1>5 DEF SupervisedInv, Moves, Marks, Pending
  <2> QED BY <1>5, <2>1, <2>2, <2>3 DEF SupervisedInv, Seats, Marks, Moves
<1> QED BY <1>3, <1>4, <1>5 DEF StopPending

LEMMA ExaminesSupervised ==
  ASSUME SupervisedInv, Examines, UNCHANGED <<session, alive>>, exec \in Execs, ~exec'.unseen,
         pc \in {"vision", "sleep"}, exec.state \in {"running", "waiting"}
  PROVE  SupervisedInv'
<1>1. \A c \in calls : c.by # "tail" /\ c.op # "start"
  BY TailHasNoCall
<1>2. visit' = "vision"
  BY DEF SupervisedInv, Seats, Examines, Returns, Goes
<1>3. CASE exec.simulated /\ UNCHANGED <<exec, calls>> /\ pc' = "result"
  <2>1. exec.state = "waiting"
    BY <1>3 DEF SupervisedInv, Marks
  <2>2. OwnCalls' /\ OneStart'
    BY <1>1, <1>3, NoneOfTheTail
  <2> QED BY <1>2, <1>3, <2>1, <2>2 DEF SupervisedInv, Seats, Marks, Moves
<1>4. CASE ~exec.simulated /\ UNCHANGED exec /\ pc' = "status" /\ Asks("status")
  <2>1. OwnCalls' /\ OneStart'
    BY <1>1, <1>4, AsksOne DEF Awaited
  <2> QED BY <1>2, <1>4, <2>1 DEF SupervisedInv, Seats, Marks, Moves
<1>5. CASE FailsUnseen(~exec.simulated) /\ Returns /\ UNCHANGED calls
  <2>1. /\ exec.simulated /\ exec'.state = "error" /\ pc' = "between"
        /\ exec'.simulated = exec.simulated
    BY <1>5, UnseenIs DEF Execs, Returns, Goes
  <2>2. ~alive
    BY <2>1 DEF SupervisedInv, Marks, Moves
  <2>3. OwnCalls' /\ OneStart'
    BY <1>1, <1>5, <2>1, NoneOfTheTail
  <2> QED BY <1>2, <2>1, <2>2, <2>3 DEF SupervisedInv, Seats, Marks, Moves
<1> QED BY <1>3, <1>4, <1>5 DEF Examines, Goes

\* What the tail's step leaves when it neither asks nor was answered.
LEMMA NoCallSupervised ==
  ASSUME SupervisedInv, UNCHANGED <<calls, session, alive>>,
         pc \notin {"start", "status", "stop", "cancelled"}
  PROVE  OwnCalls' /\ OneStart'
  BY TailHasNoCall, NoneOfTheTail

LEMMA TailSupervised ==
  ASSUME ClearTypeOK, AskedInv, Told, SupervisedInv, TailStep, ~exec'.unseen
  PROVE  SupervisedInv'
<1>1. TailOK /\ exec \in Execs
  BY TypeParts DEF TailOK
<1>e. \A s \in States : /\ [exec EXCEPT !.state = s].state = s
                        /\ [exec EXCEPT !.state = s].simulated = exec.simulated
                        /\ [exec EXCEPT !.state = s].verified = exec.verified
                        /\ [exec EXCEPT !.state = s].attempted = exec.attempted
  BY <1>1, ExecFields
<1>o. UNCHANGED <<session, alive>>
  BY DEF TailStep, Requested, EnterManipulation, Decided, StartAnswered, EnterVision, Slept,
         Watched, Captured, Reviewed, ResultReviewed, StopAnswered, Between, KeepOutside,
         bridge
<1>u. Seats /\ Marks /\ OwnCalls /\ OneStart /\ Moves
  BY DEF SupervisedInv
<1>s. Seats' /\ Marks' /\ OwnCalls' /\ OneStart' /\ Moves' => SupervisedInv'
  BY DEF SupervisedInv
<1> USE DEF Goes, Returns, Leaves, Fails, Enters, States
<1>2. CASE Requested
  <2>1. /\ pc = "equipment" /\ pc' = "between" /\ UNCHANGED <<visit, calls>>
        /\ exec.state = "none" /\ exec'.state \in {"requested", "error"}
        /\ exec'.verified = exec.verified /\ exec'.attempted = exec.attempted
    BY <1>1, <1>2 DEF Requested, AskedInv, Execs
  <2>2. ~alive /\ ~exec.verified /\ ~exec.attempted
    BY <1>u, <2>1 DEF Moves, Marks
  <2>3. OwnCalls' /\ OneStart'
    BY <1>o, <2>1, NoCallSupervised
  <2> QED BY <1>o, <1>s, <1>u, <2>1, <2>2, <2>3 DEF Seats, Marks, Moves
<1>3. CASE EnterManipulation
  <2>1. /\ pc = "manip" /\ UNCHANGED calls /\ exec.state \in {"requested", "error"}
        /\ \/ pc' = "between" /\ visit' = "vision" /\ exec'.state = "error"
           \/ pc' = "decide" /\ exec.state = "requested" /\ exec'.state = "deciding"
        /\ exec'.verified = exec.verified /\ exec'.attempted = exec.attempted
    <3>1. exec.state \in {"requested", "error"}
      <4>1. pc = "manip"
        BY <1>3 DEF EnterManipulation
      <4> QED BY <1>u, <4>1 DEF Seats
    <3>2. CASE exec' = exec
      BY <1>e, <1>3, <3>1, <3>2 DEF EnterManipulation
    <3>3. CASE exec' = [exec EXCEPT !.state = "error"] /\ Leaves
      BY <1>e, <1>3, <3>1, <3>3 DEF EnterManipulation
    <3>4. CASE /\ exec' = [exec EXCEPT !.state = "deciding"] /\ Goes("decide")
               /\ exec.state = "requested"
      BY <1>e, <1>3, <3>1, <3>4 DEF EnterManipulation
    <3> QED BY <1>3, <3>2, <3>3, <3>4 DEF EnterManipulation
  <2>2. ~alive /\ (exec.state = "requested" => ~exec.verified /\ ~exec.attempted)
    BY <1>u, <2>1 DEF Moves, Marks
  <2>3. OwnCalls' /\ OneStart'
    BY <1>o, <2>1, NoCallSupervised
  <2> QED BY <1>o, <1>s, <1>u, <2>1, <2>2, <2>3 DEF Seats, Marks, Moves
<1>4. CASE Decided
  <2>1. pc = "decide" /\ exec.state = "deciding"
    BY <1>4 DEF Decided, AskedInv
  <2>2. ~alive /\ ~exec.verified /\ ~exec.attempted
    BY <1>u, <2>1 DEF Moves, Marks
  <2>3. \/ /\ pc' = "between" /\ visit' = "vision" /\ UNCHANGED calls
           /\ exec'.state = "error" /\ exec'.attempted = exec.attempted
        \/ /\ pc' = "between" /\ visit' = "vision" /\ UNCHANGED calls
           /\ exec'.state = "waiting" /\ exec'.simulated
           /\ exec'.attempted = exec.attempted
        \/ /\ pc' = "start" /\ Asks("start") /\ exec'.state = "starting"
           /\ ~exec'.simulated /\ exec'.attempted = exec.attempted
           /\ exec'.verified = exec.verified
    <3>1. PICK accepted \in BOOLEAN :
            IF Stopped \/ ~accepted
              THEN Enters("error") /\ Leaves /\ UNCHANGED <<calls, asked>>
            ELSE IF exec.simulated
              THEN /\ exec' = [exec EXCEPT !.state = "waiting", !.verified = TRUE]
                   /\ Leaves /\ UNCHANGED <<calls, asked>>
              ELSE /\ Enters("starting") /\ Goes("start")
                   /\ Asks("start") /\ asked' = asked + 1
      BY <1>4 DEF Decided
    <3>2. CASE Stopped \/ ~accepted
      BY <1>e, <3>1, <3>2
    <3>3. CASE ~(Stopped \/ ~accepted) /\ exec.simulated
      BY <1>1, <3>1, <3>3, MovedFields
    <3>4. CASE ~(Stopped \/ ~accepted) /\ ~exec.simulated
      BY <1>e, <3>1, <3>4
    <3> QED BY <3>2, <3>3, <3>4
  <2>4. OwnCalls' /\ OneStart'
    BY <1>o, <2>1, <2>3, NoCallSupervised, TailHasNoCall, AsksOne DEF Awaited
  <2> QED BY <1>o, <1>s, <1>u, <2>1, <2>2, <2>3, <2>4 DEF Seats, Marks, Moves
<1>5. CASE StartAnswered
  <2>1. PICK c \in Got("tail") :
          /\ calls' = calls \ {c}
          /\ IF c.res = "ok"
               THEN exec' = [exec EXCEPT !.state = "running", !.bound = TRUE]
               ELSE FailsUnseen(c.res = "raised")
    BY <1>5 DEF StartAnswered
  <2>2. pc = "start" /\ pc' = "between" /\ visit' = "vision"
    BY <1>5 DEF StartAnswered
  <2>3. exec.state = "starting" /\ ~exec.verified /\ ~exec.attempted /\ ~exec.simulated
    BY <1>u, <2>2 DEF Seats, Marks
  <2>4. /\ c \in StartCalls /\ c.at = "answered"
        /\ \A d \in calls' : d.by # "tail" /\ d.op # "start"
    BY <1>u, <2>1, <2>2 DEF OwnCalls, OneStart, Awaited, Got, Waits, StartCalls
  <2>5. IF c.res = "ok" THEN session # "none" ELSE ~alive
    <3>1. c.res # "raised"
      BY <1>1, <2>1, UnseenIs
    <3> QED BY <1>u, <2>4, <3>1 DEF OneStart
  <2>6. /\ exec'.simulated = exec.simulated /\ exec'.verified = exec.verified
        /\ exec'.attempted = exec.attempted
        /\ exec'.state = IF c.res = "ok" THEN "running" ELSE "error"
    <3>1. CASE c.res = "ok"
      BY <1>1, <2>1, <3>1, MovedFields
    <3>2. CASE c.res # "ok"
      BY <1>1, <2>1, <3>2, UnseenIs
    <3> QED BY <3>1, <3>2
  <2>7. OwnCalls' /\ OneStart'
    BY <1>o, <2>1, <2>4, NoneOfTheTail DEF Got
  <2> QED BY <1>o, <1>s, <1>u, <2>2, <2>3, <2>5, <2>6, <2>7 DEF Seats, Marks, Moves
<1>6. CASE EnterVision
  <2>1. pc = "vision" /\ visit = "vision"
    BY <1>u, <1>6 DEF EnterVision, Seats
  <2>2. CASE StopPending("between") /\ UNCHANGED <<visit, shot>>
    BY <1>o, <2>1, <2>2, StopPendingSupervised
  <2>3. CASE /\ pc' = "between" /\ UNCHANGED <<exec, calls, visit>>
    <3>1. OwnCalls' /\ OneStart'
      BY <1>o, <2>1, <2>3, NoCallSupervised
    <3> QED BY <1>o, <1>s, <1>u, <2>1, <2>3, <3>1 DEF Seats, Marks, Moves
  <2>4. CASE /\ exec.state \in Pending
             /\ Examines \/ (pc' = "sleep" /\ UNCHANGED <<exec, calls, visit>>)
    <3>1. exec.state \in {"running", "waiting"}
      BY <1>u, <2>1, <2>4 DEF Seats, Pending
    <3>2. CASE Examines
      BY <1>1, <1>o, <2>1, <3>1, <3>2, ExaminesSupervised
    <3>3. CASE pc' = "sleep" /\ UNCHANGED <<exec, calls, visit>>
      <4>1. OwnCalls' /\ OneStart'
        BY <1>o, <2>1, <3>3, NoCallSupervised
      <4> QED BY <1>o, <1>s, <1>u, <2>1, <3>1, <3>3, <4>1 DEF Seats, Marks, Moves
    <3> QED BY <2>4, <3>2, <3>3
  <2> QED BY <1>6, <2>2, <2>3, <2>4 DEF EnterVision
<1>7. CASE Slept
  <2>1. pc = "sleep" /\ visit = "vision" /\ exec.state \in {"running", "waiting"}
    BY <1>u, <1>7 DEF Slept, Seats
  <2>2. CASE StopPending("between") /\ UNCHANGED <<visit, shot>>
    BY <1>o, <2>1, <2>2, StopPendingSupervised
  <2>3. CASE Examines
    BY <1>1, <1>o, <2>1, <2>3, ExaminesSupervised
  <2> QED BY <1>7, <2>2, <2>3 DEF Slept
<1>8. CASE Watched
  <2>1. PICK c \in Got("tail") :
          /\ calls' = calls \ {c}
          /\ CASE c.res = "active" ->
                    exec' = [exec EXCEPT !.bound = TRUE] /\ Returns
                    /\ UNCHANGED clock
               [] c.res = "completed" ->
                    /\ exec' = [exec EXCEPT !.state = "waiting", !.bound = TRUE,
                                            !.verified = TRUE, !.framed = TRUE]
                    /\ clock' = IF exec.framed THEN clock ELSE 0
                    /\ Goes("capture")
               [] OTHER -> FailsUnseen(c.res = "raised") /\ Returns /\ UNCHANGED clock
    BY <1>8 DEF Watched
  <2>2. /\ pc = "status" /\ visit = "vision" /\ visit' = "vision"
        /\ exec.state \in {"running", "waiting"} /\ ~exec.simulated /\ ~exec.attempted
    BY <1>u, <1>8, <2>1 DEF Watched, Seats, Marks
  <2>3. /\ c.op = "status" /\ c.at = "answered"
        /\ \A d \in calls' : d.by # "tail" /\ d.op # "start"
    BY <1>u, <2>1, <2>2, TailHasNoCall DEF OwnCalls, Awaited, Got, Waits
  <2>4. OwnCalls' /\ OneStart'
    BY <1>o, <2>1, <2>3, NoneOfTheTail DEF Got
  <2>5. CASE c.res = "active"
    <3>1. /\ exec'.state = exec.state /\ exec'.simulated = exec.simulated
          /\ exec'.verified = exec.verified /\ exec'.attempted = exec.attempted
          /\ pc' = "between"
      BY <1>1, <2>1, <2>5, ExecFields
    <3> QED BY <1>o, <1>s, <1>u, <2>2, <2>4, <3>1 DEF Seats, Marks, Moves
  <2>6. CASE c.res # "active"
    <3>0. c.res # "raised"
      BY <1>1, <2>1, UnseenIs
    <3>1. session \in Over /\ ~alive
      BY <1>u, <2>1, <2>3, <2>6, <3>0 DEF OwnCalls, Told
    <3>2. /\ exec'.simulated = exec.simulated
          /\ exec'.attempted = exec.attempted
          /\ \/ exec'.state = "waiting" /\ pc' = "capture"
             \/ exec'.state = "error" /\ pc' = "between"
      <4>1. CASE c.res = "completed"
        BY <1>1, <2>1, <4>1, MovedFields, WatchedState
      <4>2. CASE c.res # "completed"
        BY <1>1, <2>1, <2>6, <4>2, UnseenIs
      <4> QED BY <4>1, <4>2
    <3> QED BY <1>o, <1>s, <1>u, <2>2, <2>4, <3>1, <3>2 DEF Seats, Marks, Moves
  <2> QED BY <2>5, <2>6
<1>9. CASE Captured \/ Reviewed \/ ResultReviewed
  <2>1. /\ pc \in {"capture", "review", "result"} /\ visit = "vision"
        /\ exec.state = "waiting" /\ ~exec.attempted
    BY <1>u, <1>9 DEF Captured, Reviewed, ResultReviewed, Seats, Marks
  <2>2. /\ UNCHANGED <<calls, visit>>
        /\ exec'.simulated = exec.simulated /\ exec'.attempted = exec.attempted
        /\ exec'.verified = exec.verified
        /\ \/ pc' = "between" /\ exec'.state \in {"waiting", "error", "done"}
           \/ pc' \in {"review", "result"} /\ exec'.state = "waiting"
    BY <1>e, <1>9, <2>1 DEF Captured, Reviewed, ResultReviewed
  <2>3. OwnCalls' /\ OneStart'
    BY <1>o, <2>1, <2>2, NoCallSupervised
  <2>4. ~alive
    BY <1>u, <2>1 DEF Moves
  <2> QED BY <1>o, <1>s, <1>u, <2>1, <2>2, <2>3, <2>4 DEF Seats, Marks, Moves
<1>10. CASE StopAnswered
  <2>1. PICK c \in Got("tail") : calls' = calls \ {c}
    BY <1>10 DEF StopAnswered
  <2>2. /\ pc = "stop" /\ pc' \in {"between", "ended"} /\ exec'.state = "error"
        /\ exec'.simulated = exec.simulated /\ visit' = visit
    BY <1>1, <1>e, <1>10 DEF StopAnswered, TailOK
  <2>3. /\ c.op = "stopOwn" /\ c.at = "answered"
        /\ \A d \in calls' : d.by # "tail" /\ d.op # "start"
    BY <1>u, <2>1, <2>2, TailHasNoCall DEF OwnCalls, Awaited, Got, Waits
  <2>4. OwnCalls' /\ OneStart'
    BY <1>o, <2>1, <2>3, NoneOfTheTail DEF Got
  <2>5. ~alive
    BY <1>u, <2>1, <2>3 DEF OwnCalls, Told
  <2> QED BY <1>o, <1>s, <1>u, <2>2, <2>4, <2>5 DEF Seats, Marks, Moves
<1>11. CASE Between
  <2>1. pc = "between"
    BY <1>11 DEF Between
  <2>2. CASE Stopped
    BY <1>o, <1>11, <2>1, <2>2, StopPendingSupervised DEF Between
  <2>3. CASE ~Stopped
    <3>1. /\ UNCHANGED <<exec, calls, visit>>
          /\ pc' \in {"ended", "manip", "vision"}
          /\ pc' \in {"manip", "vision"} => pc' = visit
      BY <1>1, <1>11, <2>3 DEF Between, TailOK, Visits
    <3>2. OwnCalls' /\ OneStart'
      BY <1>o, <2>1, <3>1, NoCallSupervised
    <3> QED BY <1>o, <1>s, <1>u, <2>1, <3>1, <3>2 DEF Seats, Marks, Moves
  <2> QED BY <2>2, <2>3
<1> QED BY <1>2, <1>3, <1>4, <1>5, <1>6, <1>7, <1>8, <1>9, <1>10, <1>11 DEF TailStep

\* Cancelling the tail orphans its call; a start that runs is watched by nobody, under
\* the clear that it was asked for.
LEMMA CancelsSupervised ==
  ASSUME ClearTypeOK, AskedInv, SupervisedInv, NEW left \in SUBSET calls,
         \A c \in calls : c.at = "run" => c \in left,
         Cancels(left), UNCHANGED <<session, alive>>
  PROVE  SupervisedInv'
<1>1. exec \in Execs /\ CallsOK
  BY TypeParts DEF TailOK
<1>u. Seats /\ Marks /\ OwnCalls /\ OneStart /\ Moves
  BY DEF SupervisedInv
<1>s. Seats' /\ Marks' /\ OwnCalls' /\ OneStart' /\ Moves' => SupervisedInv'
  BY DEF SupervisedInv
<1>2. CASE pc \in Ends
  <2>1. UNCHANGED <<exec, pc, visit>> /\ calls' = left
    BY <1>2 DEF Cancels, tail
  <2>2. OwnCalls' /\ OneStart'
    <3>1. \A c \in calls : c.by # "tail"
      BY <1>2, TailHasNoCall DEF Ends
    <3>2. exec'.state = "starting" \/ \A c \in calls' : c.op # "start"
      BY <1>u, <2>1 DEF OneStart, StartCalls
    <3> QED BY <2>1, <3>1, <3>2, NoneOfTheTail
  <2> QED BY <1>s, <1>u, <2>1, <2>2 DEF Seats, Marks, Moves
<1>3. CASE pc \notin Ends
  <2>1. /\ pc' = "cancelled" /\ visit' = visit
        /\ exec' = IF pc = "decide" THEN [exec EXCEPT !.state = "error"] ELSE exec
        /\ calls' = {c \in left : c.by # "tail"} \cup
             {[c EXCEPT !.by = "nobody"] :
                c \in {d \in left : d.by = "tail" /\ d.at \in {"queue", "run"}}}
    BY <1>3 DEF Cancels, Goes
  <2>2. \A c \in calls : /\ [c EXCEPT !.by = "nobody"].by = "nobody"
                         /\ [c EXCEPT !.by = "nobody"].op = c.op
                         /\ [c EXCEPT !.by = "nobody"].at = c.at
    BY <1>1 DEF CallsOK, CallSet
  <2>3. ASSUME NEW c \in calls'
        PROVE  /\ c.by # "tail"
               /\ \E d \in calls :
                    /\ c.op = d.op /\ c.at = d.at
                    /\ \/ c = d /\ d.by # "tail"
                       \/ /\ c = [d EXCEPT !.by = "nobody"]
                          /\ d.by = "tail" /\ d.at \in {"queue", "run"}
    <3>1. CASE c \in left /\ c.by # "tail"
      BY <3>1
    <3>2. CASE ~(c \in left /\ c.by # "tail")
      <4>1. PICK d \in left : /\ c = [d EXCEPT !.by = "nobody"]
                              /\ d.by = "tail" /\ d.at \in {"queue", "run"}
        BY <2>1, <3>2
      <4> QED BY <2>2, <4>1
    <3> QED BY <3>1, <3>2
  <2>4. \A c \in calls' : c.by # "tail"
    BY <2>3
  <2>5. OwnCalls'
    BY <2>4 DEF OwnCalls, Waits, Got
  <2>6. \A c \in StartCalls' : exec.state = "starting" /\ pc # "decide"
    <3>1. ASSUME NEW c \in StartCalls' PROVE \E d \in calls : d.op = "start"
      BY <2>3, <3>1 DEF StartCalls
    <3>2. (\E d \in calls : d.op = "start") => exec.state = "starting" /\ pc # "decide"
      BY <1>u DEF OneStart, StartCalls, Seats
    <3> QED BY <3>1, <3>2
  <2>7. StartCalls' # {} => exec'.state = "starting"
    BY <2>1, <2>6
  <2>8. \A a, b \in StartCalls' : a = b
    <3>1. ASSUME NEW a \in StartCalls'
          PROVE  \E d \in StartCalls :
                   \/ a = d /\ d.by # "tail"
                   \/ a = [d EXCEPT !.by = "nobody"] /\ d.by = "tail"
      BY <2>3, <3>1 DEF StartCalls
    <3>2. SUFFICES ASSUME NEW a \in StartCalls', NEW b \in StartCalls' PROVE a = b
      OBVIOUS
    <3>3. PICK d \in StartCalls : \/ a = d /\ d.by # "tail"
                                  \/ a = [d EXCEPT !.by = "nobody"] /\ d.by = "tail"
      BY <3>1
    <3>4. PICK e \in StartCalls : \/ b = e /\ e.by # "tail"
                                  \/ b = [e EXCEPT !.by = "nobody"] /\ e.by = "tail"
      BY <3>1
    <3>5. d = e
      BY <1>u DEF OneStart
    <3> QED BY <3>3, <3>4, <3>5
  <2>9. \A c \in StartCalls' : c.at = "answered" => c \in StartCalls
    <3>1. ASSUME NEW c \in StartCalls', c.at = "answered" PROVE c \in StartCalls
      <4>1. PICK d \in calls : /\ c.op = d.op /\ c.at = d.at
                               /\ c = d \/ d.at \in {"queue", "run"}
        BY <2>3 DEF StartCalls
      <4> QED BY <3>1, <4>1 DEF StartCalls
    <3> QED BY <3>1
  <2>10. ASSUME alive, session = "none" PROVE \E c \in StartCalls' : c.at = "run"
    <3>1. PICK d \in StartCalls : d.at = "run"
      BY <1>u, <2>10 DEF OneStart
    <3>2. d \in calls /\ d \in left /\ d.op = "start"
      BY <3>1 DEF StartCalls
    <3>3. CASE d.by # "tail"
      BY <2>1, <3>1, <3>2, <3>3 DEF StartCalls
    <3>4. CASE d.by = "tail"
      <4>1. [d EXCEPT !.by = "nobody"] \in calls'
        BY <2>1, <3>1, <3>2, <3>4
      <4> QED BY <2>2, <3>1, <3>2, <4>1 DEF StartCalls
    <3> QED BY <3>3, <3>4
  <2>11. OneStart'
    BY <1>u, <2>7, <2>8, <2>9, <2>10 DEF OneStart
  <2>12. /\ exec'.state = exec.state \/ (exec'.state = "error" /\ pc = "decide")
         /\ exec'.simulated = exec.simulated /\ exec'.verified = exec.verified
         /\ exec'.attempted = exec.attempted
    BY <1>1, <2>1, ExecFields DEF States
  <2>13. pc = "decide" => ~alive
    BY <1>u DEF AskedInv, Moves
  <2> QED BY <1>s, <1>u, <2>1, <2>5, <2>11, <2>12, <2>13 DEF Seats, Marks, Moves
<1> QED BY <1>2, <1>3

\* What the controls ask for is no start and not the tail's.
LEMMA ControlAsks ==
  ASSUME SupervisedInv, UNCHANGED <<exec, pc, visit, session, alive>>,
         NEW n, n.by # "tail", n.op # "start",
         calls' \subseteq calls \cup {n},
         \A c \in calls : c.op = "start" /\ c.at = "run" => c \in calls'
  PROVE  SupervisedInv'
<1>1. OwnCalls'
  BY DEF SupervisedInv, OwnCalls, Waits, Got
<1>2. OneStart'
  BY DEF SupervisedInv, OneStart, StartCalls
<1> QED BY <1>1, <1>2 DEF SupervisedInv, Seats, Marks, Moves

LEMMA ControlSupervised ==
  ASSUME ClearTypeOK, AskedInv, SupervisedInv,
         \/ \E k \in Controls : Control(k)
         \/ Notices \/ FastAnswered \/ FastCancels
  PROVE  SupervisedInv'
<1>k. \A k \in Controls : k # "tail"
  BY ControlsAssumption
<1>n. ASSUME NEW k \in Controls, NEW at
      PROVE  Call(k, "stopAll", at).by # "tail" /\ Call(k, "stopAll", at).op # "start"
  BY <1>k DEF Call
<1>d. ASSUME NEW k \in Controls, NEW c \in Got(k)
      PROVE  c.at = "answered"
  BY DEF Got
<1>1. ASSUME NEW k \in Controls, Press(k) PROVE SupervisedInv'
  BY <1>1, <1>n, ControlAsks DEF Press, tail, bridge
<1>2. ASSUME NEW k \in Controls, Pressed(k) PROVE SupervisedInv'
  <2>1. PICK c \in Got(k) :
          IF k \in Estops /\ ctl[k] = "stopping"
            THEN Cancels(calls \ {c})
            ELSE calls' = calls \ {c} /\ UNCHANGED <<exec, tail>>
    BY <1>2 DEF Pressed
  <2>2. UNCHANGED <<session, alive>>
    BY <1>2 DEF Pressed, bridge
  <2>3. \A d \in calls : d.at = "run" => d \in calls \ {c}
    BY <1>d
  <2>4. CASE Cancels(calls \ {c})
    BY <2>2, <2>3, <2>4, CancelsSupervised
  <2>5. CASE calls' = calls \ {c} /\ UNCHANGED <<exec, tail>>
    BY <1>n, <2>2, <2>3, <2>5, ControlAsks DEF tail
  <2> QED BY <2>1, <2>4, <2>5
<1>3. CASE Notices
  BY <1>3, <1>n, ControlAsks DEF Notices, tail, bridge
<1>4. CASE FastAnswered
  <2>1. PICK c \in Got("plc") : calls' = calls \ {c}
    BY <1>4 DEF FastAnswered
  <2>2. "plc" \in Controls /\ UNCHANGED <<exec, pc, visit, session, alive>>
    BY <1>4 DEF FastAnswered, tail, bridge
  <2>3. \A d \in calls : d.at = "run" => d \in calls'
    BY <1>d, <2>1, <2>2
  <2> QED BY <1>n, <2>1, <2>2, <2>3, ControlAsks
<1>5. CASE FastCancels
  BY <1>5, CancelsSupervised DEF FastCancels, bridge
<1> QED BY <1>1, <1>2, <1>3, <1>4, <1>5 DEF Control

\* That a clear was given up unseen stays on record.
LEMMA UnseenStays ==
  ASSUME exec \in Execs, [Next]_vars, exec.unseen
  PROVE  exec'.unseen
<1>e. ASSUME NEW s PROVE [exec EXCEPT !.state = s].unseen
  BY DEF Execs
<1>f. \A so : FailsUnseen(so) => exec'.unseen
  BY DEF FailsUnseen, Execs
<1>g. /\ [exec EXCEPT !.attempted = TRUE].unseen /\ [exec EXCEPT !.bound = TRUE].unseen
      /\ [exec EXCEPT !.state = "waiting", !.verified = TRUE].unseen
      /\ [exec EXCEPT !.state = "running", !.bound = TRUE].unseen
      /\ [exec EXCEPT !.state = "waiting", !.bound = TRUE, !.verified = TRUE,
                      !.framed = TRUE].unseen
  BY DEF Execs
<1>u. UNCHANGED exec => exec'.unseen
  OBVIOUS
<1>c. \A left : Cancels(left) => exec'.unseen
  BY <1>e DEF Cancels
<1>s. \A to : StopPending(to) => exec'.unseen
  BY <1>e, <1>g DEF StopPending, Enters
<1>1. CASE UNCHANGED vars \/ Ticks \/ Lifts \/ Exits \/ Notices \/ FastAnswered \/ Resumes
  BY <1>1 DEF vars, Ticks, Lifts, Exits, Notices, FastAnswered, Resumes
<1>2. ASSUME NEW by \in Callers, Serve(by) PROVE exec'.unseen
  BY <1>2 DEF Serve, Runs, Starts, Started, Status, Stops
<1>3. ASSUME NEW k \in Controls, Control(k) PROVE exec'.unseen
  BY <1>3, <1>c DEF Control, Press, Pressed
<1>4. CASE FastCancels
  BY <1>4, <1>c DEF FastCancels
<1>5. CASE Requested
  BY <1>5 DEF Requested, Execs
<1>6. CASE EnterManipulation \/ Decided
  BY <1>6, <1>e, <1>g DEF EnterManipulation, Decided, Enters
<1>7. CASE StartAnswered \/ Watched
  BY <1>7, <1>f, <1>g DEF StartAnswered, Watched
<1>8. CASE EnterVision \/ Slept \/ Between
  BY <1>8, <1>f, <1>s DEF EnterVision, Slept, Between, Examines
<1>9. CASE Captured \/ Reviewed \/ ResultReviewed \/ StopAnswered
  BY <1>9, <1>e DEF Captured, Reviewed, ResultReviewed, StopAnswered, Fails, Enters
<1> QED BY <1>1, <1>2, <1>3, <1>4, <1>5, <1>6, <1>7, <1>8, <1>9 DEF Next, TailStep

\* The invariant of a run that was not interrupted nor given up unseen, on top of the
\* others.
Whole == resumes = 0 /\ ~exec.unseen
SafeInv == DoneInv /\ AskedInv /\ (Whole => SupervisedInv)

LEMMA SafeStep == SafeInv /\ [Next]_vars => SafeInv'
<1> SUFFICES ASSUME SafeInv, [Next]_vars PROVE SafeInv'
  OBVIOUS
<1>1. ClearTypeOK /\ Told /\ AskedInv /\ (Whole => SupervisedInv)
  BY DEF SafeInv, DoneInv
<1>2. DoneInv' /\ AskedInv'
  BY <1>1, DoneStep, AskedStep DEF SafeInv
<1>0. exec \in Execs
  BY <1>1, TypeParts DEF TailOK
<1>3. ASSUME Whole' PROVE SupervisedInv'
  <2>0. ~exec.unseen /\ ~exec'.unseen /\ resumes' = 0
    BY <1>0, <1>3, UnseenStays DEF Whole
  <2>k. resumes' = resumes => SupervisedInv
    BY <1>1, <2>0 DEF Whole
  <2>1. CASE UNCHANGED vars \/ Ticks \/ Lifts \/ Exits
    <3>1. /\ UNCHANGED <<exec, pc, visit, calls, session, resumes>>
          /\ alive' => alive
      BY <2>1 DEF vars, tail, bridge, Ticks, Lifts, Exits
    <3>2. SupervisedInv
      BY <2>k, <3>1
    <3>3. OwnCalls' /\ OneStart'
      BY <3>1, <3>2 DEF SupervisedInv, OwnCalls, OneStart, Waits, Got, StartCalls
    <3> QED BY <3>1, <3>2, <3>3 DEF SupervisedInv, Seats, Marks, Moves
  <2>2. CASE TailStep
    <3>1. resumes' = resumes
      BY <2>2 DEF TailStep, Requested, EnterManipulation, Decided, StartAnswered,
             EnterVision, Slept, Watched, Captured, Reviewed, ResultReviewed,
             StopAnswered, Between, KeepOutside
    <3> QED BY <1>1, <2>0, <2>2, <2>k, <3>1, TailSupervised
  <2>3. ASSUME NEW by \in Callers, Serve(by) PROVE SupervisedInv'
    <3>1. resumes' = resumes
      BY <2>3 DEF Serve, Runs, Starts, Started, Status, Stops
    <3> QED BY <1>1, <2>3, <2>k, <3>1, ServeSupervised
  <2>4. CASE \/ \E k \in Controls : Control(k)
             \/ Notices \/ FastAnswered \/ FastCancels
    <3>1. resumes' = resumes
      BY <2>4 DEF Control, Press, Pressed, Notices, FastAnswered, FastCancels
    <3> QED BY <1>1, <2>4, <2>k, <3>1, ControlSupervised
  <2>5. ~Resumes
    <3>1. resumes \in Nat
      BY <1>1 DEF ClearTypeOK
    <3> QED BY <2>0, <3>1 DEF Resumes
  <2> QED BY <2>1, <2>2, <2>3, <2>4, <2>5 DEF Next
<1> QED BY <1>2, <1>3 DEF SafeInv

\* Until a run was interrupted and resumed, the arm moves only under a clear that watches
\* it or one that was given up without a look at the replay, because a call raised or
\* Vision may not execute any more: every other way the record leaves its states for an
\* error ends the replay first, or finds that it is over (stop_pending_clear and the
\* failures of run_clear_vision).
THEOREM MotionIsSupervised == Spec => []SupervisedMotion
<1>1. Init => SafeInv
  <2>1. Init => AskedInv
    BY DEF Init, NoExec, AskedInv
  <2> QED BY <2>1, DoneInit, SupervisedInit DEF SafeInv
<1>2. SafeInv => SupervisedMotion
  BY DEF SafeInv, Whole, SupervisedInv, Moves, SupervisedMotion
<1> QED BY <1>1, <1>2, SafeStep, PTL DEF Spec
=============================================================================
