--------------------------- MODULE HardwareAlerts ---------------------------
(***************************************************************************)
(* The life of the printers' alerts: the GUI's status monitor records one  *)
(* for a device error, repeated sightings are merged into it, and a newer  *)
(* healthy report of the same device resolves it.  Three readers bring     *)
(* reports: the monitor's handlers and the refresh before a stage's gate,  *)
(* whose worker threads deliver them late and in any order, and Guardian.  *)
(*                                                                         *)
(* Reports and alerts carry wall-clock times, and the code only compares   *)
(* them: a healthy report resolves the alerts last seen before it was      *)
(* received.  A healthy report therefore carries the jobs whose alerts it  *)
(* is newer than; whether it is at most five seconds old when it is looked *)
(* at is left open.                                                        *)
(*                                                                         *)
(* Of the alerts the active ones are kept: a resolved record acts no more, *)
(* since every sighting by the monitor has an identifier of its own.       *)
(***************************************************************************)
EXTENDS Naturals, FiniteSets

CONSTANTS Printers,  \* profiles, in the order of their names
          Jobs,      \* the jobs a printer may be seen to work on
          Monitors,  \* the handlers of the status monitor
          Profiles   \* how many printers one refresh asks

ASSUME PrintersAssumption == Printers \subseteq Nat /\ IsFiniteSet(Printers)
ASSUME MonitorsAssumption == "gate" \notin Monitors
ASSUME ProfilesAssumption == Profiles \in Nat

VARIABLES
  cond,    \* the condition of each printer
  job,     \* the job it works on
  snap,    \* the last report the bridge has of it
  reads,   \* the report each reader's worker has brought
  auto,    \* active alerts a report may resolve: <<printer, job>>
  held,    \* active alerts no report resolves: <<printer, condition>>
  health,  \* device_health["printer"]
  gate,    \* what the runtime does before a physical stage
  todo,    \* the printers its refresh has still to ask
  noted    \* the printers whose standing error the monitor has recorded

device  == <<cond, job>>
reports == <<snap, reads>>
alerts  == <<auto, held, health>>
pregate == <<gate, todo>>
vars    == <<device, reports, alerts, pregate, noted>>

Conditions == {"healthy", "error", "other"}
Readers    == Monitors \cup {"gate"}

\* "vague": an error without the evidence of the device's identity, of its
\* physical transport or of the error fields.
NoReport == [kind |-> "none"]
Healthy(p, newer) == [kind |-> "healthy", printer |-> p, newer |-> newer]
Failing(k, p, j)  == [kind |-> k, printer |-> p, job |-> j]
HealthyReports == [kind : {"healthy"}, printer : Printers, newer : SUBSET Jobs]
FailingReports == [kind : {"error", "vague", "other"}, printer : Printers,
                   job : Jobs]
Reports  == {NoReport} \cup HealthyReports \cup FailingReports
InFlight == {snap[p] : p \in Printers} \cup {reads[r] : r \in Readers}

NoAlert == auto = {} /\ held = {}

Init ==
  /\ cond = [p \in Printers |-> "healthy"] /\ job \in [Printers -> Jobs]
  /\ snap = [p \in Printers |-> NoReport]
  /\ reads = [r \in Readers |-> NoReport]
  /\ auto = {} /\ held = {} /\ health = "ready"
  /\ gate = "idle" /\ todo = {} /\ noted = {}

-----------------------------------------------------------------------------
(* The printers and what the bridge hears of them *)

Changes(p) ==
  /\ \E c \in Conditions \ {cond[p]} : cond' = [cond EXCEPT ![p] = c]
  /\ noted' = noted \ {p}
  /\ UNCHANGED <<job, reports, alerts, pregate>>

NextJob(p) ==
  /\ \E j \in Jobs \ {job[p]} : job' = [job EXCEPT ![p] = j]
  /\ UNCHANGED <<cond, reports, alerts, pregate, noted>>

\* A report is received now: later than anything that was seen so far.
Receives(p) ==
  /\ \E x \in CASE cond[p] = "healthy" -> {Healthy(p, Jobs)}
                [] cond[p] = "error"   -> {Failing("error", p, job[p]),
                                           Failing("vague", p, job[p])}
                [] OTHER               -> {Failing("other", p, job[p])} :
       snap' = [snap EXCEPT ![p] = x]
  /\ UNCHANGED <<device, reads, alerts, pregate, noted>>

-----------------------------------------------------------------------------
(* reconcile and record_alert *)

\* Faulty (FaultIsBlocking): the times are not compared.
ResolvesOlder(x) ==
  IF x.kind # "healthy" THEN {} ELSE {a \in auto : a[1] = x.printer}

\* The alerts a report resolves if it is fresh.
Resolves(x) ==
  IF x.kind # "healthy" THEN {}
  ELSE {a \in auto : a[1] = x.printer /\ a[2] \in x.newer}

\* Faulty (HealthTellsActive): the last resolution is not looked for.
ReconcileEach(x) ==
  /\ \E fresh \in BOOLEAN :
       auto' = IF fresh THEN auto \ Resolves(x) ELSE auto
  /\ health' = IF auto' # auto /\ health = "error" THEN "ready" ELSE health
  /\ UNCHANGED held

Reconcile(x) ==
  /\ \E fresh \in BOOLEAN :
       auto' = IF fresh THEN auto \ Resolves(x) ELSE auto
  /\ health' = IF auto' # auto /\ auto' = {} /\ held = {} /\ health = "error"
                 THEN "ready" ELSE health
  /\ UNCHANGED held

\* The alert of <<p, j>> was seen after the report x was received.
Seen(x, p, j) ==
  IF x.kind # "healthy" \/ x.printer # p THEN x
  ELSE [x EXCEPT !.newer = @ \ {j}]

\* An alert is appended, or one of the same device and job is seen again; the
\* worker of the reader r is done.
Sights(r, x) ==
  /\ auto' = auto \cup {<<x.printer, x.job>>}
  /\ health' = "error"
  /\ snap' = [p \in Printers |-> Seen(snap[p], x.printer, x.job)]
  /\ reads' = [m \in Readers |-> IF m = r THEN NoReport
                                 ELSE Seen(reads[m], x.printer, x.job)]
  /\ UNCHANGED held

Holds(x) ==   \* an alert with the explicit policy
  /\ LET c == IF x.kind = "vague" THEN "error" ELSE "other"
     IN  held' = held \cup {<<x.printer, c>>} /\ health' = c
  /\ UNCHANGED auto

Forget(r) == reads' = [reads EXCEPT ![r] = NoReport]
Notes(p)  == noted' = IF cond[p] = "error" THEN noted \cup {p} ELSE noted

-----------------------------------------------------------------------------
(* The readers *)

Fetches(m, p) ==   \* asyncio.to_thread(manager.prepare)
  /\ reads[m] = NoReport /\ snap[p] # NoReport
  /\ reads' = [reads EXCEPT ![m] = snap[p]]
  /\ UNCHANGED <<device, snap, alerts, pregate, noted>>

\* The monitor's result reaches emit_workspace_result: reconcile first, then
\* the alert of a failure.
Delivers(m) ==
  /\ LET x == reads[m] IN
       \/ x.kind = "healthy" /\ Reconcile(x) /\ Forget(m)
          /\ UNCHANGED <<snap, noted>>
       \/ x.kind = "error" /\ Sights(m, x) /\ Notes(x.printer)
       \/ x.kind \in {"vague", "other"} /\ Holds(x) /\ Forget(m)
          /\ (IF x.kind = "vague" THEN Notes(x.printer) ELSE UNCHANGED noted)
          /\ UNCHANGED snap
  /\ UNCHANGED <<device, pregate>>

\* Guardian asks for the health and reconciles at once.
Guardian(p) ==
  /\ gate # "refresh" /\ Reconcile(snap[p])
  /\ UNCHANGED <<device, reports, pregate, noted>>

\* Faulty (FaultClears): a run whose last gate blocked is not refreshed.
GateRefreshesOpen ==
  /\ gate \in {"idle", "passed"} /\ gate' = "refresh"
  /\ LET due == {a[1] : a \in auto}
     IN  todo' = {p \in due : Cardinality({q \in due : q < p}) < Profiles}
  /\ UNCHANGED <<device, reports, alerts, noted>>

\* refresh_before_gate: the first profiles of those with an alert that a
\* report may resolve, one after the other.
GateRefreshes ==
  /\ gate # "refresh" /\ gate' = "refresh"
  /\ LET due == {a[1] : a \in auto}
     IN  todo' = {p \in due : Cardinality({q \in due : q < p}) < Profiles}
  /\ UNCHANGED <<device, reports, alerts, noted>>

\* Under a stop or an active safety source nothing is asked.
GateHeld ==
  /\ gate # "refresh" /\ gate' = "blocked"
  /\ UNCHANGED <<device, reports, alerts, todo, noted>>

GateAsks ==
  /\ reads["gate"] = NoReport
  /\ \E p \in todo :
       /\ \A q \in todo : p <= q
       /\ todo' = todo \ {p}
       /\ reads' = [reads EXCEPT !["gate"] = snap[p]]
  /\ UNCHANGED <<device, snap, alerts, gate, noted>>

GateReads ==
  /\ reads["gate"] # NoReport
  /\ Reconcile(reads["gate"]) /\ Forget("gate")
  /\ UNCHANGED <<device, snap, pregate, noted>>

\* An exception or the timeout of eight seconds: the answer is not used.
GateTimesOut ==
  /\ reads["gate"] # NoReport /\ Forget("gate")
  /\ UNCHANGED <<device, snap, alerts, pregate, noted>>

\* The gate blocks on an active alert; it may also do so on its other rules.
GateDecides ==
  /\ gate = "refresh" /\ todo = {} /\ reads["gate"] = NoReport
  /\ gate' \in {"blocked"} \cup (IF NoAlert THEN {"passed"} ELSE {})
  /\ UNCHANGED <<device, reports, alerts, todo, noted>>

Next ==
  \/ \E p \in Printers : Changes(p) \/ NextJob(p) \/ Receives(p) \/ Guardian(p)
  \/ \E m \in Monitors : (\E p \in Printers : Fetches(m, p)) \/ Delivers(m)
  \/ GateRefreshes \/ GateHeld \/ GateAsks \/ GateReads \/ GateTimesOut
  \/ GateDecides

\* Reports keep coming, workers deliver, the run comes to its next gate, and
\* not every report is stale or late; the GUI's monitor need not be open.
Fairness ==
  /\ \A p \in Printers : WF_vars(Receives(p))
  /\ \A m \in Monitors : WF_vars(Delivers(m))
  /\ WF_vars(GateRefreshes) /\ WF_vars(GateAsks) /\ WF_vars(GateDecides)
  /\ WF_vars(GateReads)
  /\ \A p \in Printers :
       SF_vars(GateReads /\ reads["gate"].printer = p /\ auto' # auto)

Spec == Init /\ [][Next]_vars /\ Fairness

-----------------------------------------------------------------------------
(* Properties *)

AlertsTypeOK ==
  /\ cond \in [Printers -> Conditions] /\ job \in [Printers -> Jobs]
  /\ snap \in [Printers -> Reports] /\ reads \in [Readers -> Reports]
  /\ auto \subseteq Printers \X Jobs
  /\ held \subseteq Printers \X {"error", "other"}
  /\ health \in {"ready", "error", "other"}
  /\ gate \in {"idle", "refresh", "passed", "blocked"}
  /\ todo \subseteq Printers /\ noted \subseteq Printers

\* An error that stands and was recorded has an active alert, which blocks
\* the gates: no report from before it, however late it is delivered and by
\* whatever reader, has resolved it.
FaultIsBlocking ==
  \A p \in noted : \E a \in auto \cup held : a[1] = p

\* The health of the printers is bad exactly while an alert is active; a PLC
\* resume is refused for an error there.
HealthTellsActive == (health = "ready") <=> NoAlert

\* A printer that stays healthy has its resolvable alerts resolved, also when
\* no browser is open: each gate asks for it again.
FaultClears ==
  \A p \in Printers :
    <>[](cond[p] = "healthy") => <>[](\A a \in auto : a[1] # p)

=============================================================================
