------------------------ MODULE HardwareAlertsProofs ------------------------
(***************************************************************************)
(* What holds of the printers' alerts for any printers, jobs and handlers  *)
(* of the monitor: the types, FaultIsBlocking and HealthTellsActive.       *)
(***************************************************************************)
EXTENDS HardwareAlerts, TLAPS

\* An alert of p that no report under way can resolve: one with the explicit
\* policy, or one that was seen after all of p's healthy reports.
Backed(p) ==
  \/ \E c \in {"error", "other"} : <<p, c>> \in held
  \/ \E j \in Jobs :
       /\ <<p, j>> \in auto
       /\ \A x \in InFlight :
            x.kind = "healthy" /\ x.printer = p => j \notin x.newer

FaultInv  == \A p \in noted : cond[p] = "error" /\ Backed(p)
HealthInv == HealthTellsActive /\ (health = "other" => held # {})

\* What a reconciled report leaves: fewer alerts, and none less of those it is
\* not newer than.
LEMMA ReconcileKeeps ==
  ASSUME NEW x \in Reports, Reconcile(x)
  PROVE  /\ auto' \subseteq auto /\ UNCHANGED held
         /\ \A a \in auto : a \notin Resolves(x) => a \in auto'
  BY DEF Reconcile, Resolves

\* The types of a report's parts.
LEMMA ReportTypes ==
  ASSUME NEW x \in Reports
  PROVE  /\ x.kind \in {"none", "healthy", "error", "vague", "other"}
         /\ x.kind = "none" <=> x = NoReport
         /\ x.kind = "healthy" => x \in HealthyReports
         /\ x.kind \in {"error", "vague", "other"} => x \in FailingReports
  BY DEF Reports, NoReport, HealthyReports, FailingReports

LEMMA SeenTypes ==
  ASSUME NEW x \in Reports, NEW p \in Printers, NEW j \in Jobs
  PROVE  Seen(x, p, j) \in Reports
<1>1. CASE x \in HealthyReports
  BY <1>1 DEF Seen, Reports, HealthyReports
<1>2. CASE x \notin HealthyReports
  BY <1>2, ReportTypes DEF Seen
<1> QED BY <1>1, <1>2

LEMMA TypeInit == Init => AlertsTypeOK
  BY DEF Init, AlertsTypeOK, Conditions, Reports

LEMMA ReconcileTypes ==
  ASSUME AlertsTypeOK, NEW x \in Reports, Reconcile(x)
  PROVE  /\ auto' \subseteq Printers \X Jobs
         /\ held' \subseteq Printers \X {"error", "other"}
         /\ health' \in {"ready", "error", "other"}
  BY DEF AlertsTypeOK, Reconcile

LEMMA DeliversTypes ==
  ASSUME AlertsTypeOK, NEW m \in Monitors, Delivers(m)
  PROVE  AlertsTypeOK'
<1> DEFINE x == reads[m]
<1>1. x \in Reports /\ m \in Readers
  BY DEF AlertsTypeOK, Readers
<1>2. UNCHANGED <<cond, job, gate, todo>>
  BY DEF Delivers, device, pregate
<1>3. NoReport \in Reports
  BY DEF Reports
<1>4. CASE x.kind = "healthy" /\ Reconcile(x) /\ Forget(m)
           /\ UNCHANGED <<snap, noted>>
  BY <1>1, <1>2, <1>3, <1>4, ReconcileTypes DEF AlertsTypeOK, Forget
<1>5. CASE x.kind = "error" /\ Sights(m, x) /\ Notes(x.printer)
  <2>1. x.printer \in Printers /\ x.job \in Jobs
    BY <1>1, <1>5, ReportTypes DEF FailingReports
  <2>2. snap' \in [Printers -> Reports] /\ reads' \in [Readers -> Reports]
    BY <1>3, <1>5, <2>1, SeenTypes DEF Sights, AlertsTypeOK
  <2>3. noted' \subseteq Printers
    BY <1>5, <2>1 DEF Notes, AlertsTypeOK
  <2>4. /\ auto' \subseteq Printers \X Jobs /\ held' = held
        /\ health' = "error"
    BY <1>5, <2>1 DEF Sights, AlertsTypeOK
  <2> QED BY <1>2, <2>2, <2>3, <2>4 DEF AlertsTypeOK
<1>6. CASE /\ x.kind \in {"vague", "other"} /\ Holds(x) /\ Forget(m)
           /\ (IF x.kind = "vague" THEN Notes(x.printer) ELSE UNCHANGED noted)
           /\ UNCHANGED snap
  <2>1. x.printer \in Printers
    BY <1>1, <1>6, ReportTypes DEF FailingReports
  <2>2. noted' \subseteq Printers
    BY <1>6, <2>1 DEF Notes, AlertsTypeOK
  <2>3. /\ auto' = auto /\ held' \subseteq Printers \X {"error", "other"}
        /\ health' \in {"error", "other"}
    BY <1>6, <2>1 DEF Holds, AlertsTypeOK
  <2>4. reads' \in [Readers -> Reports]
    BY <1>3, <1>6 DEF Forget, AlertsTypeOK
  <2> QED BY <1>2, <1>6, <2>2, <2>3, <2>4 DEF AlertsTypeOK
<1> QED BY <1>4, <1>5, <1>6 DEF Delivers

LEMMA TypeStep == AlertsTypeOK /\ [Next]_vars => AlertsTypeOK'
<1> SUFFICES ASSUME AlertsTypeOK, [Next]_vars PROVE AlertsTypeOK'
  OBVIOUS
<1> USE DEF device, reports, alerts, pregate
<1>g. "gate" \in Readers /\ NoReport \in Reports
  BY DEF Readers, Reports
<1>1. CASE UNCHANGED vars
  BY <1>1 DEF vars, AlertsTypeOK
<1>2. ASSUME NEW p \in Printers, Changes(p) PROVE AlertsTypeOK'
  BY <1>2 DEF Changes, AlertsTypeOK
<1>3. ASSUME NEW p \in Printers, NextJob(p) PROVE AlertsTypeOK'
  BY <1>3 DEF NextJob, AlertsTypeOK
<1>4. ASSUME NEW p \in Printers, Receives(p) PROVE AlertsTypeOK'
  <2>1. /\ Healthy(p, Jobs) \in Reports
        /\ \A k \in {"error", "vague", "other"} :
             Failing(k, p, job[p]) \in Reports
    BY DEF Healthy, Failing, Reports, HealthyReports, FailingReports,
           AlertsTypeOK
  <2>2. PICK x \in Reports : snap' = [snap EXCEPT ![p] = x]
    BY <1>4, <2>1 DEF Receives
  <2> QED BY <1>4, <2>2 DEF Receives, AlertsTypeOK
<1>5. ASSUME NEW p \in Printers, Guardian(p) PROVE AlertsTypeOK'
  <2>1. snap[p] \in Reports /\ Reconcile(snap[p])
    BY <1>5 DEF Guardian, AlertsTypeOK
  <2> QED BY <1>5, <2>1, ReconcileTypes DEF Guardian, AlertsTypeOK
<1>6. ASSUME NEW m \in Monitors, NEW p \in Printers, Fetches(m, p)
      PROVE AlertsTypeOK'
  BY <1>6 DEF Fetches, AlertsTypeOK, Readers
<1>7. ASSUME NEW m \in Monitors, Delivers(m) PROVE AlertsTypeOK'
  BY <1>7, DeliversTypes
<1>8. CASE GateRefreshes
  BY <1>8 DEF GateRefreshes, AlertsTypeOK
<1>9. CASE GateHeld
  BY <1>9 DEF GateHeld, AlertsTypeOK
<1>10. CASE GateAsks
  BY <1>10, <1>g DEF GateAsks, AlertsTypeOK
<1>11. CASE GateReads
  <2>1. reads["gate"] \in Reports /\ Reconcile(reads["gate"])
    BY <1>11, <1>g DEF GateReads, AlertsTypeOK
  <2> QED BY <1>11, <1>g, <2>1, ReconcileTypes
          DEF GateReads, Forget, AlertsTypeOK
<1>12. CASE GateTimesOut
  BY <1>12, <1>g DEF GateTimesOut, Forget, AlertsTypeOK
<1>13. CASE GateDecides
  BY <1>13 DEF GateDecides, AlertsTypeOK
<1> QED BY <1>1, <1>2, <1>3, <1>4, <1>5, <1>6, <1>7, <1>8, <1>9, <1>10,
           <1>11, <1>12, <1>13 DEF Next

\* Every state has the types of AlertsTypeOK.
THEOREM AlertTypes == Spec => []AlertsTypeOK
  BY TypeInit, TypeStep, PTL DEF Spec

-----------------------------------------------------------------------------

\* An alert that no report under way resolves survives a reconciliation.
LEMMA ReconcileBacks ==
  ASSUME NEW p \in Printers, Backed(p), NEW x \in InFlight, x \in Reports,
         Reconcile(x), InFlight' \subseteq InFlight \cup {NoReport}
  PROVE  Backed(p)'
<1>1. CASE \E c \in {"error", "other"} : <<p, c>> \in held
  BY <1>1, ReconcileKeeps DEF Backed
<1>2. CASE \E j \in Jobs :
             /\ <<p, j>> \in auto
             /\ \A y \in InFlight :
                  y.kind = "healthy" /\ y.printer = p => j \notin y.newer
  <2>1. PICK j \in Jobs :
          /\ <<p, j>> \in auto
          /\ \A y \in InFlight :
               y.kind = "healthy" /\ y.printer = p => j \notin y.newer
    BY <1>2
  <2>2. <<p, j>> \notin Resolves(x)
    BY <2>1 DEF Resolves
  <2>3. <<p, j>> \in auto'
    BY <2>1, <2>2, ReconcileKeeps
  <2>4. \A y \in InFlight' :
          y.kind = "healthy" /\ y.printer = p => j \notin y.newer
    BY <2>1 DEF NoReport
  <2> QED BY <2>3, <2>4 DEF Backed
<1> QED BY <1>1, <1>2 DEF Backed

\* Alerts that are only added to, and reports that are only moved, dropped, or
\* received while the printer fails, leave an alert backed.
LEMMA MoreBacks ==
  ASSUME NEW p \in Printers, Backed(p), auto \subseteq auto',
         held \subseteq held',
         \A y \in InFlight' : \/ y \in InFlight
                              \/ y.kind = "healthy" => y.printer # p
  PROVE  Backed(p)'
  BY DEF Backed

LEMMA SeenNewer ==
  ASSUME NEW x \in Reports, NEW q \in Printers, NEW i \in Jobs
  PROVE  /\ Seen(x, q, i).kind = x.kind
         /\ x.kind = "healthy" =>
              /\ Seen(x, q, i).printer = x.printer
              /\ Seen(x, q, i).newer \subseteq x.newer
              /\ x.printer = q => i \notin Seen(x, q, i).newer
<1>1. CASE x \in HealthyReports
  BY <1>1 DEF Seen, HealthyReports
<1>2. CASE x \notin HealthyReports
  BY <1>2, ReportTypes DEF Seen
<1> QED BY <1>1, <1>2

\* What is under way after a sighting was under way before, and is not newer
\* than what was seen.
LEMMA SightsInFlight ==
  ASSUME AlertsTypeOK, NEW r \in Readers, NEW x \in FailingReports,
         Sights(r, x), NEW y \in InFlight', y.kind = "healthy"
  PROVE  /\ y.printer = x.printer => x.job \notin y.newer
         /\ \E z \in InFlight : /\ z.kind = "healthy" /\ z.printer = y.printer
                                /\ y.newer \subseteq z.newer
<1>1. x.printer \in Printers /\ x.job \in Jobs
  BY DEF FailingReports
<1>2. \E z \in InFlight : z \in Reports /\ y = Seen(z, x.printer, x.job)
  <2>1. CASE \E p \in Printers : y = snap'[p]
    BY <2>1 DEF Sights, InFlight, AlertsTypeOK
  <2>2. CASE \E m \in Readers : y = reads'[m]
    BY <2>2 DEF Sights, InFlight, AlertsTypeOK, NoReport
  <2> QED BY <2>1, <2>2 DEF InFlight
<1> QED BY <1>1, <1>2, SeenNewer

LEMMA DeliversBacks ==
  ASSUME AlertsTypeOK, FaultInv, NEW m \in Monitors, Delivers(m)
  PROVE  FaultInv'
<1> SUFFICES ASSUME NEW p \in noted' PROVE cond'[p] = "error" /\ Backed(p)'
  BY DEF FaultInv
<1> DEFINE x == reads[m]
<1>1. /\ x \in Reports /\ x \in InFlight /\ m \in Readers /\ p \in Printers
      /\ cond' = cond
  BY DeliversTypes DEF AlertsTypeOK, Readers, InFlight, Delivers, device
<1>2. ASSUME Forget(m), snap' = snap
      PROVE  InFlight' \subseteq InFlight \cup {NoReport}
  BY <1>2 DEF Forget, InFlight, AlertsTypeOK
<1>3. CASE x.kind = "healthy" /\ Reconcile(x) /\ Forget(m)
           /\ UNCHANGED <<snap, noted>>
  <2>1. cond[p] = "error" /\ Backed(p)
    BY <1>3 DEF FaultInv
  <2>2. InFlight' \subseteq InFlight \cup {NoReport}
    BY <1>2, <1>3
  <2> QED BY <1>1, <1>3, <2>1, <2>2, ReconcileBacks
<1>4. CASE x.kind = "error" /\ Sights(m, x) /\ Notes(x.printer)
  <2>1. x \in FailingReports /\ x.printer \in Printers /\ x.job \in Jobs
    BY <1>1, <1>4, ReportTypes DEF FailingReports
  <2>2. /\ auto' = auto \cup {<<x.printer, x.job>>} /\ held' = held
    BY <1>4 DEF Sights
  <2>3. CASE p = x.printer /\ cond[p] = "error"
    <3>1. \A y \in InFlight' :
            y.kind = "healthy" /\ y.printer = p => x.job \notin y.newer
      BY <1>1, <1>4, <2>1, <2>3, SightsInFlight
    <3> QED BY <1>1, <2>1, <2>2, <2>3, <3>1 DEF Backed
  <2>4. CASE ~(p = x.printer /\ cond[p] = "error")
    <3>1. cond[p] = "error" /\ Backed(p)
      BY <1>4, <2>4 DEF Notes, FaultInv
    <3>2. CASE \E c \in {"error", "other"} : <<p, c>> \in held
      BY <1>1, <2>2, <3>1, <3>2 DEF Backed
    <3>3. CASE \E j \in Jobs :
                 /\ <<p, j>> \in auto
                 /\ \A y \in InFlight :
                      y.kind = "healthy" /\ y.printer = p => j \notin y.newer
      <4>1. PICK j \in Jobs :
              /\ <<p, j>> \in auto
              /\ \A y \in InFlight :
                   y.kind = "healthy" /\ y.printer = p => j \notin y.newer
        BY <3>3
      <4>2. \A y \in InFlight' :
              y.kind = "healthy" /\ y.printer = p => j \notin y.newer
        BY <1>1, <1>4, <2>1, <4>1, SightsInFlight
      <4> QED BY <1>1, <2>2, <3>1, <4>1, <4>2 DEF Backed
    <3> QED BY <3>1, <3>2, <3>3 DEF Backed
  <2> QED BY <2>3, <2>4
<1>5. CASE /\ x.kind \in {"vague", "other"} /\ Holds(x) /\ Forget(m)
           /\ (IF x.kind = "vague" THEN Notes(x.printer) ELSE UNCHANGED noted)
           /\ UNCHANGED snap
  <2>1. auto' = auto /\ held \subseteq held'
    BY <1>5 DEF Holds
  <2>2. \A y \in InFlight' : y \in InFlight \/ y.kind # "healthy"
    BY <1>2, <1>5 DEF NoReport
  <2>3. CASE p \in noted
    <3>1. cond[p] = "error" /\ Backed(p)
      BY <2>3 DEF FaultInv
    <3> QED BY <1>1, <2>1, <2>2, <3>1, MoreBacks
  <2>4. CASE p \notin noted
    <3>1. x.kind = "vague" /\ p = x.printer /\ cond[p] = "error"
      BY <1>5, <2>4 DEF Notes
    <3>2. <<p, "error">> \in held'
      BY <1>5, <3>1 DEF Holds
    <3> QED BY <1>1, <3>1, <3>2 DEF Backed
  <2> QED BY <2>3, <2>4
<1> QED BY <1>3, <1>4, <1>5 DEF Delivers

LEMMA FaultStep ==
  AlertsTypeOK /\ FaultInv /\ [Next]_vars => FaultInv'
<1> SUFFICES ASSUME AlertsTypeOK, FaultInv, [Next]_vars PROVE FaultInv'
  OBVIOUS
<1> USE DEF device, reports, alerts, pregate
\* Steps that leave the alerts and the condition of what is noted alone.
<1>q. ASSUME noted' \subseteq noted, UNCHANGED <<auto, held>>,
             \A p \in noted' : cond'[p] = cond[p],
             \A p \in noted' : \A y \in InFlight' :
               y \in InFlight \/ (y.kind = "healthy" => y.printer # p)
      PROVE  FaultInv'
  <2> SUFFICES ASSUME NEW p \in noted' PROVE cond'[p] = "error" /\ Backed(p)'
    BY DEF FaultInv
  <2>1. p \in Printers /\ cond[p] = "error" /\ Backed(p)
    BY <1>q DEF FaultInv, AlertsTypeOK
  <2> QED BY <1>q, <2>1, MoreBacks
\* Steps that reconcile a report under way.
<1>r. ASSUME NEW x \in InFlight, Reconcile(x), UNCHANGED <<noted, cond>>,
             InFlight' \subseteq InFlight \cup {NoReport}
      PROVE  FaultInv'
  <2> SUFFICES ASSUME NEW p \in noted' PROVE cond'[p] = "error" /\ Backed(p)'
    BY DEF FaultInv
  <2>1. /\ p \in Printers /\ cond[p] = "error" /\ Backed(p)
        /\ x \in Reports
    BY <1>r DEF FaultInv, AlertsTypeOK, InFlight
  <2> QED BY <1>r, <2>1, ReconcileBacks
<1>g. "gate" \in Readers
  BY DEF Readers
<1>1. CASE UNCHANGED vars
  BY <1>1, <1>q DEF vars, InFlight
<1>2. ASSUME NEW p \in Printers, Changes(p) PROVE FaultInv'
  <2>1. \A q \in noted' : q \in noted /\ cond'[q] = cond[q]
    BY <1>2 DEF Changes, AlertsTypeOK
  <2> QED BY <1>2, <1>q, <2>1 DEF Changes, InFlight
<1>3. ASSUME NEW p \in Printers, NextJob(p) PROVE FaultInv'
  BY <1>3, <1>q DEF NextJob, InFlight
<1>4. ASSUME NEW p \in Printers, Receives(p) PROVE FaultInv'
  <2>1. PICK x : /\ snap' = [snap EXCEPT ![p] = x]
                 /\ x.kind = "healthy" => cond[p] # "error" /\ x.printer = p
    <3>1. /\ Healthy(p, Jobs).printer = p
          /\ \A k \in {"error", "vague", "other"} :
               Failing(k, p, job[p]).kind = k
      BY DEF Healthy, Failing
    <3>2. CASE cond[p] = "healthy"
      BY <1>4, <3>1, <3>2 DEF Receives
    <3>3. CASE cond[p] = "error"
      BY <1>4, <3>1, <3>3 DEF Receives
    <3>4. CASE cond[p] # "healthy" /\ cond[p] # "error"
      BY <1>4, <3>1, <3>4 DEF Receives
    <3> QED BY <3>2, <3>3, <3>4
  <2>2. \A y \in InFlight' : y \in InFlight \/ y = x
    BY <1>4, <2>1 DEF Receives, InFlight, AlertsTypeOK
  <2>3. \A q \in noted : cond[q] = "error"
    BY DEF FaultInv
  <2>4. UNCHANGED <<auto, held, noted, cond>>
    BY <1>4 DEF Receives
  <2>5. \A q \in noted' : \A y \in InFlight' :
          y \in InFlight \/ (y.kind = "healthy" => y.printer # q)
    BY <2>1, <2>2, <2>3, <2>4
  <2> QED BY <2>4, <2>5, <1>q
<1>5. ASSUME NEW p \in Printers, Guardian(p) PROVE FaultInv'
  <2>1. snap[p] \in InFlight
    BY DEF InFlight
  <2> QED BY <1>5, <1>r, <2>1 DEF Guardian, InFlight
<1>6. ASSUME NEW m \in Monitors, NEW p \in Printers, Fetches(m, p)
      PROVE FaultInv'
  <2>1. \A y \in InFlight' : y \in InFlight
    BY <1>6 DEF Fetches, InFlight, AlertsTypeOK
  <2> QED BY <1>6, <1>q, <2>1 DEF Fetches
<1>7. ASSUME NEW m \in Monitors, Delivers(m) PROVE FaultInv'
  BY <1>7, DeliversBacks
<1>8. CASE GateRefreshes
  BY <1>8, <1>q DEF GateRefreshes, InFlight
<1>9. CASE GateHeld
  BY <1>9, <1>q DEF GateHeld, InFlight
<1>10. CASE GateAsks
  <2>1. \A y \in InFlight' : y \in InFlight
    BY <1>10 DEF GateAsks, InFlight, AlertsTypeOK
  <2> QED BY <1>10, <1>q, <2>1 DEF GateAsks
<1>11. CASE GateReads
  <2>1. reads["gate"] \in InFlight
    BY <1>g DEF InFlight
  <2>2. InFlight' \subseteq InFlight \cup {NoReport}
    BY <1>11 DEF GateReads, Forget, InFlight, AlertsTypeOK
  <2> QED BY <1>11, <1>r, <2>1, <2>2 DEF GateReads
<1>12. CASE GateTimesOut
  <2>1. InFlight' \subseteq InFlight \cup {NoReport}
    BY <1>12 DEF GateTimesOut, Forget, InFlight, AlertsTypeOK
  <2>2. \A y \in InFlight' : y \in InFlight \/ y.kind # "healthy"
    BY <2>1 DEF NoReport
  <2> QED BY <1>12, <1>q, <2>2 DEF GateTimesOut
<1>13. CASE GateDecides
  BY <1>13, <1>q DEF GateDecides, InFlight
<1> QED BY <1>1, <1>2, <1>3, <1>4, <1>5, <1>6, <1>7, <1>8, <1>9, <1>10,
           <1>11, <1>12, <1>13 DEF Next

\* An error that stands and that the monitor has recorded has an active alert,
\* however late and in whatever order the readers deliver their reports.
THEOREM StandingFaultsBlock == Spec => []FaultIsBlocking
<1>1. Init => FaultInv
  BY DEF Init, FaultInv
<1>2. AlertsTypeOK /\ FaultInv => FaultIsBlocking
  <2> SUFFICES ASSUME FaultInv, NEW p \in noted
               PROVE  \E a \in auto \cup held : a[1] = p
    BY DEF FaultIsBlocking
  <2>1. PICK d : <<p, d>> \in auto \cup held
    BY DEF FaultInv, Backed
  <2>2. <<p, d>>[1] = p
    OBVIOUS
  <2> QED BY <2>1, <2>2
<1> QED BY <1>1, <1>2, FaultStep, AlertTypes, PTL DEF Spec

-----------------------------------------------------------------------------

LEMMA ReconcileHealth ==
  ASSUME AlertsTypeOK, HealthInv, NEW x \in Reports, Reconcile(x)
  PROVE  HealthInv'
<1>1. CASE auto' # auto /\ auto' = {} /\ held = {} /\ health = "error"
  BY <1>1 DEF Reconcile, HealthInv, HealthTellsActive, NoAlert
<1>2. CASE ~(auto' # auto /\ auto' = {} /\ held = {} /\ health = "error")
  <2>1. health' = health /\ held' = held /\ auto' \subseteq auto
    BY <1>2 DEF Reconcile
  <2>2. health \in {"ready", "error", "other"}
    BY DEF AlertsTypeOK
  <2>3. (auto' = {} /\ held = {}) => (auto = {} /\ held = {})
    BY <1>2, <2>1, <2>2 DEF HealthInv, HealthTellsActive, NoAlert
  <2> QED BY <2>1, <2>3 DEF HealthInv, HealthTellsActive, NoAlert
<1> QED BY <1>1, <1>2

LEMMA HealthStep ==
  AlertsTypeOK /\ HealthInv /\ [Next]_vars => HealthInv'
<1> SUFFICES ASSUME AlertsTypeOK, HealthInv, [Next]_vars PROVE HealthInv'
  OBVIOUS
<1>q. ASSUME UNCHANGED alerts PROVE HealthInv'
  BY <1>q DEF alerts, HealthInv, HealthTellsActive, NoAlert
<1>1. CASE UNCHANGED vars
  BY <1>1, <1>q DEF vars
<1>2. ASSUME NEW p \in Printers, Changes(p) \/ NextJob(p) \/ Receives(p)
      PROVE HealthInv'
  BY <1>2, <1>q DEF Changes, NextJob, Receives
<1>3. ASSUME NEW p \in Printers, Guardian(p) PROVE HealthInv'
  BY <1>3, ReconcileHealth DEF Guardian, AlertsTypeOK
<1>4. ASSUME NEW m \in Monitors, NEW p \in Printers, Fetches(m, p)
      PROVE HealthInv'
  BY <1>4, <1>q DEF Fetches
<1>5. ASSUME NEW m \in Monitors, Delivers(m) PROVE HealthInv'
  <2> DEFINE x == reads[m]
  <2>1. x \in Reports
    BY DEF AlertsTypeOK, Readers
  <2>2. CASE Reconcile(x)
    BY <2>1, <2>2, ReconcileHealth
  <2>3. CASE Sights(m, x)
    BY <2>3 DEF Sights, HealthInv, HealthTellsActive, NoAlert
  <2>4. CASE Holds(x)
    BY <2>4 DEF Holds, HealthInv, HealthTellsActive, NoAlert
  <2> QED BY <1>5, <2>2, <2>3, <2>4 DEF Delivers
<1>6. CASE GateRefreshes \/ GateHeld \/ GateAsks \/ GateTimesOut \/ GateDecides
  BY <1>6, <1>q DEF GateRefreshes, GateHeld, GateAsks, GateTimesOut,
                    GateDecides
<1>7. CASE GateReads
  <2>1. reads["gate"] \in Reports
    BY DEF AlertsTypeOK, Readers
  <2> QED BY <1>7, <2>1, ReconcileHealth DEF GateReads
<1> QED BY <1>1, <1>2, <1>3, <1>4, <1>5, <1>6, <1>7 DEF Next

\* The printers' health is bad exactly while one of their alerts is active.
THEOREM HealthIsTrue == Spec => []HealthTellsActive
<1>1. Init => HealthInv
  BY DEF Init, HealthInv, HealthTellsActive, NoAlert
<1>2. HealthInv => HealthTellsActive
  BY DEF HealthInv
<1> QED BY <1>1, <1>2, HealthStep, AlertTypes, PTL DEF Spec

=============================================================================
