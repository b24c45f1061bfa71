--------------------------- MODULE PlcBridgeProofs ---------------------------
(***************************************************************************)
(* Service and Controller agree on what is latched.  Two invariants: one   *)
(* of the handshake, which needs no assumption, and one of the latches,    *)
(* for samples that stay within the register contract.  Without that, a    *)
(* garbled first sample after a restart makes the service take up a        *)
(* handshake it should reconcile, and the latches do disagree.             *)
(***************************************************************************)
EXTENDS PlcBridge, TLAPS

Ctls == [sources : SUBSET Recoverable, estop : BOOLEAN, context : BOOLEAN,
         interrupted : BOOLEAN, run : {"idle", "running", "ending"}]
Samples == Words \cup {NoSnapshot, Garbled}
Svcs == [connected : BOOLEAN, fresh : BOOLEAN, previous : Samples,
         sources : SUBSET Latched, confirmed : SUBSET Latched,
         origins : SUBSET Latched, deferred : SUBSET Latched,
         safety : {"clear", "latched", "fault"}]
Txs == [phase : Phases, command : 0..2, sources : SUBSET Latched, pcset : BOOLEAN]
Answers == {"none", "ready", "unsafe", "rejected"}
Polls == [at : Holding \cup {"off", "idle", "held"}, recon : BOOLEAN,
          seen : Samples, answer : Answers]
Hists == [cut : BOOLEAN, zero : BOOLEAN, recovered : BOOLEAN, pb2 : BOOLEAN]

Latching == {"latching", "stopping"}
Syncs == {"no", "waiting", "write", "readback"} \cup Latching

\* A run is in sync_estop exactly when it ends in an error; it had no checkpoint.
Errs(c, s) ==
    /\ s \in Syncs
    /\ s # "no" <=> c.run = "ending"
    /\ c.run = "ending" => ~c.context

TypeInv == PlcTypeOK /\ (ctl.run = "ending" => ~ctl.context)

\* The snapshot is in hand.
Judging == {"held", "estop", "ensured"}

\* Where a handshake is decides its phase.
Placed ==
    /\ poll.at \in {"assert", "assertRead", "undo"} => tx.phase = "validated"
    /\ poll.at \in {"lower", "lowerRead", "finish"} => tx.phase = "release_observed"
    /\ poll.at \in {"estop", "ensured"} => ~Fault(poll.seen)

\* A zero that was seen since the acknowledgement is on record; the Controller was not
\* yet released for a transaction whose release is still to be observed.
Recorded ==
    /\ (tx.phase \in {"acknowledged", "release_observed"} \/ poll.at = "assertRead")
         => (plc = Zero => hist.zero)
    /\ tx.phase = "acknowledged" /\ poll.at \in Judging /\ poll.seen = Zero => hist.zero
    /\ (tx.phase \in {"validated", "acknowledged"} \/ poll.at \in {"lower", "lowerRead"})
         => ~hist.recovered

HandshakeInv == TypeInv /\ Placed /\ Recorded

\* One task at a time is under the lock; what is being latched stays latched.
Exclusive ==
    /\ poll.at \in Holding => sync \in {"no", "waiting"}
    /\ sync \in Latching => ctl.estop /\ Terminal \in svc.sources \cap ctl.sources

-----------------------------------------------------------------------------
\* The samples stay within the contract.
InContract ==
    /\ left["garbled"] = 0
    /\ plc[2] = 0 => plc[1] = 0
    /\ poll.at \in Judging => ~Fault(poll.seen)

\* The two latches.
Agreed ==
    /\ svc.confirmed \cup svc.origins \subseteq svc.sources
    /\ poll.at # "finish" => svc.confirmed \subseteq ctl.sources
    /\ svc.confirmed # {} /\ poll.at # "finish" => ctl.estop
    /\ ctl.estop => ctl.run # "running" \/ halting \/ poll.at = "estop"
    /\ poll.at \in {"estop", "ensured"} =>
         /\ ctl.estop /\ poll.seen[2] = 1
         /\ Asserted(svc, poll.seen) \subseteq svc.sources \cap ctl.sources
    /\ poll.at = "estop" => svc.confirmed = {}

\* What is judged next is judged as the same connection's, and not reconciled.
Trusted ==
    /\ poll.at = "idle" => ~svc.fresh /\ (svc.connected \/ sync \in {"write", "readback"})
    /\ poll.at \in Judging => ~poll.recon

\* What of a service's sources is certain, and what a handshake has to release.
FirmOf(v) == v.sources \cap (v.confirmed \cup {PB2})
DueOf(v) == v.confirmed \cup v.origins \cup (v.sources \cap {PB2})

\* The handshake releases all that is latched, also what is latched while it lasts.
Covers ==
    /\ poll.at \in {"reassert", "reassertRead", "clear", "clearRead", "off", "retry"}
         => ~Active
    /\ Active /\ Trusted =>
         /\ DueOf(svc) \subseteq tx.sources
         /\ poll.at \in Judging \cup {"idle"} => tx.phase = "acknowledged"
         /\ poll.at \in Judging \cup {"idle", "assert", "assertRead"}
              => svc.origins # {} \/ PB2 \in tx.sources
    /\ poll.at = "retry" => svc.origins # {} \/ PB2 \in svc.sources
    /\ poll.at = "held" /\ Active => svc.connected

\* What a restart would find.
Closed == tx.phase \in {"none", "completed"}
Durable ==
    /\ ~Closed \/ sync \in {"write", "readback"} => tx.sources # {}
    /\ poll.at \in {"expire", "expireRead", "clear", "clearRead"} => ~Closed
    /\ poll.at \in {"reassert", "reassertRead"} => svc.sources # {}
    /\ Closed => plc[3] = 0
    /\ poll.at \in Judging /\ poll.seen[3] = 0 => plc[3] = 0
    /\ poll.at \in Judging /\ Closed /\ poll.seen[2] = 1 => plc[2] = 1
    /\ poll.at = "finish" => plc[3] = 0
    /\ Closed /\ Firm # {} => plc[2] = 1

LatchInv == HandshakeInv /\ Exclusive /\ InContract /\ Agreed /\ Covers /\ Durable

-----------------------------------------------------------------------------
(* The registers. *)

\* A word of the contract is three numbers.
LEMMA WordIs ==
    ASSUME NEW w
    PROVE  w \in Words <=>
             \E a \in {0, 1, 2}, b \in {0, 1}, d \in {0, 1} : w = <<a, b, d>>
  BY DEF Words

LEMMA WordParts ==
    ASSUME NEW w \in Words
    PROVE  /\ w[1] \in {0, 1, 2} /\ w[2] \in {0, 1} /\ w[3] \in {0, 1}
           /\ w = <<w[1], w[2], w[3]>>
  <1>1. PICK a \in {0, 1, 2}, b \in {0, 1}, d \in {0, 1} : w = <<a, b, d>>
    BY WordIs
  <1> QED
    BY <1>1

LEMMA WordZero ==
    ASSUME NEW w \in Words
    PROVE  /\ w = Zero <=> w[1] = 0 /\ w[2] = 0 /\ w[3] = 0
           /\ w = <<0, 0, 1>> <=> w[1] = 0 /\ w[2] = 0 /\ w[3] = 1
           /\ w = <<1, 1, 0>> <=> w[1] = 1 /\ w[2] = 1 /\ w[3] = 0
  BY WordParts DEF Zero

\* What setting one register does.
LEMMA WordSet ==
    ASSUME NEW w \in Words
    PROVE  /\ \A a \in {0, 1, 2} : LET u == [w EXCEPT ![1] = a] IN
                u \in Words /\ u[1] = a /\ u[2] = w[2] /\ u[3] = w[3]
           /\ \A b \in {0, 1} : LET u == [w EXCEPT ![2] = b] IN
                u \in Words /\ u[1] = w[1] /\ u[2] = b /\ u[3] = w[3]
           /\ \A d \in {0, 1} : LET u == [w EXCEPT ![3] = d] IN
                u \in Words /\ u[1] = w[1] /\ u[2] = w[2] /\ u[3] = d
  <1>1. PICK x \in {0, 1, 2}, y \in {0, 1}, z \in {0, 1} : w = <<x, y, z>>
    BY WordIs
  <1>2. ASSUME NEW a \in {0, 1, 2}
        PROVE  LET u == [w EXCEPT ![1] = a] IN
                 u \in Words /\ u[1] = a /\ u[2] = w[2] /\ u[3] = w[3]
    <2>1. [w EXCEPT ![1] = a] = <<a, y, z>>
      BY <1>1
    <2> QED
      BY <1>1, <2>1, WordIs
  <1>3. ASSUME NEW b \in {0, 1}
        PROVE  LET u == [w EXCEPT ![2] = b] IN
                 u \in Words /\ u[1] = w[1] /\ u[2] = b /\ u[3] = w[3]
    <2>1. [w EXCEPT ![2] = b] = <<x, b, z>>
      BY <1>1
    <2> QED
      BY <1>1, <2>1, WordIs
  <1>4. ASSUME NEW d \in {0, 1}
        PROVE  LET u == [w EXCEPT ![3] = d] IN
                 u \in Words /\ u[1] = w[1] /\ u[2] = w[2] /\ u[3] = d
    <2>1. [w EXCEPT ![3] = d] = <<x, y, d>>
      BY <1>1
    <2> QED
      BY <1>1, <2>1, WordIs
  <1> QED
    BY <1>2, <1>3, <1>4

-----------------------------------------------------------------------------
(* The records the operators return. *)

LEMMA SvcRecord ==
    ASSUME NEW v \in Svcs
    PROVE  /\ v.connected \in BOOLEAN /\ v.fresh \in BOOLEAN /\ v.previous \in Samples
           /\ v.sources \subseteq Latched /\ v.confirmed \subseteq Latched
           /\ v.origins \subseteq Latched /\ v.deferred \subseteq Latched
           /\ v.safety \in {"clear", "latched", "fault"}
  BY DEF Svcs

LEMMA EnsuredIs ==
    ASSUME NEW v \in Svcs, NEW S \in SUBSET Latched
    PROVE  LET e == Ensured(v, S)
           IN  /\ e \in Svcs
               /\ e.sources = v.sources \cup S /\ e.confirmed = v.confirmed \cup S
               /\ e.origins = v.origins /\ e.deferred = v.deferred
               /\ e.connected = v.connected /\ e.fresh = v.fresh
               /\ e.previous = v.previous
  BY DEF Ensured, Svcs

LEMMA CachedIs ==
    ASSUME NEW v \in Svcs, NEW w \in Samples
    PROVE  LET e == Cached(v, w)
           IN  /\ e \in Svcs /\ e.connected = TRUE /\ e.fresh = v.fresh
               /\ e.sources = v.sources /\ e.confirmed = v.confirmed
               /\ e.origins = v.origins /\ e.deferred = v.deferred
  BY DEF Cached, Svcs

LEMMA DisconnectedIs ==
    ASSUME NEW v \in Svcs
    PROVE  LET e == Disconnected(v)
           IN  /\ e \in Svcs /\ e.connected = FALSE /\ e.fresh = v.fresh
               /\ e.sources = v.sources /\ e.confirmed = v.confirmed
               /\ e.origins = v.origins
  BY DEF Disconnected, Svcs

LEMMA WithdrawnIs ==
    ASSUME NEW v \in Svcs, NEW w
    PROVE  LET e == Withdrawn(v, w)
           IN  /\ e \in Svcs /\ e.connected = v.connected /\ e.fresh = v.fresh
               /\ e.sources = v.sources /\ e.confirmed = v.confirmed
               /\ e.origins = v.origins
               /\ w # <<1, 1, 0>> => e.deferred = {}
  BY DEF Withdrawn, DeferredMatches, Svcs

LEMMA ObservedIs ==
    ASSUME NEW v \in Svcs, NEW w
    PROVE  LET e == Observed(v, w)
           IN  /\ e \in Svcs /\ e.connected = v.connected /\ e.fresh = v.fresh
               /\ e.sources = v.sources /\ e.confirmed = v.confirmed
               /\ e.origins = v.origins /\ e.deferred = v.deferred
  BY DEF Observed, Svcs

LEMMA TakenIs ==
    ASSUME NEW v \in Svcs, NEW w \in Samples
    PROVE  LET e == Taken(v, w)
           IN  /\ e \in Svcs /\ e.connected = TRUE /\ e.fresh = FALSE
               /\ e.sources = v.sources /\ e.confirmed = v.confirmed
               /\ e.origins = IF w[2] = 0 THEN {} ELSE v.origins
               /\ w # <<1, 1, 0>> => e.deferred = {}
  <1> DEFINE x == Cached(v, w)
             u == Withdrawn(x, w)
  <1>0. /\ x \in Svcs /\ x.connected = TRUE /\ x.sources = v.sources
        /\ x.confirmed = v.confirmed /\ x.origins = v.origins
    BY CachedIs
  <1> HIDE DEF x
  <1>1. /\ u \in Svcs /\ u.connected = TRUE /\ u.sources = v.sources
        /\ u.confirmed = v.confirmed /\ u.origins = v.origins
        /\ w # <<1, 1, 0>> => u.deferred = {}
    BY <1>0, WithdrawnIs
  <1> DEFINE o == IF w[2] = 0 THEN {} ELSE u.origins
  <1>2. Taken(v, w) = [u EXCEPT !.fresh = FALSE, !.origins = o]
    BY DEF Taken, x
  <1>3. o \in SUBSET Latched /\ o = IF w[2] = 0 THEN {} ELSE v.origins
    BY <1>1, SvcRecord
  <1> HIDE DEF u, o
  <1>4. Taken(v, w) \in Svcs
    BY <1>1, <1>2, <1>3 DEF Svcs
  <1> QED
    BY <1>1, <1>2, <1>3, <1>4 DEF Svcs

LEMMA CtlRecord ==
    ASSUME NEW c \in Ctls
    PROVE  /\ c.sources \subseteq Recoverable /\ c.estop \in BOOLEAN
           /\ c.context \in BOOLEAN /\ c.interrupted \in BOOLEAN
           /\ c.run \in {"idle", "running", "ending"}
  BY DEF Ctls

LEMMA StoppedIs ==
    ASSUME NEW c \in Ctls, NEW S \in SUBSET Recoverable
    PROVE  LET e == Stopped(c, S)
           IN  /\ e \in Ctls /\ e.estop = TRUE /\ e.run = c.run
               /\ e.sources = c.sources \cup S /\ e.context = c.context
  BY DEF Stopped, Ctls

LEMMA CancelledIs ==
    ASSUME NEW c \in Ctls
    PROVE  LET e == Cancelled(c)
           IN  /\ e \in Ctls /\ e.run = "idle" /\ e.sources = c.sources
               /\ e.estop = c.estop /\ e.context = c.context
  BY DEF Cancelled, Ctls

LEMMA StoppedDeadIs ==
    ASSUME NEW c \in Ctls, NEW S \in SUBSET Recoverable
    PROVE  LET e == StoppedDead(c, S)
           IN  /\ e \in Ctls /\ e.estop = TRUE /\ e.context = c.context
               /\ e.sources = c.sources \cup S
               /\ e.run = IF c.estop THEN c.run ELSE "idle"
  <1>1. Stopped(c, S) \in Ctls
    BY StoppedIs
  <1> QED
    BY <1>1, StoppedIs, CancelledIs DEF StoppedDead

LEMMA RecoveredIs ==
    ASSUME NEW c \in Ctls, NEW command, NEW S
    PROVE  LET e == Recovered(c, command, S)
           IN  /\ e \in Ctls /\ e.estop = FALSE
               /\ e.run \in {"idle", "running", c.run}
               /\ e.run # "idle" => e.run = c.run \/ c.context
               /\ ~c.context /\ e.run # "idle" => e.run = c.run /\ ~e.context
               /\ e.sources \subseteq c.sources
  BY DEF Recovered, Resumed, FreshController, Ctls

LEMMA LatchedRecoverable ==
    /\ Latched \subseteq Recoverable
    /\ PB2 \in Latched
    /\ Terminal \in Latched
  BY DEF Latched, Recoverable

-----------------------------------------------------------------------------
(* Types. *)

LEMMA TypeParts ==
    TypeInv <=> /\ plc \in Words /\ ctl \in Ctls /\ halting \in BOOLEAN /\ svc \in Svcs
                /\ tx \in Txs /\ poll \in Polls /\ fast \in BOOLEAN
                /\ left \in [Events -> Nat] /\ hist \in Hists /\ Errs(ctl, sync)
  BY DEF TypeInv, PlcTypeOK, Ctls, Svcs, Txs, Polls, Hists, Errs, Samples, Answers,
         Syncs, Latching

LEMMA TypePartsNext ==
    ASSUME plc' \in Words, ctl' \in Ctls, halting' \in BOOLEAN, svc' \in Svcs,
           tx' \in Txs, poll' \in Polls, fast' \in BOOLEAN,
           left' \in [Events -> Nat], hist' \in Hists, Errs(ctl', sync')
    PROVE  TypeInv'
  BY DEF TypeInv, PlcTypeOK, Ctls, Svcs, Txs, Polls, Hists, Errs, Samples, Answers,
         Syncs, Latching

\* What is left of the budget.
LEMMA SpendTypes ==
    ASSUME left \in [Events -> Nat], NEW e \in Events, Spend(e)
    PROVE  left' \in [Events -> Nat] /\ \A k \in Events : left'[k] <= left[k]
  BY DEF Spend

LEMMA LeftKept ==
    ASSUME left \in [Events -> Nat], UNCHANGED left
    PROVE  left' \in [Events -> Nat] /\ \A k \in Events : left'[k] <= left[k]
  OBVIOUS

LEMMA RestIs ==
    /\ Rest => poll' \in Polls /\ poll'.at = "idle" /\ ~poll'.recon
    /\ \A pc \in Holding \cup {"off", "idle", "held"} :
         Goto(pc) => poll' \in Polls /\ poll'.at = pc
  <1>1. NoSnapshot \in Samples
    BY DEF Samples
  <1>2. AtRest \in Polls /\ AtRest.at = "idle" /\ AtRest.recon = FALSE
    BY <1>1 DEF AtRest, Polls, Answers
  <1>3. \A pc \in Holding \cup {"off", "idle", "held"} :
          LET u == [AtRest EXCEPT !.at = pc] IN u \in Polls /\ u.at = pc
    BY <1>2 DEF Polls
  <1> QED
    BY <1>2, <1>3 DEF Rest, Goto

\* A step after which the run is what it was, or over.
LEMMA CutsErrs ==
    ASSUME NEW c \in Ctls, NEW e \in Ctls, Errs(c, sync), Cuts(e),
           e.run \in {c.run, "idle"}, e.context = c.context
    PROVE  Errs(e, sync')
  BY DEF Errs, Cuts, Syncs

LEMMA FailRecoveryDoes ==
    ASSUME NEW v \in Svcs, NEW c \in Ctls, NEW t \in Txs, FailRecovery(v, c, t)
    PROVE  /\ svc' \in Svcs /\ svc'.connected = v.connected /\ svc'.fresh = v.fresh
           /\ svc'.sources = v.sources \cup t.sources
           /\ svc'.confirmed = v.confirmed \cup t.sources
           /\ svc'.origins = v.origins \cup t.sources
           /\ ctl' \in Ctls /\ ctl'.estop = TRUE /\ ctl'.context = c.context
           /\ ctl'.sources = c.sources \cup t.sources
           /\ ctl'.run = IF c.estop THEN c.run ELSE "idle"
           /\ Cuts(ctl')
           /\ poll' \in Polls /\ poll'.at \in {"idle", "reassert"}
           /\ tx' \in Txs /\ tx'.phase = "failed"
           /\ tx'.sources \in {t.sources, svc'.sources}
  <1> DEFINE S == t.sources
             e == Ensured(v, S)
             v2 == [e EXCEPT !.origins = e.origins \cup S]
  <1>1. S \in SUBSET Latched /\ t.phase \in Phases
    BY DEF Txs
  <1>2. /\ e \in Svcs /\ e.connected = v.connected /\ e.fresh = v.fresh
        /\ e.sources = v.sources \cup S /\ e.confirmed = v.confirmed \cup S
        /\ e.origins = v.origins
    BY <1>1, EnsuredIs
  <1>3. svc' = v2 /\ ctl' = StoppedDead(c, S) /\ Cuts(ctl')
    BY DEF FailRecovery
  <1>4. \/ Goto("reassert") /\ tx' = [t EXCEPT !.phase = "failed"]
        \/ Rest /\ tx' = [t EXCEPT !.phase = "failed", !.sources = v2.sources]
    BY DEF FailRecovery
  <1> HIDE DEF e
  <1>5. /\ v2 \in Svcs /\ v2.connected = v.connected /\ v2.fresh = v.fresh
        /\ v2.sources = v.sources \cup S /\ v2.confirmed = v.confirmed \cup S
        /\ v2.origins = v.origins \cup S
    BY <1>1, <1>2, SvcRecord DEF Svcs
  <1> HIDE DEF v2
  <1>6. poll' \in Polls /\ poll'.at \in {"idle", "reassert"}
    BY <1>4, RestIs DEF Holding
  <1>7. v2.sources \in SUBSET Latched
    BY <1>5, SvcRecord
  <1>8. tx' \in Txs /\ tx'.phase = "failed" /\ tx'.sources \in {t.sources, v2.sources}
    BY <1>4, <1>7 DEF Txs, Phases
  <1>9. S \in SUBSET Recoverable
    BY <1>1, LatchedRecoverable
  <1>10. /\ ctl' \in Ctls /\ ctl'.estop = TRUE /\ ctl'.context = c.context
         /\ ctl'.sources = c.sources \cup S
         /\ ctl'.run = IF c.estop THEN c.run ELSE "idle"
    <2>1. ctl' = StoppedDead(c, S)
      BY <1>3
    <2> HIDE DEF S
    <2> QED
      BY <2>1, <1>9, StoppedDeadIs
  <1>11. /\ svc' \in Svcs /\ svc'.connected = v.connected /\ svc'.fresh = v.fresh
         /\ svc'.sources = v.sources \cup S /\ svc'.confirmed = v.confirmed \cup S
         /\ svc'.origins = v.origins \cup S
    BY <1>3, <1>5
  <1>12. tx' \in Txs /\ tx'.phase = "failed" /\ tx'.sources \in {S, svc'.sources}
    BY <1>3, <1>8
  <1> QED
    BY <1>3, <1>6, <1>10, <1>11, <1>12

\* What a judged snapshot may change keeps its type, and no event comes back.
Typed ==
    /\ svc' \in Svcs /\ ctl' \in Ctls /\ tx' \in Txs /\ poll' \in Polls
    /\ left' \in [Events -> Nat] /\ \A k \in Events : left'[k] <= left[k]
    /\ hist' \in Hists /\ Errs(ctl', sync')

LEMMA FailRecoveryTypes ==
    ASSUME NEW v \in Svcs, NEW c \in Ctls, NEW t \in Txs, Errs(c, sync),
           FailRecovery(v, c, t)
    PROVE  /\ svc' \in Svcs /\ ctl' \in Ctls /\ tx' \in Txs /\ poll' \in Polls
           /\ Errs(ctl', sync')
  <1>1. ctl' \in Ctls /\ ctl'.run \in {c.run, "idle"} /\ ctl'.context = c.context /\ Cuts(ctl')
    BY FailRecoveryDoes
  <1>2. Errs(ctl', sync')
    BY <1>1, CutsErrs
  <1> QED
    BY <1>2, FailRecoveryDoes

\* A release is refused, completed, or takes its latch back after an exception.
LEMMA CompleteDoes ==
    ASSUME NEW v \in Svcs, NEW c \in Ctls, NEW t \in Txs, Errs(c, sync),
           left \in [Events -> Nat], hist \in Hists, Complete(v, c, t)
    PROVE  /\ Typed
           /\ hist'.zero = hist.zero
           /\ \/ FailRecovery(v, c, t) /\ UNCHANGED hist
              \/ svc' = v /\ tx' = t /\ poll'.at = "finish" /\ ctl'.estop = FALSE
              \/ \E d \in Ctls : d.estop = FALSE /\ FailRecovery(v, d, t)
  <1>1. PICK answer \in Readiness(c, t.command) :
          IF answer # "ready" THEN FailRecovery(v, c, t) /\ UNCHANGED <<left, hist>>
          ELSE LET c2 == Recovered(c, t.command, c.sources \cap Recoverable)
               IN  /\ hist' = [hist EXCEPT !.recovered = TRUE, !.cut = FALSE]
                   /\ \/ /\ ctl' = c2
                         /\ Cuts(c2)
                         /\ svc' = v
                         /\ tx' = t
                         /\ Goto("finish")
                         /\ UNCHANGED left
                      \/ Spend("fault") /\ FailRecovery(v, c2, t)
    BY DEF Complete
  <1>2. CASE answer # "ready"
    <2>1. FailRecovery(v, c, t) /\ UNCHANGED left /\ UNCHANGED hist
      BY <1>1, <1>2
    <2>2. left' \in [Events -> Nat] /\ \A k \in Events : left'[k] <= left[k]
      BY <2>1, LeftKept
    <2> QED
      BY <2>1, <2>2, FailRecoveryTypes DEF Typed
  <1>3. CASE answer = "ready"
    <2> DEFINE R == c.sources \cap Recoverable
               c2 == Recovered(c, t.command, R)
    <2> HIDE DEF R
    <2>1. c.run = "idle"
      BY <1>1, <1>3 DEF Readiness, Blocked
    <2>2. hist' \in Hists /\ hist'.zero = hist.zero
      <3>1. hist' = [hist EXCEPT !.recovered = TRUE, !.cut = FALSE]
        BY <1>1, <1>3
      <3> QED
        BY <3>1 DEF Hists
    <2>3. c2 \in Ctls /\ c2.estop = FALSE /\ c2.run \in {"idle", "running"}
      BY <2>1, RecoveredIs
    <2>4. sync = "no"
      BY <2>1 DEF Errs
    <2>5. \/ ctl' = c2 /\ Cuts(c2) /\ svc' = v /\ tx' = t /\ Goto("finish") /\ UNCHANGED left
          \/ Spend("fault") /\ FailRecovery(v, c2, t)
      BY <1>1, <1>3 DEF R
    <2> HIDE DEF c2
    <2>6. Errs(c2, sync)
      BY <2>3, <2>4 DEF Errs, Syncs
    <2>7. CASE ctl' = c2 /\ Cuts(c2) /\ svc' = v /\ tx' = t /\ Goto("finish") /\ UNCHANGED left
      <3>1. Errs(ctl', sync')
        BY <2>6, <2>7, <2>3, CutsErrs
      <3>2. poll' \in Polls /\ poll'.at = "finish"
        BY <2>7, RestIs DEF Holding
      <3>3. left' \in [Events -> Nat] /\ \A k \in Events : left'[k] <= left[k]
        BY <2>7, LeftKept
      <3> QED
        BY <2>2, <2>3, <2>7, <3>1, <3>2, <3>3 DEF Typed
    <2>8. CASE Spend("fault") /\ FailRecovery(v, c2, t)
      <3>1. left' \in [Events -> Nat] /\ \A k \in Events : left'[k] <= left[k]
        BY <2>8, SpendTypes DEF Events
      <3>2. /\ svc' \in Svcs /\ ctl' \in Ctls /\ tx' \in Txs /\ poll' \in Polls
            /\ Errs(ctl', sync')
        BY <2>3, <2>6, <2>8, FailRecoveryTypes
      <3> QED
        BY <2>2, <2>3, <2>8, <3>1, <3>2 DEF Typed
    <2> QED
      BY <2>5, <2>7, <2>8
  <1> QED
    BY <1>2, <1>3

-----------------------------------------------------------------------------
(* What judging a snapshot may come to. *)

Kept(v) ==
    /\ svc' \in Svcs /\ svc'.connected = v.connected /\ svc'.fresh = v.fresh
    /\ svc'.sources = v.sources /\ svc'.confirmed = v.confirmed
    /\ svc'.origins = v.origins

\* Nothing but the place changes.
Waits(v, c) == Kept(v) /\ ctl' = c /\ UNCHANGED <<tx, hist>>

\* A new transaction is validated.
Validated(v, c) ==
    /\ Kept(v) /\ ctl' = c /\ poll'.at = "assert"
    /\ tx'.phase = "validated"
    /\ tx'.sources = IF v.sources = {} THEN {PB2} ELSE v.sources
    /\ hist'.zero = hist.zero /\ hist'.recovered = FALSE

\* The acknowledgement has to be lowered before the release counts.
Lowers(v, c) ==
    /\ Kept(v) /\ ctl' = c /\ poll'.at = "lower"
    /\ tx'.phase = "release_observed" /\ tx'.sources = tx.sources
    /\ UNCHANGED hist

\* The transaction is held for another recovery, without a latch.
Refuses(v, c) ==
    /\ Kept(v) /\ ctl' = c /\ poll'.at = "idle"
    /\ tx'.phase = "recovery_required" /\ tx'.sources # {}
    /\ UNCHANGED hist

\* The transaction's sources are latched again.
Reconciles(v, c) ==
    /\ tx'.sources # {} /\ tx'.phase \in {"timed_out", "recovery_required"}
    /\ svc' \in Svcs /\ svc'.connected = v.connected /\ svc'.fresh = v.fresh
    /\ svc'.sources = v.sources \cup tx'.sources
    /\ svc'.confirmed = v.confirmed \cup tx'.sources
    /\ svc'.origins = v.origins
    /\ ctl'.sources = c.sources \cup (tx'.sources \ v.confirmed)
    /\ \/ tx'.sources \subseteq v.confirmed /\ ctl' = c
       \/ /\ ctl'.estop = TRUE
          /\ ctl'.run = IF c.estop THEN c.run ELSE "idle"
    /\ poll'.at \in {"idle", "clear"}
    /\ UNCHANGED hist

Observing(t) == [t EXCEPT !.phase = "release_observed"]

LEMMA ObservingIs ==
    ASSUME NEW t \in Txs
    PROVE  /\ Observing(t) \in Txs /\ Observing(t).phase = "release_observed"
           /\ Observing(t).sources = t.sources
  BY DEF Observing, Txs, Phases, ActivePhases

LEMMA ReleasedWithDoes ==
    ASSUME NEW v \in Svcs, NEW c \in Ctls, NEW w, Errs(c, sync), tx \in Txs,
           left \in [Events -> Nat], hist \in Hists, ReleasedWith(v, c, w)
    PROVE  /\ Typed
           /\ \/ w = Zero /\ Complete(v, c, Observing(tx))
              \/ w # Zero /\ Lowers(v, c)
  <1> DEFINE t == Observing(tx)
  <1>1. t \in Txs /\ t.phase = "release_observed" /\ t.sources = tx.sources
    BY ObservingIs
  <1>2. CASE w = Zero
    <2>1. Complete(v, c, t)
      BY <1>2 DEF ReleasedWith, Observing
    <2> HIDE DEF t
    <2>2. Typed
      BY <1>1, <2>1, CompleteDoes
    <2> QED
      BY <1>2, <2>1, <2>2 DEF t
  <1>3. CASE w # Zero
    <2>1. svc' = v /\ ctl' = c /\ Cuts(c) /\ tx' = t /\ Goto("lower") /\ UNCHANGED <<left, hist>>
      BY <1>3 DEF ReleasedWith, Observing
    <2> HIDE DEF t
    <2>2. poll' \in Polls /\ poll'.at = "lower"
      BY <2>1, RestIs DEF Holding
    <2>3. left' \in [Events -> Nat] /\ \A k \in Events : left'[k] <= left[k]
      BY <2>1, LeftKept
    <2>4. Errs(ctl', sync')
      BY <2>1, CutsErrs
    <2> QED
      BY <1>1, <1>3, <2>1, <2>2, <2>3, <2>4 DEF Typed, Lowers, Kept
  <1> QED
    BY <1>2, <1>3

LEMMA AdvanceDoes ==
    ASSUME NEW v \in Svcs, NEW c \in Ctls, NEW w, NEW expired \in BOOLEAN,
           Errs(c, sync), tx \in Txs, left \in [Events -> Nat], hist \in Hists,
           Advance(v, c, w, expired)
    PROVE  /\ Typed
           /\ \/ w = Zero /\ Complete(v, c, Observing(tx))
              \/ w = <<0, 0, 1>> /\ Lowers(v, c)
              \/ /\ Waits(v, c) /\ poll'.at \in {"idle", "expire"}
                 /\ w \notin {Zero, <<0, 0, 1>>}
  <1>1. CASE w \in {Zero, <<0, 0, 1>>}
    <2>1. ReleasedWith(v, c, w)
      BY <1>1 DEF Advance
    <2> QED
      BY <1>1, <2>1, ReleasedWithDoes
  <1>2. CASE w \notin {Zero, <<0, 0, 1>>}
    <2>1. /\ svc' = v /\ ctl' = c /\ Cuts(c) /\ UNCHANGED <<tx, left, hist>>
          /\ Goto("expire") \/ Rest
      BY <1>2 DEF Advance
    <2>2. poll' \in Polls /\ poll'.at \in {"idle", "expire"}
      BY <2>1, RestIs DEF Holding
    <2>3. left' \in [Events -> Nat] /\ \A k \in Events : left'[k] <= left[k]
      BY <2>1, LeftKept
    <2>4. Errs(ctl', sync')
      BY <2>1, CutsErrs
    <2> QED
      BY <1>2, <2>1, <2>2, <2>3, <2>4 DEF Typed, Waits, Kept
  <1> QED
    BY <1>1, <1>2

LEMMA DeferredIs ==
    ASSUME NEW v \in Svcs, NEW D \in SUBSET Latched
    PROVE  LET e == [v EXCEPT !.deferred = D]
           IN  /\ e \in Svcs /\ e.connected = v.connected /\ e.fresh = v.fresh
               /\ e.sources = v.sources /\ e.confirmed = v.confirmed
               /\ e.origins = v.origins /\ e.deferred = D
  BY DEF Svcs

LEMMA AnsweredDoes ==
    ASSUME NEW v \in Svcs, NEW c \in Ctls, NEW command \in {1, 2}, NEW w, NEW answer,
           tx \in Txs, hist \in Hists, ctl' = c, Answered(v, command, w, answer)
    PROVE  /\ svc' \in Svcs /\ tx' \in Txs /\ poll' \in Polls /\ hist' \in Hists
           /\ \/ Validated(v, c)
              \/ Waits(v, c) /\ poll'.at = "idle"
  <1>1. CASE answer = "ready"
    <2> DEFINE S == IF v.sources = {} THEN {PB2} ELSE v.sources
    <2>1. S \in SUBSET Latched
      BY SvcRecord, LatchedRecoverable
    <2>2. /\ svc' = [v EXCEPT !.deferred = {}]
          /\ tx' = [phase |-> "validated", command |-> command, pcset |-> FALSE,
                    sources |-> S]
          /\ hist' = [hist EXCEPT !.recovered = FALSE]
          /\ Goto("assert")
      BY <1>1 DEF Answered
    <2>3. tx' \in Txs /\ tx'.phase = "validated" /\ tx'.sources = S
      <3> HIDE DEF S
      <3> QED
        BY <2>1, <2>2 DEF Txs, Phases, ActivePhases
    <2>4. hist' \in Hists /\ hist'.zero = hist.zero /\ hist'.recovered = FALSE
      BY <2>2 DEF Hists
    <2>5. poll' \in Polls /\ poll'.at = "assert"
      BY <2>2, RestIs DEF Holding
    <2>6. Kept(v)
      BY <2>2, DeferredIs DEF Kept
    <2> QED
      BY <2>3, <2>4, <2>5, <2>6 DEF Validated, Kept
  <1>2. CASE answer # "ready"
    <2> DEFINE D == IF answer = "unsafe" /\ command = 1 /\ w = <<1, 1, 0>>
                    THEN v.sources ELSE {}
    <2>1. D \in SUBSET Latched
      BY SvcRecord
    <2>2. svc' = [v EXCEPT !.deferred = D] /\ Rest /\ UNCHANGED <<tx, hist>>
      BY <1>2 DEF Answered
    <2> HIDE DEF D
    <2>3. Kept(v)
      BY <2>1, <2>2, DeferredIs DEF Kept
    <2>4. poll' \in Polls /\ poll'.at = "idle"
      BY <2>2, RestIs
    <2> QED
      BY <2>2, <2>3, <2>4 DEF Waits, Kept
  <1> QED
    BY <1>1, <1>2

LEMMA BeginDoes ==
    ASSUME NEW v \in Svcs, NEW c \in Ctls, NEW command \in {1, 2}, NEW w, Errs(c, sync),
           tx \in Txs, left \in [Events -> Nat], hist \in Hists, Begin(v, c, command, w)
    PROVE  Typed /\ (Validated(v, c) \/ (Waits(v, c) /\ poll'.at = "idle"))
  <1> DEFINE u == [v EXCEPT !.deferred = {}]
  <1>1. PICK answer \in Readiness(c, command) : Answered(u, command, w, answer)
    BY DEF Begin
  <1>2. ctl' = c /\ Cuts(c) /\ UNCHANGED left
    BY DEF Begin
  <1>3. /\ u \in Svcs /\ u.connected = v.connected /\ u.fresh = v.fresh
        /\ u.sources = v.sources /\ u.confirmed = v.confirmed /\ u.origins = v.origins
    BY DeferredIs
  <1> HIDE DEF u
  <1>4. /\ svc' \in Svcs /\ tx' \in Txs /\ poll' \in Polls /\ hist' \in Hists
        /\ \/ Validated(u, c)
           \/ Waits(u, c) /\ poll'.at = "idle"
    BY <1>1, <1>2, <1>3, AnsweredDoes
  <1>5. Errs(ctl', sync')
    BY <1>2, CutsErrs
  <1>6. left' \in [Events -> Nat] /\ \A k \in Events : left'[k] <= left[k]
    BY <1>2, LeftKept
  <1>7. Validated(v, c) \/ (Waits(v, c) /\ poll'.at = "idle")
    BY <1>3, <1>4 DEF Validated, Waits, Kept
  <1> QED
    BY <1>2, <1>4, <1>5, <1>6, <1>7 DEF Typed

LEMMA RetryDoes ==
    ASSUME NEW v \in Svcs, NEW c \in Ctls, Errs(c, sync), tx \in Txs,
           left \in [Events -> Nat], hist \in Hists, Retry(v, c)
    PROVE  Typed /\ Waits(v, c) /\ poll'.at = "retry"
  <1>1. PICK answer \in Readiness(c, 1) :
          poll' = [AtRest EXCEPT !.at = "retry", !.answer = answer]
    BY DEF Retry
  <1>2. svc' = v /\ ctl' = c /\ Cuts(c) /\ UNCHANGED <<tx, left, hist>>
    BY DEF Retry
  <1>3. answer \in Answers
    BY <1>1 DEF Readiness, Answers
  <1>4. poll' \in Polls /\ poll'.at = "retry"
    BY <1>1, <1>3 DEF AtRest, Polls, Samples, Holding
  <1>5. Errs(ctl', sync')
    BY <1>2, CutsErrs
  <1>6. left' \in [Events -> Nat] /\ \A k \in Events : left'[k] <= left[k]
    BY <1>2, LeftKept
  <1> QED
    BY <1>2, <1>4, <1>5, <1>6 DEF Typed, Waits, Kept

LEMMA ReconcileDoes ==
    ASSUME NEW v \in Svcs, NEW c \in Ctls, NEW w, NEW expired \in BOOLEAN,
           Errs(c, sync), tx \in Txs, left \in [Events -> Nat], hist \in Hists,
           Reconcile(v, c, w, expired)
    PROVE  Typed /\ Reconciles(v, c)
  <1> DEFINE S == IF tx.sources # {} THEN tx.sources
                  ELSE IF v.sources # {} THEN v.sources ELSE {PB2}
             unsure == S \ v.confirmed
             late == tx.phase = "acknowledged" /\ w[3] = 1 /\ (w[1] # 0 \/ w[2] # 0)
             ph == IF late /\ expired THEN "timed_out" ELSE "recovery_required"
  <1>1. /\ svc' = Ensured(v, S)
        /\ ctl' = IF unsure = {} THEN c ELSE StoppedDead(c, unsure)
        /\ Cuts(ctl')
        /\ tx' = [tx EXCEPT !.sources = S, !.phase = ph]
        /\ UNCHANGED <<left, hist>>
    BY DEF Reconcile
  <1>2. Goto("clear") \/ Rest
    BY DEF Reconcile
  <1>3. S \in SUBSET Latched /\ S # {}
    <2>1. tx.sources \in SUBSET Latched
      BY DEF Txs
    <2> QED
      BY <2>1, SvcRecord, LatchedRecoverable
  <1>4. ph \in {"timed_out", "recovery_required"}
    OBVIOUS
  <1> HIDE DEF S, ph
  <1>5. tx' \in Txs /\ tx'.sources = S /\ tx'.phase = ph
    BY <1>1, <1>3, <1>4 DEF Txs, Phases
  <1>6. unsure \in SUBSET Recoverable
    BY <1>3, LatchedRecoverable
  <1>7. unsure = {} <=> S \subseteq v.confirmed
    OBVIOUS
  <1>8. /\ ctl' \in Ctls /\ ctl'.run \in {c.run, "idle"} /\ ctl'.context = c.context
        /\ ctl'.sources = c.sources \cup (S \ v.confirmed)
        /\ \/ S \subseteq v.confirmed /\ ctl' = c
           \/ ctl'.estop = TRUE /\ ctl'.run = IF c.estop THEN c.run ELSE "idle"
    <2>1. CASE unsure = {}
      <3>1. ctl' = c /\ S \ v.confirmed = {}
        BY <1>1, <2>1
      <3>2. c.sources \cup (S \ v.confirmed) = c.sources
        BY <3>1
      <3> QED
        BY <3>1, <3>2, <2>1, <1>7
    <2>2. CASE unsure # {}
      <3>1. ctl' = StoppedDead(c, unsure)
        BY <1>1, <2>2
      <3>2. S \ v.confirmed = unsure
        OBVIOUS
      <3> HIDE DEF unsure
      <3>3. /\ ctl' \in Ctls /\ ctl'.estop = TRUE /\ ctl'.context = c.context
            /\ ctl'.sources = c.sources \cup unsure
            /\ ctl'.run = IF c.estop THEN c.run ELSE "idle"
        BY <3>1, <1>6, StoppedDeadIs
      <3> QED
        BY <3>2, <3>3
    <2> QED
      BY <2>1, <2>2
  <1>9. /\ svc' \in Svcs /\ svc'.connected = v.connected /\ svc'.fresh = v.fresh
        /\ svc'.sources = v.sources \cup S /\ svc'.confirmed = v.confirmed \cup S
        /\ svc'.origins = v.origins
    BY <1>1, <1>3, EnsuredIs
  <1>10. poll' \in Polls /\ poll'.at \in {"idle", "clear"}
    BY <1>2, RestIs DEF Holding
  <1>11. Errs(ctl', sync')
    BY <1>1, <1>8, CutsErrs
  <1>12. left' \in [Events -> Nat] /\ \A k \in Events : left'[k] <= left[k]
    BY <1>1, LeftKept
  <1>13. Typed
    BY <1>1, <1>5, <1>8, <1>9, <1>10, <1>11, <1>12 DEF Typed
  <1> HIDE DEF unsure
  <1> QED
    BY <1>1, <1>3, <1>4, <1>5, <1>8, <1>9, <1>10, <1>13 DEF Reconciles

LEMMA CommandIs ==
    ASSUME NEW v, NEW w \in Words
    PROVE  Command(v, w) # 0 => Command(v, w) \in {1, 2} /\ w[2] = 1
  BY WordParts DEF Command

LEMMA RequestDoes ==
    ASSUME NEW v \in Svcs, NEW c \in Ctls, NEW w \in Words, NEW recon \in BOOLEAN,
           Errs(c, sync), tx \in Txs, left \in [Events -> Nat], hist \in Hists,
           Request(v, c, w, recon)
    PROVE  /\ Typed
           /\ \/ Validated(v, c) /\ w[2] = 1
              \/ Waits(v, c) /\ poll'.at = "idle"
              \/ Waits(v, c) /\ poll'.at = "retry" /\ ~recon /\ v.deferred # {}
              \/ Refuses(v, c) /\ recon
  <1> DEFINE o == Observed(v, w)
             command == Command(svc, w)
  <1>1. /\ o \in Svcs /\ o.connected = v.connected /\ o.fresh = v.fresh
        /\ o.sources = v.sources /\ o.confirmed = v.confirmed
        /\ o.origins = v.origins /\ o.deferred = v.deferred
    BY ObservedIs
  <1>2. \/ /\ recon /\ w[2] = 1 /\ w[1] = 1
           /\ Begin(o, c, 1, w)
        \/ /\ recon /\ w[2] = 1 /\ w[1] = 2
           /\ svc' = o /\ ctl' = c /\ Cuts(c)
           /\ tx' = [phase |-> "recovery_required", command |-> 2, pcset |-> FALSE,
                     sources |-> IF o.sources = {} THEN {PB2} ELSE o.sources]
           /\ Rest
           /\ UNCHANGED <<left, hist>>
        \/ /\ ~recon /\ command # 0
           /\ Begin(o, c, command, w)
        \/ /\ ~recon /\ command = 0 /\ o.deferred # {}
           /\ Retry(o, c)
        \/ /\ IF recon THEN w[2] = 0 \/ w[1] = 0 ELSE command = 0
           /\ svc' = o /\ ctl' = c /\ Cuts(c)
           /\ Rest
           /\ UNCHANGED <<tx, left, hist>>
    BY DEF Request
  <1>3. command # 0 => command \in {1, 2} /\ w[2] = 1
    BY CommandIs
  <1> HIDE DEF o, command
  <1>4. ASSUME NEW k \in {1, 2}, Begin(o, c, k, w)
        PROVE  Typed /\ (Validated(v, c) \/ (Waits(v, c) /\ poll'.at = "idle"))
    <2>1. Typed /\ (Validated(o, c) \/ (Waits(o, c) /\ poll'.at = "idle"))
      BY <1>1, <1>4, BeginDoes
    <2> QED
      BY <1>1, <2>1 DEF Validated, Waits, Kept
  <1>5. CASE recon /\ w[2] = 1 /\ Begin(o, c, 1, w)
    BY <1>4, <1>5
  <1>6. CASE ~recon /\ command # 0 /\ Begin(o, c, command, w)
    BY <1>3, <1>4, <1>6
  <1>7. CASE ~recon /\ o.deferred # {} /\ Retry(o, c)
    <2>1. Typed /\ Waits(o, c) /\ poll'.at = "retry"
      BY <1>1, <1>7, RetryDoes
    <2> QED
      BY <1>1, <1>7, <2>1 DEF Waits, Kept
  <1>8. ASSUME svc' = o, ctl' = c, Cuts(c), Rest, UNCHANGED left
        PROVE  /\ Kept(v) /\ poll' \in Polls /\ poll'.at = "idle" /\ Errs(ctl', sync')
               /\ left' \in [Events -> Nat] /\ \A k \in Events : left'[k] <= left[k]
    <2>1. Kept(v)
      BY <1>1, <1>8 DEF Kept
    <2>2. Errs(ctl', sync')
      BY <1>8, CutsErrs
    <2>3. left' \in [Events -> Nat] /\ \A k \in Events : left'[k] <= left[k]
      BY <1>8, LeftKept
    <2>4. poll' \in Polls /\ poll'.at = "idle"
      BY <1>8, RestIs
    <2> QED
      BY <2>1, <2>2, <2>3, <2>4
  <1>9. CASE svc' = o /\ ctl' = c /\ Cuts(c) /\ Rest /\ UNCHANGED <<tx, left, hist>>
    <2>1. /\ Kept(v) /\ poll' \in Polls /\ poll'.at = "idle" /\ Errs(ctl', sync')
          /\ left' \in [Events -> Nat] /\ \A k \in Events : left'[k] <= left[k]
      BY <1>8, <1>9
    <2> QED
      BY <2>1, <1>9 DEF Typed, Waits, Kept
  <1>10. CASE /\ recon /\ svc' = o /\ ctl' = c /\ Cuts(c) /\ Rest /\ UNCHANGED <<left, hist>>
              /\ tx' = [phase |-> "recovery_required", command |-> 2, pcset |-> FALSE,
                        sources |-> IF o.sources = {} THEN {PB2} ELSE o.sources]
    <2> DEFINE S == IF o.sources = {} THEN {PB2} ELSE o.sources
    <2>1. S \in SUBSET Latched /\ S # {}
      BY <1>1, SvcRecord, LatchedRecoverable
    <2>2. tx' \in Txs /\ tx'.phase = "recovery_required" /\ tx'.sources = S
      <3>1. tx' = [phase |-> "recovery_required", command |-> 2, pcset |-> FALSE,
                   sources |-> S]
        BY <1>10
      <3> HIDE DEF S
      <3> QED
        BY <2>1, <3>1 DEF Txs, Phases
    <2>3. /\ Kept(v) /\ poll' \in Polls /\ poll'.at = "idle" /\ Errs(ctl', sync')
          /\ left' \in [Events -> Nat] /\ \A k \in Events : left'[k] <= left[k]
      BY <1>8, <1>10
    <2> HIDE DEF S
    <2> QED
      BY <2>1, <2>2, <2>3, <1>10 DEF Typed, Refuses, Kept
  <1> QED
    BY <1>2, <1>5, <1>6, <1>7, <1>9, <1>10

\* The outcomes of a judgement, with what leads to each.
LEMMA DecideDoes ==
    ASSUME NEW v \in Svcs, NEW c \in Ctls, NEW w, NEW recon \in BOOLEAN,
           NEW expired \in BOOLEAN, w \in Words,
           Errs(c, sync), tx \in Txs, left \in [Events -> Nat], hist \in Hists,
           Decide(v, c, w, recon, expired)
    PROVE  /\ Typed
           /\ \/ Reconciles(v, c)
              \/ /\ tx.phase = "acknowledged" /\ (recon => ~Active)
                 /\ \/ w = Zero /\ Complete(v, c, Observing(tx))
                    \/ w = <<0, 0, 1>> /\ Lowers(v, c)
                    \/ /\ Waits(v, c) /\ poll'.at \in {"idle", "expire"}
                       /\ w \notin {Zero, <<0, 0, 1>>}
              \/ /\ tx.phase # "acknowledged" /\ (recon => ~Active)
                 /\ \/ Validated(v, c) /\ w[2] = 1
                    \/ Waits(v, c) /\ poll'.at = "idle"
                    \/ Waits(v, c) /\ poll'.at = "retry" /\ ~recon /\ v.deferred # {}
                    \/ Refuses(v, c) /\ recon
  <1>1. CASE recon /\ (w[3] = 1 \/ Active)
    <2>1. Reconcile(v, c, w, expired)
      BY <1>1 DEF Decide
    <2> QED
      BY <2>1, ReconcileDoes
  <1>2. CASE ~(recon /\ (w[3] = 1 \/ Active)) /\ tx.phase = "acknowledged"
    <2>1. Advance(v, c, w, expired)
      BY <1>2 DEF Decide
    <2> QED
      BY <1>2, <2>1, AdvanceDoes
  <1>3. CASE ~(recon /\ (w[3] = 1 \/ Active)) /\ tx.phase # "acknowledged"
    <2>1. Request(v, c, w, recon)
      BY <1>3 DEF Decide
    <2> QED
      BY <1>3, <2>1, RequestDoes
  <1> QED
    BY <1>1, <1>2, <1>3

LEMMA AssertedIs ==
    ASSUME NEW v \in Svcs, NEW w
    PROVE  /\ Asserted(v, w) \in SUBSET Latched
           /\ w[2] = 0 => Asserted(v, w) = {}
           /\ w[2] # 0 => Asserted(v, w) = IF v.origins = {} THEN {PB2} ELSE v.origins
  BY SvcRecord, LatchedRecoverable DEF Asserted

\* The snapshot w goes to Decide with all that D101 stands for ensured.
Judged(v, c, w) ==
    LET S == v.confirmed \ svc.confirmed
        T == IF w[2] = 0 THEN {} ELSE IF v.origins = {} THEN {PB2} ELSE v.origins
    IN  /\ Errs(c, sync)
        /\ v.sources = svc.sources \cup T /\ v.confirmed = svc.confirmed \cup T
        /\ v.origins = IF w[2] = 0 THEN {} ELSE svc.origins
        /\ v.connected = TRUE /\ v.fresh = FALSE
        /\ w # <<1, 1, 0>> => v.deferred = {}
        /\ c.sources = ctl.sources \cup S /\ c.run = ctl.run /\ c.estop = ctl.estop
        /\ S # {} => ctl.estop

LEMMA ObserveDoes ==
    ASSUME TypeInv, NEW expired \in BOOLEAN, Observe(expired)
    PROVE  LET w == poll.seen
               S == Asserted(Taken(svc, w), w)
           IN  \/ /\ Fault(w) /\ Rest /\ UNCHANGED <<ctl, tx, sync, left, hist>>
                  /\ svc' \in Svcs /\ svc'.sources = svc.sources
                  /\ svc'.confirmed = svc.confirmed /\ svc'.origins = svc.origins
               \/ /\ ~Fault(w) /\ ~ctl.estop /\ w[2] # 0
                  /\ svc' \in Svcs /\ svc'.sources = svc.sources \cup S
                  /\ svc'.confirmed = svc.confirmed /\ svc'.origins = svc.origins
                  /\ svc'.connected = TRUE
                  /\ ctl' = Stopped(ctl, S \ svc.confirmed)
                  /\ poll' = [poll EXCEPT !.at = "estop"]
                  /\ UNCHANGED <<tx, sync, left, hist>>
               \/ /\ ~Fault(w)
                  /\ \E v \in Svcs, c \in Ctls :
                        Judged(v, c, w) /\ Decide(v, c, w, poll.recon, expired)
  <1> DEFINE w == poll.seen
             v == Taken(svc, w)
             S == Asserted(v, w)
             unsure == S \ v.confirmed
  <1>0. /\ svc \in Svcs /\ ctl \in Ctls /\ poll \in Polls /\ w \in Samples
        /\ Errs(ctl, sync)
    BY TypeParts DEF Polls
  <1>1. /\ v \in Svcs /\ v.connected = TRUE /\ v.fresh = FALSE
        /\ v.sources = svc.sources /\ v.confirmed = svc.confirmed
        /\ v.origins = IF w[2] = 0 THEN {} ELSE svc.origins
        /\ w # <<1, 1, 0>> => v.deferred = {}
    BY <1>0, TakenIs
  <1>2. IF Fault(w)
        THEN /\ svc' = [Withdrawn(Cached(svc, w), w) EXCEPT !.safety = "fault",
                                                            !.fresh = FALSE]
             /\ Rest
             /\ UNCHANGED <<ctl, tx, sync, left, hist>>
        ELSE IF unsure # {} /\ ~ctl.estop
        THEN /\ svc' = [v EXCEPT !.sources = @ \cup S, !.safety = "latched",
                                 !.previous = svc.previous]
             /\ ctl' = Stopped(ctl, unsure)
             /\ poll' = [poll EXCEPT !.at = "estop"]
             /\ UNCHANGED <<tx, sync, left, hist>>
        ELSE Decide(IF S = {} THEN v ELSE Ensured(v, S),
                    IF unsure = {} THEN ctl ELSE Stopped(ctl, unsure),
                    w, poll.recon, expired)
    BY DEF Observe
  <1> HIDE DEF v, w
  <1>3. /\ S \in SUBSET Latched /\ (w[2] = 0 => S = {})
        /\ w[2] # 0 => S = IF v.origins = {} THEN {PB2} ELSE v.origins
    BY <1>1, AssertedIs
  <1>4. CASE Fault(w)
    <2> DEFINE x == Cached(svc, w)
               u == Withdrawn(x, w)
    <2>1. /\ x \in Svcs /\ x.sources = svc.sources /\ x.confirmed = svc.confirmed
          /\ x.origins = svc.origins
      BY <1>0, CachedIs
    <2> HIDE DEF x
    <2>2. /\ u \in Svcs /\ u.sources = svc.sources /\ u.confirmed = svc.confirmed
          /\ u.origins = svc.origins
      BY <2>1, WithdrawnIs
    <2>3. svc' = [u EXCEPT !.safety = "fault", !.fresh = FALSE]
      BY <1>2, <1>4 DEF x
    <2> HIDE DEF u
    <2>4. /\ svc' \in Svcs /\ svc'.sources = svc.sources
          /\ svc'.confirmed = svc.confirmed /\ svc'.origins = svc.origins
      BY <2>2, <2>3 DEF Svcs
    <2> QED
      BY <1>2, <1>4, <2>4 DEF w
  <1> HIDE DEF S
  <1>5. CASE ~Fault(w) /\ unsure # {} /\ ~ctl.estop
    <2>1. /\ svc' = [v EXCEPT !.sources = v.sources \cup S, !.safety = "latched",
                              !.previous = svc.previous]
          /\ ctl' = Stopped(ctl, unsure)
          /\ poll' = [poll EXCEPT !.at = "estop"]
          /\ UNCHANGED <<tx, sync, left, hist>>
      BY <1>2, <1>5
    <2>2. w[2] # 0 /\ v.origins = svc.origins
      BY <1>1, <1>3, <1>5
    <2>3. svc.previous \in Samples /\ v.sources \cup S \in SUBSET Latched
      BY <1>0, <1>1, <1>3, SvcRecord
    <2>4. /\ svc' \in Svcs /\ svc'.sources = v.sources \cup S
          /\ svc'.confirmed = v.confirmed /\ svc'.origins = v.origins
          /\ svc'.connected = v.connected
      BY <1>1, <2>1, <2>3 DEF Svcs
    <2> QED
      BY <1>1, <1>5, <2>1, <2>2, <2>4 DEF v, w, S
  <1>6. CASE ~Fault(w) /\ ~(unsure # {} /\ ~ctl.estop)
    <2> DEFINE e == IF S = {} THEN v ELSE Ensured(v, S)
               c == IF unsure = {} THEN ctl ELSE Stopped(ctl, unsure)
    <2>1. Decide(e, c, w, poll.recon, expired)
      BY <1>2, <1>6
    <2>2. /\ e \in Svcs /\ e.sources = v.sources \cup S
          /\ e.confirmed = v.confirmed \cup S /\ e.origins = v.origins
          /\ e.deferred = v.deferred /\ e.connected = v.connected /\ e.fresh = v.fresh
      <3>1. CASE S = {}
        BY <1>1, <3>1
      <3>2. CASE S # {}
        BY <1>1, <1>3, <3>2, EnsuredIs
      <3> QED
        BY <3>1, <3>2
    <2>3. unsure \in SUBSET Recoverable
      BY <1>3, LatchedRecoverable
    <2>4. /\ c \in Ctls /\ c.sources = ctl.sources \cup unsure /\ c.run = ctl.run
          /\ c.estop = ctl.estop /\ c.context = ctl.context
          /\ unsure # {} => ctl.estop
      <3>1. CASE unsure = {}
        BY <1>0, <3>1
      <3>2. CASE unsure # {}
        <4>1. c = Stopped(ctl, unsure) /\ ctl.estop = TRUE
          <5>1. ctl.estop \in BOOLEAN
            BY <1>0, CtlRecord
          <5> QED
            BY <1>6, <3>2, <5>1
        <4> HIDE DEF unsure, c
        <4> QED
          BY <1>0, <2>3, <3>2, <4>1, StoppedIs
      <3> QED
        BY <3>1, <3>2
    <2>5. Errs(c, sync)
      BY <1>0, <2>4 DEF Errs
    <2>6. S = IF w[2] = 0 THEN {} ELSE IF v.origins = {} THEN {PB2} ELSE v.origins
      BY <1>3
    <2>7. (v.confirmed \cup S) \ svc.confirmed = unsure
      BY <1>1
    <2> HIDE DEF e, c, unsure
    <2>8. Judged(e, c, w)
      BY <1>1, <2>2, <2>4, <2>5, <2>6, <2>7 DEF Judged
    <2> QED
      BY <1>6, <2>1, <2>2, <2>4, <2>8 DEF w
  <1> QED
    BY <1>4, <1>5, <1>6

LEMMA ObserveEnsuredDoes ==
    ASSUME TypeInv, Placed, NEW expired \in BOOLEAN, ObserveEnsured(expired)
    PROVE  LET w == poll.seen
               S == Asserted(svc, w)
           IN  /\ ~Fault(w)
               /\ \E v \in Svcs :
                     /\ v.sources = svc.sources \cup S
                     /\ v.confirmed = svc.confirmed \cup S /\ v.origins = svc.origins
                     /\ v.connected = svc.connected /\ v.fresh = svc.fresh
                     /\ Decide(v, ctl, w, poll.recon, expired)
  <1> DEFINE w == poll.seen
             S == Asserted(svc, w)
             u == [svc EXCEPT !.previous = w]
  <1>1. svc \in Svcs /\ w \in Samples
    BY TypeParts DEF Polls
  <1>2. /\ u \in Svcs /\ u.sources = svc.sources /\ u.confirmed = svc.confirmed
        /\ u.origins = svc.origins /\ u.connected = svc.connected /\ u.fresh = svc.fresh
    BY <1>1 DEF Svcs
  <1>3. Decide(Ensured(u, S), ctl, w, poll.recon, expired) /\ poll.at = "ensured"
    BY DEF ObserveEnsured
  <1>4. ~Fault(w)
    BY <1>3 DEF Placed
  <1>5. S \in SUBSET Latched
    BY <1>1, AssertedIs
  <1> HIDE DEF u, S, w
  <1>6. LET v == Ensured(u, S)
        IN  /\ v \in Svcs /\ v.sources = u.sources \cup S
            /\ v.confirmed = u.confirmed \cup S /\ v.origins = u.origins
            /\ v.connected = u.connected /\ v.fresh = u.fresh
    BY <1>2, <1>5, EnsuredIs
  <1> QED
    BY <1>2, <1>3, <1>4, <1>6 DEF S, w

\* Both ways to judge a snapshot keep the types.
LEMMA JudgeTypes ==
    ASSUME TypeInv, NEW v \in Svcs, NEW c \in Ctls, NEW expired \in BOOLEAN,
           Errs(c, sync), ~Fault(poll.seen), UNCHANGED <<plc, halting, fast>>,
           Decide(v, c, poll.seen, poll.recon, expired)
    PROVE  TypeInv'
  <1>1. poll.seen \in Words /\ poll.recon \in BOOLEAN
    BY TypeParts DEF Fault, Polls
  <1>2. Typed
    BY <1>1, TypeParts, DecideDoes
  <1> QED
    BY <1>2, TypeParts, TypePartsNext DEF Typed

LEMMA TypeInit == Init => TypeInv
  <1> SUFFICES ASSUME Init PROVE TypeInv
    OBVIOUS
  <1>1. plc \in Words
    BY WordIs DEF Init, Zero
  <1>2. ctl \in Ctls /\ Errs(ctl, sync)
    BY DEF Init, FreshController, Ctls, Errs, Syncs
  <1>3. tx \in Txs
    BY DEF Init, NoTransaction, Txs, Phases
  <1>4. svc \in Svcs
    BY DEF Init, Started, NoTransaction, RestoredSources, RestoredOrigins, Svcs, Samples
  <1>5. poll \in Polls
    BY DEF Init, AtRest, Polls, Samples, Answers
  <1>6. left \in [Events -> Nat]
    BY BudgetsAssumption DEF Init
  <1>7. hist \in Hists
    BY DEF Init, Hists
  <1> QED
    BY <1>1, <1>2, <1>3, <1>4, <1>5, <1>6, <1>7, TypeParts DEF Init

-----------------------------------------------------------------------------
(* What each action does, field by field. *)

Less == left' \in [Events -> Nat] /\ \A k \in Events : left'[k] <= left[k]

\* A zero that the step makes is recorded.
Marks ==
    /\ hist' \in Hists /\ hist'.recovered = hist.recovered
    /\ hist.zero => hist'.zero
    /\ plc' = Zero => hist'.zero \/ plc' = plc

LEMMA MarksIs ==
    ASSUME hist \in Hists
    PROVE  /\ UNCHANGED <<plc, hist>> => Marks
           /\ \A w : Put(w) => Marks /\ plc' = w
           /\ \A b \in BOOLEAN : hist' = [hist EXCEPT !.cut = b] /\ UNCHANGED plc => Marks
  BY DEF Marks, Hists, Put

\* One register is written, or not.
Touches(d, x) ==
    /\ plc' \in Words /\ plc' \in {plc, [plc EXCEPT ![d] = x]}
    /\ Marks /\ Less

LEMMA TouchesIs ==
    ASSUME TypeInv, NEW d \in {2, 3}, NEW x \in {0, 1}
    PROVE  /\ Write(d, x) => Touches(d, x) /\ plc' = [plc EXCEPT ![d] = x]
           /\ WriteFails(d, x) => Touches(d, x)
  <1>1. plc \in Words /\ [plc EXCEPT ![d] = x] \in Words
    BY TypeParts, WordSet
  <1>2. hist \in Hists /\ left \in [Events -> Nat] /\ "fault" \in Events
    BY TypeParts DEF Events
  <1>3. ASSUME Write(d, x)
        PROVE  Touches(d, x) /\ plc' = [plc EXCEPT ![d] = x]
    <2>1. Put([plc EXCEPT ![d] = x]) /\ UNCHANGED left
      BY <1>3 DEF Write
    <2> QED
      BY <1>1, <1>2, <2>1, MarksIs, LeftKept DEF Touches, Less
  <1>4. ASSUME WriteFails(d, x)
        PROVE  Touches(d, x)
    <2>1. PICK w \in {plc, [plc EXCEPT ![d] = x]} : Put(w)
      BY <1>4 DEF WriteFails
    <2>2. Spend("fault")
      BY <1>4 DEF WriteFails
    <2>3. Less
      BY <1>2, <2>2, SpendTypes DEF Less
    <2> QED
      BY <1>1, <1>2, <2>1, <2>3, MarksIs DEF Touches
  <1> QED
    BY <1>3, <1>4

\* A read, whether it works or not.
LEMMA ReadsAre ==
    ASSUME TypeInv, ReadFails \/ ReadWorks
    PROVE  UNCHANGED <<plc, hist>> /\ Less /\ Marks
  <1>1. hist \in Hists /\ left \in [Events -> Nat] /\ "fault" \in Events
    BY TypeParts DEF Events
  <1>2. UNCHANGED <<plc, hist>> /\ Marks
    BY <1>1, MarksIs DEF ReadFails, ReadWorks
  <1>3. CASE ReadFails
    BY <1>1, <1>2, <1>3, SpendTypes DEF ReadFails, Less
  <1>4. CASE ReadWorks
    BY <1>1, <1>2, <1>4, LeftKept DEF ReadWorks, Less
  <1> QED
    BY <1>3, <1>4

LEMMA SpendLess ==
    ASSUME TypeInv, NEW e \in Events, Spend(e)
    PROVE  Less
  BY TypeParts, SpendTypes DEF Less

LEMMA KeptLess == TypeInv /\ UNCHANGED left => Less
  BY TypeParts, LeftKept DEF Less

LEMMA PressPB2Does ==
    ASSUME TypeInv, PressPB2
    PROVE  /\ TypeInv' /\ Marks /\ Less /\ UNCHANGED <<ctl, halting, svc, tx, poll, sync, fast>>
           /\ plc[2] = 0 /\ plc'[1] = plc[1] /\ plc'[2] = 1 /\ plc'[3] = plc[3]
  <1>1. /\ plc[2] = 0 /\ plc' = [plc EXCEPT ![2] = 1] /\ hist' = [hist EXCEPT !.pb2 = TRUE]
        /\ Spend("pb2") /\ UNCHANGED <<ctl, halting, svc, tx, poll, sync, fast>>
    BY DEF PressPB2
  <1>2. plc' \in Words /\ plc'[1] = plc[1] /\ plc'[2] = 1 /\ plc'[3] = plc[3]
    BY <1>1, TypeParts, WordSet
  <1>3. Marks
    BY <1>1, <1>2, TypeParts, WordZero DEF Marks, Hists
  <1>4. Less
    BY <1>1, SpendLess DEF Events
  <1> QED
    BY <1>1, <1>2, <1>3, <1>4, TypeParts, TypePartsNext DEF Marks, Less

LEMMA PressPB1Does ==
    ASSUME TypeInv, NEW command \in {1, 2}, PressPB1(command)
    PROVE  /\ TypeInv' /\ Marks /\ Less /\ UNCHANGED <<ctl, halting, svc, tx, poll, sync, fast>>
           /\ plc[2] = 1 /\ plc'[2] = 1 /\ plc'[3] = plc[3]
  <1>1. /\ plc[2] = 1 /\ Put([plc EXCEPT ![1] = command])
        /\ Spend("pb1") /\ UNCHANGED <<ctl, halting, svc, tx, poll, sync, fast>>
    BY DEF PressPB1
  <1> DEFINE u == [plc EXCEPT ![1] = command]
  <1>0. plc \in Words /\ command \in {0, 1, 2}
    BY TypeParts
  <1>2. u \in Words /\ u[2] = plc[2] /\ u[3] = plc[3]
    BY <1>0, WordSet
  <1>3. Marks /\ plc' = [plc EXCEPT ![1] = command]
    BY <1>1, TypeParts, MarksIs
  <1>4. Less
    BY <1>1, SpendLess DEF Events
  <1> QED
    BY <1>1, <1>2, <1>3, <1>4, TypeParts, TypePartsNext DEF Marks, Less

LEMMA LadderClearsDoes ==
    ASSUME TypeInv, LadderClears
    PROVE  /\ TypeInv' /\ Marks /\ Less /\ UNCHANGED <<ctl, halting, svc, tx, poll, sync, fast>>
           /\ plc[2] = 1 /\ plc[3] = 1
           /\ plc'[1] = 0 /\ plc'[2] = 0 /\ plc'[3] \in {0, 1}
  <1>1. PICK d \in {0, 1} : Put(<<0, 0, d>>)
    BY DEF LadderClears
  <1>2. /\ plc[2] = 1 /\ plc[3] = 1 /\ UNCHANGED <<ctl, halting, svc, tx, poll, sync, fast, left>>
    BY DEF LadderClears
  <1>3. <<0, 0, d>> \in Words
    BY WordIs
  <1>4. Marks /\ plc' = <<0, 0, d>>
    BY <1>1, TypeParts, MarksIs
  <1>5. Less
    BY <1>2, KeptLess
  <1> QED
    BY <1>2, <1>3, <1>4, <1>5, TypeParts, TypePartsNext DEF Marks, Less

LEMMA StartRunDoes ==
    ASSUME TypeInv, NEW planning \in BOOLEAN, StartRun(planning)
    PROVE  /\ TypeInv' /\ Marks /\ Less /\ UNCHANGED <<plc, halting, svc, tx, poll, sync, fast>>
           /\ svc.sources = {} /\ ~Active /\ ~ctl.estop
           /\ ctl'.sources = {} /\ ctl'.estop = FALSE
  <1>1. /\ svc.sources = {} /\ ~Active /\ ~ctl.estop /\ ctl.run = "idle"
        /\ ctl' = [FreshController EXCEPT !.run = "running", !.context = planning]
        /\ hist' = [hist EXCEPT !.cut = FALSE]
        /\ Spend("start") /\ UNCHANGED <<plc, halting, svc, tx, poll, sync, fast>>
    BY DEF StartRun, Active
  <1>2. /\ ctl' \in Ctls /\ ctl'.sources = {} /\ ctl'.estop = FALSE /\ ctl'.run = "running"
    BY <1>1 DEF FreshController, Ctls
  <1>3. Marks
    BY <1>1, TypeParts, MarksIs
  <1>4. Less
    BY <1>1, SpendLess DEF Events
  <1>5. Errs(ctl', sync')
    BY <1>1, <1>2, TypeParts DEF Errs
  <1> QED
    BY <1>1, <1>2, <1>3, <1>4, <1>5, TypeParts, TypePartsNext DEF Marks, Less

LEMMA EndRunDoes ==
    ASSUME TypeInv, EndRun
    PROVE  /\ TypeInv' /\ Marks /\ Less
           /\ UNCHANGED <<plc, halting, svc, tx, poll, sync, fast, hist>>
           /\ ctl'.sources = ctl.sources /\ ctl'.estop = ctl.estop /\ ctl'.run = "idle"
  <1>1. /\ ctl.run = "running" /\ ctl' = [ctl EXCEPT !.run = "idle", !.context = FALSE]
        /\ UNCHANGED <<plc, halting, svc, tx, poll, sync, fast, left, hist>>
    BY DEF EndRun
  <1>2. /\ ctl' \in Ctls /\ ctl'.sources = ctl.sources /\ ctl'.estop = ctl.estop
        /\ ctl'.run = "idle"
    BY <1>1, TypeParts DEF Ctls
  <1>3. Marks /\ Less
    BY <1>1, TypeParts, MarksIs, KeptLess
  <1>5. Errs(ctl', sync')
    BY <1>1, <1>2, TypeParts DEF Errs
  <1> QED
    BY <1>1, <1>2, <1>3, <1>5, TypeParts, TypePartsNext DEF Marks, Less

LEMMA RaiseTerminalDoes ==
    ASSUME TypeInv, RaiseTerminal
    PROVE  /\ TypeInv' /\ Marks /\ Less /\ UNCHANGED <<plc, halting, svc, tx, poll, fast, hist>>
           /\ ctl.sources \subseteq ctl'.sources /\ ctl'.estop = TRUE /\ ctl'.run = "ending"
           /\ sync' = "waiting"
  <1> DEFINE c == Stopped(ctl, {Terminal})
  <1>1. /\ ctl.run = "running" /\ ~ctl.context /\ ctl' = [c EXCEPT !.run = "ending"]
        /\ sync' = "waiting"
        /\ Spend("terminal") /\ UNCHANGED <<plc, halting, svc, tx, poll, fast, hist>>
    BY DEF RaiseTerminal
  <1>0. {Terminal} \in SUBSET Recoverable
    BY LatchedRecoverable
  <1>2. /\ c \in Ctls /\ c.estop = TRUE /\ c.context = ctl.context
        /\ c.sources = ctl.sources \cup {Terminal}
    BY <1>0, TypeParts, StoppedIs
  <1> HIDE DEF c
  <1>3. /\ ctl' \in Ctls /\ ctl'.estop = TRUE /\ ctl'.run = "ending"
        /\ ctl'.context = ctl.context /\ ctl.sources \subseteq ctl'.sources
    BY <1>1, <1>2 DEF Ctls
  <1>4. Marks
    BY <1>1, TypeParts, MarksIs
  <1>5. Less
    BY <1>1, SpendLess DEF Events
  <1>6. Errs(ctl', sync')
    BY <1>1, <1>3, CtlRecord DEF Errs, Syncs
  <1> QED
    BY <1>1, <1>3, <1>4, <1>5, <1>6, TypeParts, TypePartsNext DEF Marks, Less

LEMMA GuiStopDoes ==
    ASSUME TypeInv, GuiStop
    PROVE  /\ TypeInv' /\ Marks /\ Less /\ UNCHANGED <<plc, svc, tx, poll, sync, fast, hist>>
           /\ ctl.sources \subseteq ctl'.sources /\ ctl'.estop = TRUE /\ ctl'.run = ctl.run
           /\ halting' = (halting \/ ~ctl.estop)
  <1>1. /\ ctl' = Stopped(ctl, {Gui}) /\ halting' = (halting \/ ~ctl.estop)
        /\ Spend("gui_stop") /\ UNCHANGED <<plc, svc, tx, poll, sync, fast, hist>>
    BY DEF GuiStop
  <1>2. {Gui} \in SUBSET Recoverable
    BY DEF Recoverable
  <1>3. /\ ctl' \in Ctls /\ ctl'.estop = TRUE /\ ctl'.run = ctl.run
        /\ ctl'.context = ctl.context /\ ctl'.sources = ctl.sources \cup {Gui}
    BY <1>1, <1>2, TypeParts, StoppedIs
  <1>4. Marks
    BY <1>1, TypeParts, MarksIs
  <1>5. Less
    BY <1>1, SpendLess DEF Events
  <1>6. Errs(ctl', sync') /\ halting' \in BOOLEAN
    BY <1>1, <1>3, TypeParts DEF Errs
  <1> QED
    BY <1>1, <1>3, <1>4, <1>5, <1>6, TypeParts, TypePartsNext DEF Marks, Less

\* The running task is cancelled.
LEMMA CancelDoes ==
    ASSUME TypeInv, ctl' = Cancelled(ctl), Cuts(ctl')
    PROVE  /\ ctl' \in Ctls /\ Errs(ctl', sync')
           /\ ctl'.sources = ctl.sources /\ ctl'.estop = ctl.estop /\ ctl'.run = "idle"
           /\ hist' = [hist EXCEPT !.cut = @ \/ ctl.run # "idle"] /\ UNCHANGED plc => Marks
  <1>1. /\ ctl' \in Ctls /\ ctl'.run = "idle" /\ ctl'.sources = ctl.sources
        /\ ctl'.estop = ctl.estop /\ ctl'.context = ctl.context
    BY TypeParts, CancelledIs
  <1>2. Errs(ctl', sync')
    BY <1>1, TypeParts, CutsErrs
  <1>3. (hist.cut \/ ctl.run # "idle") \in BOOLEAN /\ hist \in Hists
    BY TypeParts
  <1> QED
    BY <1>1, <1>2, <1>3, MarksIs

LEMMA GuiStopReturnsDoes ==
    ASSUME TypeInv, GuiStopReturns
    PROVE  /\ TypeInv' /\ Marks /\ Less /\ UNCHANGED <<plc, svc, tx, poll, fast>>
           /\ ctl'.sources = ctl.sources /\ ctl'.estop = ctl.estop /\ ctl'.run = "idle"
  <1>1. /\ halting' = FALSE /\ ctl' = Cancelled(ctl) /\ Cuts(ctl')
        /\ hist' = [hist EXCEPT !.cut = @ \/ ctl.run # "idle"]
        /\ UNCHANGED <<plc, svc, tx, poll, fast, left>>
    BY DEF GuiStopReturns
  <1>2. /\ ctl' \in Ctls /\ Errs(ctl', sync') /\ Marks
        /\ ctl'.sources = ctl.sources /\ ctl'.estop = ctl.estop /\ ctl'.run = "idle"
    BY <1>1, CancelDoes
  <1>3. Less
    BY <1>1, KeptLess
  <1> QED
    BY <1>1, <1>2, <1>3, TypeParts, TypePartsNext DEF Marks, Less

LEMMA FastDoes ==
    ASSUME TypeInv, FastStop \/ FastRearm
    PROVE  /\ TypeInv' /\ Marks /\ Less /\ UNCHANGED <<plc, halting, svc, tx, poll>>
           /\ ctl'.sources = ctl.sources /\ ctl'.estop = ctl.estop
           /\ ctl'.run \in {ctl.run, "idle"}
  <1>1. CASE FastStop
    <2>1. /\ fast' = TRUE /\ ctl' = Cancelled(ctl) /\ Cuts(ctl')
          /\ hist' = [hist EXCEPT !.cut = @ \/ ctl.run # "idle"]
          /\ UNCHANGED <<plc, halting, svc, tx, poll, left>>
      BY <1>1 DEF FastStop
    <2>2. /\ ctl' \in Ctls /\ Errs(ctl', sync') /\ Marks
          /\ ctl'.sources = ctl.sources /\ ctl'.estop = ctl.estop /\ ctl'.run = "idle"
      BY <2>1, CancelDoes
    <2>3. Less
      BY <2>1, KeptLess
    <2> QED
      BY <2>1, <2>2, <2>3, TypeParts, TypePartsNext DEF Marks, Less
  <1>2. CASE FastRearm
    <2>1. fast' = FALSE /\ UNCHANGED <<plc, ctl, halting, svc, tx, poll, sync, left, hist>>
      BY <1>2 DEF FastRearm
    <2>2. Marks /\ Less
      BY <2>1, TypeParts, MarksIs, KeptLess
    <2> QED
      BY <2>1, <2>2, TypeParts, TypePartsNext DEF Marks, Less
  <1> QED
    BY <1>1, <1>2

\* A recovered run is one that has a checkpoint, or the same.
LEMMA RecoveredErrs ==
    ASSUME TypeInv, NEW command, NEW S, Cuts(Recovered(ctl, command, S))
    PROVE  /\ Recovered(ctl, command, S) \in Ctls
           /\ Recovered(ctl, command, S).estop = FALSE
           /\ Errs(Recovered(ctl, command, S), sync')
  <1> DEFINE e == Recovered(ctl, command, S)
  <1>1. ctl \in Ctls /\ Errs(ctl, sync)
    BY TypeParts
  <1>2. /\ e \in Ctls /\ e.estop = FALSE /\ e.run \in {"idle", "running", ctl.run}
        /\ e.run # "idle" => e.run = ctl.run \/ ctl.context
        /\ ~ctl.context /\ e.run # "idle" => e.run = ctl.run /\ ~e.context
    BY <1>1, RecoveredIs
  <1>3. sync' = IF e.run = "idle" THEN "no" ELSE sync
    BY DEF Cuts
  <1> HIDE DEF e
  <1>4. Errs(e, sync')
    BY <1>1, <1>2, <1>3, CtlRecord DEF Errs, Syncs
  <1> QED
    BY <1>2, <1>4 DEF e

LEMMA GuiRecoveryDoes ==
    ASSUME TypeInv, NEW command \in {1, 2}, GuiRecovery(command)
    PROVE  /\ TypeInv' /\ Marks /\ Less /\ UNCHANGED <<plc, halting, svc, tx, poll, fast>>
           /\ svc.sources = {} /\ ~Active /\ LockFree /\ ctl'.estop = FALSE
  <1>1. /\ svc.sources = {} /\ ~Active /\ LockFree
        /\ ctl' = Recovered(ctl, command, GuiReleases) /\ Cuts(ctl')
        /\ hist' = [hist EXCEPT !.cut = FALSE]
        /\ Spend("gui_recovery") /\ UNCHANGED <<plc, halting, svc, tx, poll, fast>>
    BY DEF GuiRecovery
  <1>2. ctl' \in Ctls /\ ctl'.estop = FALSE /\ Errs(ctl', sync')
    BY <1>1, RecoveredErrs
  <1>3. Marks
    BY <1>1, TypeParts, MarksIs
  <1>4. Less
    BY <1>1, SpendLess DEF Events
  <1> QED
    BY <1>1, <1>2, <1>3, <1>4, TypeParts, TypePartsNext DEF Marks, Less

\* The service's latches stay what they are.
SameLatches ==
    /\ svc' \in Svcs /\ svc'.sources = svc.sources /\ svc'.confirmed = svc.confirmed
    /\ svc'.origins = svc.origins

LEMMA PreflightDoes ==
    ASSUME TypeInv, Preflight \/ PreflightFails
    PROVE  /\ TypeInv' /\ Marks /\ Less
           /\ UNCHANGED <<plc, ctl, halting, tx, poll, sync, fast, hist>>
           /\ LockFree /\ ~Active /\ SameLatches
  <1>1. /\ LockFree /\ ~Active /\ Spend("preflight")
        /\ UNCHANGED <<plc, ctl, halting, tx, poll, sync, fast, hist>>
    BY DEF Preflight, PreflightFails
  <1>2. SameLatches
    <2>1. CASE Preflight
      <3>1. PICK w \in {plc, Garbled} :
              LET v == Withdrawn(Cached(svc, w), w)
              IN  svc' = IF Fault(w) THEN [v EXCEPT !.safety = "fault"] ELSE Observed(v, w)
        BY <2>1 DEF Preflight
      <3> DEFINE x == Cached(svc, w)
                 v == Withdrawn(x, w)
                 o == Observed(v, w)
      <3>2. svc \in Svcs /\ w \in Samples
        BY TypeParts DEF Samples
      <3>3. /\ x \in Svcs /\ x.sources = svc.sources /\ x.confirmed = svc.confirmed
            /\ x.origins = svc.origins
        BY <3>2, CachedIs
      <3> HIDE DEF x
      <3>4. /\ v \in Svcs /\ v.sources = svc.sources /\ v.confirmed = svc.confirmed
            /\ v.origins = svc.origins
        BY <3>3, WithdrawnIs
      <3> HIDE DEF v
      <3>5. /\ o \in Svcs /\ o.sources = svc.sources /\ o.confirmed = svc.confirmed
            /\ o.origins = svc.origins
        BY <3>4, ObservedIs
      <3>6. svc' = [v EXCEPT !.safety = "fault"] \/ svc' = o
        BY <3>1 DEF v, x
      <3> HIDE DEF o
      <3> QED
        BY <3>4, <3>5, <3>6 DEF SameLatches, Svcs
    <2>2. CASE PreflightFails
      BY <2>2, TypeParts, DisconnectedIs DEF PreflightFails, SameLatches
    <2> QED
      BY <2>1, <2>2
  <1>3. Marks
    BY <1>1, TypeParts, MarksIs
  <1>4. Less
    BY <1>1, SpendLess DEF Events
  <1> QED
    BY <1>1, <1>2, <1>3, <1>4, TypeParts, TypePartsNext DEF Marks, Less, SameLatches

LEMMA LoweredDoes ==
    ASSUME TypeInv, NEW restarted \in BOOLEAN, Lowered(restarted)
    PROVE  /\ plc' \in Words /\ plc' \in {plc, [plc EXCEPT ![3] = 0]}
           /\ Marks /\ sync' = "no" /\ fast' = FALSE
  <1>1. plc \in Words /\ [plc EXCEPT ![3] = 0] \in Words /\ hist \in Hists
    BY TypeParts, WordSet
  <1>2. plc' \in {plc, [plc EXCEPT ![3] = 0]} /\ sync' = "no" /\ fast' = FALSE
    BY DEF Lowered
  <1>3. hist' = [hist EXCEPT !.zero = @ \/ plc' = Zero, !.cut = @ /\ ~restarted]
    BY DEF Lowered
  <1>4. Marks
    BY <1>1, <1>3 DEF Marks, Hists
  <1> QED
    BY <1>1, <1>2, <1>4

LEMMA DisconnectDoes ==
    ASSUME TypeInv, Disconnect
    PROVE  /\ TypeInv' /\ Marks /\ Less /\ UNCHANGED <<ctl, halting, tx>>
           /\ plc' \in {plc, [plc EXCEPT ![3] = 0]}
           /\ ctl.run = "idle" /\ ~Active /\ SameLatches /\ poll'.at = "off"
  <1>1. /\ ctl.run = "idle" /\ ~Active /\ Spend("disconnect") /\ Lowered(FALSE)
        /\ svc' = [Disconnected(svc) EXCEPT !.fresh = TRUE]
        /\ Goto("off") /\ UNCHANGED <<ctl, halting, tx>>
    BY DEF Disconnect, Goto
  <1>2. /\ plc' \in Words /\ plc' \in {plc, [plc EXCEPT ![3] = 0]}
        /\ Marks /\ sync' = "no" /\ fast' = FALSE
    BY <1>1, LoweredDoes
  <1>3. SameLatches
    <2> DEFINE x == Disconnected(svc)
    <2>1. /\ x \in Svcs /\ x.sources = svc.sources /\ x.confirmed = svc.confirmed
          /\ x.origins = svc.origins
      BY TypeParts, DisconnectedIs
    <2>2. svc' = [x EXCEPT !.fresh = TRUE]
      BY <1>1
    <2> HIDE DEF x
    <2> QED
      BY <2>1, <2>2 DEF Svcs, SameLatches
  <1>4. Less
    BY <1>1, SpendLess DEF Events
  <1>5. poll' \in Polls /\ poll'.at = "off"
    BY <1>1, RestIs
  <1>6. Errs(ctl', sync')
    BY <1>1, <1>2, TypeParts DEF Errs, Syncs
  <1> QED
    BY <1>1, <1>2, <1>3, <1>4, <1>5, <1>6, TypeParts, TypePartsNext DEF Marks, Less, SameLatches

LEMMA ConnectDoes ==
    ASSUME TypeInv, Connect
    PROVE  /\ TypeInv' /\ Marks /\ Less
           /\ UNCHANGED <<plc, ctl, halting, svc, tx, sync, fast, hist>>
           /\ poll.at = "off" /\ poll'.at = "idle"
  <1>1. /\ poll.at = "off" /\ Rest
        /\ UNCHANGED <<plc, ctl, halting, svc, tx, sync, fast, left, hist>>
    BY DEF Connect
  <1>2. poll' \in Polls /\ poll'.at = "idle"
    BY <1>1, RestIs
  <1>3. Marks /\ Less
    BY <1>1, TypeParts, MarksIs, KeptLess
  <1> QED
    BY <1>1, <1>2, <1>3, TypeParts, TypePartsNext DEF Marks, Less

LEMMA StartedIs ==
    ASSUME NEW t \in Txs
    PROVE  LET e == Started(t)
           IN  /\ e \in Svcs /\ e.connected = FALSE /\ e.fresh = TRUE
               /\ e.sources = RestoredSources(t) /\ e.confirmed = {}
               /\ e.origins \subseteq e.sources
  BY DEF Started, RestoredSources, RestoredOrigins, Svcs, Txs, Samples

LEMMA RestartDoes ==
    ASSUME TypeInv, Restart
    PROVE  /\ TypeInv' /\ Marks /\ Less /\ UNCHANGED tx
           /\ plc' \in {plc, [plc EXCEPT ![3] = 0]}
           /\ svc'.connected = FALSE /\ svc'.fresh = TRUE
           /\ svc'.sources = RestoredSources(tx) /\ svc'.confirmed = {}
           /\ svc'.origins \subseteq svc'.sources
           /\ ctl'.estop = FALSE /\ poll'.at = "idle" /\ sync' = "no"
  <1>1. /\ Spend("crash") /\ Lowered(TRUE) /\ svc' = Started(tx)
        /\ ctl' = FreshController /\ halting' = FALSE /\ Rest /\ UNCHANGED tx
    BY DEF Restart
  <1>2. /\ plc' \in Words /\ plc' \in {plc, [plc EXCEPT ![3] = 0]}
        /\ Marks /\ sync' = "no" /\ fast' = FALSE
    BY <1>1, LoweredDoes
  <1>3. /\ svc' \in Svcs /\ svc'.connected = FALSE /\ svc'.fresh = TRUE
        /\ svc'.sources = RestoredSources(tx) /\ svc'.confirmed = {}
        /\ svc'.origins \subseteq svc'.sources
    BY <1>1, TypeParts, StartedIs
  <1>4. Less
    BY <1>1, SpendLess DEF Events
  <1>5. poll' \in Polls /\ poll'.at = "idle"
    BY <1>1, RestIs
  <1>6. ctl' \in Ctls /\ ctl'.estop = FALSE /\ Errs(ctl', sync')
    BY <1>1, <1>2 DEF FreshController, Ctls, Errs, Syncs
  <1> QED
    BY <1>1, <1>2, <1>3, <1>4, <1>5, <1>6, TypeParts, TypePartsNext DEF Marks, Less

\* The poll task has gone off line: the latches stay, the place is at rest.
Raised == SameLatches /\ svc'.connected = FALSE /\ svc'.fresh = svc.fresh /\ poll'.at = "idle"

LEMMA RaisedIs ==
    ASSUME TypeInv, PollRaises
    PROVE  Raised /\ poll' \in Polls
  <1>1. /\ svc' \in Svcs /\ svc'.sources = svc.sources /\ svc'.confirmed = svc.confirmed
        /\ svc'.origins = svc.origins /\ svc'.connected = FALSE /\ svc'.fresh = svc.fresh
    BY TypeParts, DisconnectedIs DEF PollRaises
  <1>2. poll' \in Polls /\ poll'.at = "idle"
    BY RestIs DEF PollRaises
  <1> QED
    BY <1>1, <1>2 DEF Raised, SameLatches

\* A sample is taken.
Sampled(w) ==
    /\ SameLatches /\ svc'.connected = TRUE /\ svc'.fresh = svc.fresh
    /\ poll'.at = "held" /\ poll'.seen = w
    /\ poll'.recon = (~svc.connected \/ svc.fresh)

LEMMA SampledIs ==
    ASSUME TypeInv, NEW w \in Samples,
           poll' = [AtRest EXCEPT !.at = "held", !.seen = w,
                                  !.recon = ~svc.connected \/ svc.fresh],
           svc' = [svc EXCEPT !.connected = TRUE]
    PROVE  Sampled(w) /\ poll' \in Polls
  <1>1. svc \in Svcs
    BY TypeParts
  <1>2. /\ svc' \in Svcs /\ svc'.sources = svc.sources /\ svc'.confirmed = svc.confirmed
        /\ svc'.origins = svc.origins /\ svc'.connected = TRUE /\ svc'.fresh = svc.fresh
    BY <1>1 DEF Svcs
  <1> DEFINE r == ~svc.connected \/ svc.fresh
  <1>3. r \in BOOLEAN
    OBVIOUS
  <1>4. poll' = [AtRest EXCEPT !.at = "held", !.seen = w, !.recon = r]
    OBVIOUS
  <1> HIDE DEF r
  <1>5. poll' \in Polls /\ poll'.at = "held" /\ poll'.seen = w /\ poll'.recon = r
    BY <1>3, <1>4 DEF AtRest, Polls, Samples, Answers
  <1> QED
    BY <1>2, <1>5 DEF Sampled, SameLatches, r

LEMMA PollReadsDoes ==
    ASSUME TypeInv, PollReads
    PROVE  /\ TypeInv' /\ Marks /\ Less /\ UNCHANGED <<plc, ctl, halting, tx, sync, fast>>
           /\ poll.at = "idle" /\ (Raised \/ Sampled(plc))
  <1>1. /\ poll.at = "idle" /\ UNCHANGED <<ctl, halting, tx, sync, fast>>
    BY DEF PollReads
  <1>2. plc \in Samples
    BY TypeParts DEF Samples
  <1>3. ReadFails \/ ReadWorks
    BY DEF PollReads
  <1>4. UNCHANGED <<plc, hist>> /\ Less /\ Marks
    BY <1>3, ReadsAre
  <1>5. (Raised \/ Sampled(plc)) /\ poll' \in Polls
    <2>1. CASE PollRaises
      BY <2>1, RaisedIs
    <2>2. CASE /\ poll' = [AtRest EXCEPT !.at = "held", !.seen = plc,
                                         !.recon = ~svc.connected \/ svc.fresh]
               /\ svc' = [svc EXCEPT !.connected = TRUE]
      BY <1>2, <2>2, SampledIs
    <2> QED
      BY <2>1, <2>2 DEF PollReads
  <1>6. svc' \in Svcs
    BY <1>5 DEF Raised, Sampled, SameLatches
  <1> QED
    BY <1>1, <1>4, <1>5, <1>6, TypeParts, TypePartsNext DEF Marks, Less

LEMMA PollReadsGarbledDoes ==
    ASSUME TypeInv, PollReadsGarbled
    PROVE  /\ TypeInv' /\ Marks /\ Less /\ UNCHANGED <<plc, ctl, halting, tx, sync, fast>>
           /\ poll.at = "idle" /\ Sampled(Garbled) /\ left["garbled"] > 0
  <1>1. /\ poll.at = "idle" /\ UNCHANGED <<plc, ctl, halting, tx, sync, fast, hist>>
        /\ Spend("garbled") /\ left["garbled"] > 0
        /\ poll' = [AtRest EXCEPT !.at = "held", !.seen = Garbled,
                                  !.recon = ~svc.connected \/ svc.fresh]
        /\ svc' = [svc EXCEPT !.connected = TRUE]
    BY DEF PollReadsGarbled, Spend
  <1>2. Sampled(Garbled) /\ poll' \in Polls
    BY <1>1, SampledIs DEF Samples
  <1>3. Less /\ Marks
    BY <1>1, TypeParts, MarksIs, SpendLess DEF Events
  <1>4. svc' \in Svcs
    BY <1>2 DEF Sampled, SameLatches
  <1> QED
    BY <1>1, <1>2, <1>3, <1>4, TypeParts, TypePartsNext DEF Marks, Less

LEMMA EstopReturnsDoes ==
    ASSUME TypeInv, EstopReturns
    PROVE  /\ TypeInv' /\ Marks /\ Less /\ UNCHANGED <<plc, halting, tx, fast>>
           /\ poll.at = "estop"
           /\ ctl'.sources = ctl.sources /\ ctl'.estop = ctl.estop /\ ctl'.run = "idle"
           /\ \/ Raised
              \/ UNCHANGED svc /\ poll'.at = "ensured" /\ poll'.seen = poll.seen
                 /\ poll'.recon = poll.recon
  <1>1. /\ poll.at = "estop" /\ ctl' = Cancelled(ctl) /\ Cuts(ctl')
        /\ hist' = [hist EXCEPT !.cut = @ \/ ctl.run # "idle"]
        /\ UNCHANGED <<plc, halting, tx, fast>>
    BY DEF EstopReturns
  <1>2. /\ ctl' \in Ctls /\ Errs(ctl', sync') /\ Marks
        /\ ctl'.sources = ctl.sources /\ ctl'.estop = ctl.estop /\ ctl'.run = "idle"
    BY <1>1, CancelDoes
  <1>3. CASE /\ Spend("fault") /\ Rest
             /\ svc' = Disconnected([svc EXCEPT !.previous = poll.seen])
    <2> DEFINE u == [svc EXCEPT !.previous = poll.seen]
    <2>1. svc \in Svcs /\ poll.seen \in Samples
      BY TypeParts DEF Polls
    <2>2. /\ u \in Svcs /\ u.sources = svc.sources /\ u.confirmed = svc.confirmed
          /\ u.origins = svc.origins /\ u.fresh = svc.fresh
      BY <2>1 DEF Svcs
    <2>3. svc' = Disconnected(u)
      BY <1>3
    <2> HIDE DEF u
    <2>4. /\ svc' \in Svcs /\ svc'.sources = u.sources /\ svc'.confirmed = u.confirmed
          /\ svc'.origins = u.origins /\ svc'.connected = FALSE /\ svc'.fresh = u.fresh
      BY <2>2, <2>3, DisconnectedIs
    <2>5. poll' \in Polls /\ poll'.at = "idle"
      BY <1>3, RestIs
    <2>6. Less
      BY <1>3, SpendLess DEF Events
    <2> QED
      BY <1>1, <1>2, <2>2, <2>4, <2>5, <2>6, TypeParts, TypePartsNext
         DEF Marks, Less, Raised, SameLatches
  <1>4. CASE poll' = [poll EXCEPT !.at = "ensured"] /\ UNCHANGED <<svc, left>>
    <2>1. /\ poll' \in Polls /\ poll'.at = "ensured" /\ poll'.seen = poll.seen
          /\ poll'.recon = poll.recon
      BY <1>4, TypeParts DEF Polls, Holding
    <2>2. Less
      BY <1>4, KeptLess
    <2> QED
      BY <1>1, <1>2, <1>4, <2>1, <2>2, TypeParts, TypePartsNext DEF Marks, Less
  <1> QED
    BY <1>3, <1>4 DEF EstopReturns

\* The deferred resume is taken up when the registers still ask for it.
LEMMA RetryReadsDoes ==
    ASSUME TypeInv, RetryReads
    PROVE  /\ TypeInv' /\ Less /\ UNCHANGED <<plc, ctl, halting, sync, fast>>
           /\ poll.at = "retry"
           /\ \/ Raised /\ UNCHANGED <<tx, hist>>
              \/ Validated(svc, ctl) /\ plc[2] = 1
              \/ Waits(svc, ctl) /\ poll'.at = "idle"
  <1>1. poll.at = "retry" /\ UNCHANGED <<ctl, halting, sync, fast>>
    BY DEF RetryReads
  <1>2. CASE ReadFails /\ PollRaises /\ UNCHANGED tx
    <2>1. UNCHANGED <<plc, hist>> /\ Less
      BY <1>2, ReadsAre
    <2>2. Raised /\ poll' \in Polls
      BY <1>2, RaisedIs
    <2> QED
      BY <1>1, <1>2, <2>1, <2>2, TypeParts, TypePartsNext DEF Less, Raised, SameLatches
  <1>3. CASE /\ UNCHANGED <<plc, left>>
             /\ DeferredMatches(svc, plc) /\ Answered(svc, 1, plc, poll.answer)
    <2>1. /\ svc' \in Svcs /\ tx' \in Txs /\ poll' \in Polls /\ hist' \in Hists
          /\ Validated(svc, ctl) \/ (Waits(svc, ctl) /\ poll'.at = "idle")
      BY <1>1, <1>3, TypeParts, AnsweredDoes
    <2>2. plc[2] = 1
      BY <1>3, TypeParts, WordZero DEF DeferredMatches
    <2>3. Less
      BY <1>3, KeptLess
    <2> QED
      BY <1>1, <1>3, <2>1, <2>2, <2>3, TypeParts, TypePartsNext DEF Less
  <1>4. CASE /\ UNCHANGED <<plc, left>>
             /\ svc' = [svc EXCEPT !.deferred = {}] /\ Rest /\ UNCHANGED <<tx, hist>>
    <2>1. /\ svc' \in Svcs /\ Kept(svc)
      BY <1>4, TypeParts, DeferredIs DEF Kept
    <2>2. poll' \in Polls /\ poll'.at = "idle"
      BY <1>4, RestIs
    <2>3. Less
      BY <1>4, KeptLess
    <2> QED
      BY <1>1, <1>4, <2>1, <2>2, <2>3, TypeParts, TypePartsNext DEF Less, Waits
  <1> QED
    BY <1>2, <1>3, <1>4 DEF RetryReads

LEMMA PhaseIs ==
    ASSUME NEW t \in Txs, NEW p \in Phases
    PROVE  LET e == [t EXCEPT !.phase = p]
           IN  e \in Txs /\ e.phase = p /\ e.sources = t.sources
  BY DEF Txs

LEMMA AssertDoes ==
    ASSUME TypeInv, Assert
    PROVE  /\ TypeInv' /\ Less /\ UNCHANGED <<ctl, halting, svc, tx, sync, fast>>
           /\ poll.at = "assert" /\ hist'.recovered = hist.recovered
           /\ \/ /\ plc' = [plc EXCEPT ![3] = 1] /\ poll'.at = "assertRead"
              \/ Touches(3, 1) /\ poll'.at = "undo"
  <1>1. poll.at = "assert" /\ UNCHANGED <<ctl, halting, svc, tx, sync, fast>>
    BY DEF Assert
  <1>2. CASE /\ plc' = [plc EXCEPT ![3] = 1] /\ hist' = [hist EXCEPT !.zero = FALSE]
             /\ Goto("assertRead") /\ UNCHANGED left
    <2>1. plc' \in Words
      BY <1>2, TypeParts, WordSet
    <2>2. hist' \in Hists /\ hist'.recovered = hist.recovered
      BY <1>2, TypeParts DEF Hists
    <2>3. poll' \in Polls /\ poll'.at = "assertRead"
      BY <1>2, RestIs DEF Holding
    <2>4. Less
      BY <1>2, KeptLess
    <2> QED
      BY <1>1, <1>2, <2>1, <2>2, <2>3, <2>4, TypeParts, TypePartsNext DEF Less
  <1>3. CASE WriteFails(3, 1) /\ Goto("undo")
    <2>1. Touches(3, 1)
      BY <1>3, TouchesIs
    <2>2. poll' \in Polls /\ poll'.at = "undo"
      BY <1>3, RestIs DEF Holding
    <2> QED
      BY <1>1, <2>1, <2>2, TypeParts, TypePartsNext DEF Less, Touches, Marks
  <1> QED
    BY <1>2, <1>3 DEF Assert

\* The registers as just read are cached.
SameAs(v) ==
    /\ v \in Svcs /\ v.connected = TRUE /\ v.fresh = svc.fresh
    /\ v.sources = svc.sources /\ v.confirmed = svc.confirmed /\ v.origins = svc.origins

LEMMA SameAsIs ==
    ASSUME TypeInv
    PROVE  /\ SameAs(Cached(svc, plc))
           /\ SameAs([Cached(svc, plc) EXCEPT !.safety = "latched"])
  <1> DEFINE x == Cached(svc, plc)
  <1>1. plc \in Samples /\ svc \in Svcs
    BY TypeParts DEF Samples
  <1>2. SameAs(x)
    BY <1>1, CachedIs DEF SameAs
  <1> HIDE DEF x
  <1>3. SameAs([x EXCEPT !.safety = "latched"])
    BY <1>2 DEF SameAs, Svcs
  <1> QED
    BY <1>2, <1>3 DEF x

\* A handshake is completed in the hand.
LEMMA CompleteTypes ==
    ASSUME TypeInv, NEW v \in Svcs, NEW t \in Txs, Complete(v, ctl, t),
           UNCHANGED <<plc, halting, fast>>
    PROVE  TypeInv' /\ Less
  <1>1. Typed
    BY TypeParts, CompleteDoes
  <1> QED
    BY <1>1, TypeParts, TypePartsNext DEF Typed, Less

LEMMA AssertReadsDoes ==
    ASSUME TypeInv, AssertReads
    PROVE  /\ TypeInv' /\ Less /\ UNCHANGED <<plc, halting, fast>>
           /\ poll.at = "assertRead"
           /\ \/ SameLatches /\ poll'.at = "undo" /\ UNCHANGED <<ctl, tx, sync, hist>>
              \/ /\ plc[3] = 1 /\ SameAs(svc') /\ poll'.at = "idle"
                 /\ tx'.phase = "acknowledged" /\ tx'.sources = tx.sources
                 /\ UNCHANGED <<ctl, sync, hist>>
              \/ \E v : SameAs(v) /\ plc = Zero /\ Complete(v, ctl, Observing(tx))
  <1>1. poll.at = "assertRead" /\ UNCHANGED <<halting, fast>>
    BY DEF AssertReads
  <1>2. CASE ReadFails /\ Goto("undo") /\ UNCHANGED <<ctl, svc, tx, sync>>
    <2>1. UNCHANGED <<plc, hist>> /\ Less
      BY <1>2, ReadsAre
    <2>2. poll' \in Polls /\ poll'.at = "undo"
      BY <1>2, RestIs DEF Holding
    <2> QED
      BY <1>1, <1>2, <2>1, <2>2, TypeParts, TypePartsNext DEF Less, SameLatches
  <1>3. CASE /\ ReadWorks /\ svc' = Cached(svc, plc) /\ Goto("undo")
             /\ UNCHANGED <<ctl, tx, sync>>
    <2>1. UNCHANGED <<plc, hist>> /\ Less
      BY <1>3, ReadsAre
    <2>2. poll' \in Polls /\ poll'.at = "undo"
      BY <1>3, RestIs DEF Holding
    <2>3. SameAs(svc')
      BY <1>3, SameAsIs
    <2> QED
      BY <1>1, <1>3, <2>1, <2>2, <2>3, TypeParts, TypePartsNext DEF Less, SameLatches, SameAs
  <1>4. CASE /\ plc[3] = 1 /\ ReadWorks
             /\ svc' = [Cached(svc, plc) EXCEPT !.safety = "latched"]
             /\ tx' = [tx EXCEPT !.phase = "acknowledged"]
             /\ Rest /\ UNCHANGED <<ctl, sync>>
    <2>1. UNCHANGED <<plc, hist>> /\ Less
      BY <1>4, ReadsAre
    <2>2. poll' \in Polls /\ poll'.at = "idle"
      BY <1>4, RestIs
    <2>3. SameAs(svc')
      BY <1>4, SameAsIs
    <2>4. tx' \in Txs /\ tx'.phase = "acknowledged" /\ tx'.sources = tx.sources
      BY <1>4, TypeParts, PhaseIs DEF Phases, ActivePhases
    <2> QED
      BY <1>1, <1>4, <2>1, <2>2, <2>3, <2>4, TypeParts, TypePartsNext DEF Less, SameAs
  <1>5. CASE /\ plc = Zero /\ UNCHANGED plc
             /\ ReleasedWith([Cached(svc, plc) EXCEPT !.safety = "latched"], ctl, plc)
    <2> DEFINE v == [Cached(svc, plc) EXCEPT !.safety = "latched"]
    <2>1. SameAs(v)
      BY SameAsIs
    <2>2. ReleasedWith(v, ctl, Zero)
      BY <1>5
    <2> HIDE DEF v
    <2>3. Complete(v, ctl, Observing(tx))
      BY <2>2 DEF ReleasedWith, Observing
    <2>4. TypeInv' /\ Less
      BY <1>1, <1>5, <2>1, <2>3, TypeParts, ObservingIs, CompleteTypes DEF SameAs
    <2> QED
      BY <1>1, <1>5, <2>1, <2>3, <2>4
  <1> QED
    BY <1>2, <1>3, <1>4, <1>5 DEF AssertReads

LEMMA UndoDoes ==
    ASSUME TypeInv, Undo
    PROVE  /\ TypeInv' /\ Touches(3, 0) /\ UNCHANGED <<ctl, halting, svc, sync, fast>>
           /\ poll.at = "undo" /\ poll'.at = "idle"
           /\ tx'.phase = "write_failed" /\ tx'.sources = tx.sources
  <1>1. /\ poll.at = "undo" /\ (Write(3, 0) \/ WriteFails(3, 0))
        /\ tx' = [tx EXCEPT !.phase = "write_failed"]
        /\ Rest /\ UNCHANGED <<ctl, halting, svc, sync, fast>>
    BY DEF Undo
  <1>2. Touches(3, 0)
    BY <1>1, TouchesIs
  <1>3. poll' \in Polls /\ poll'.at = "idle"
    BY <1>1, RestIs
  <1>4. tx' \in Txs /\ tx'.phase = "write_failed" /\ tx'.sources = tx.sources
    BY <1>1, TypeParts, PhaseIs DEF Phases
  <1> QED
    BY <1>1, <1>2, <1>3, <1>4, TypeParts, TypePartsNext DEF Less, Touches, Marks

LEMMA LowerDoes ==
    ASSUME TypeInv, Lower
    PROVE  /\ TypeInv' /\ Touches(3, 0) /\ UNCHANGED <<halting, fast>>
           /\ poll.at = "lower"
           /\ \/ /\ UNCHANGED <<ctl, svc, tx, sync>> /\ poll'.at = "lowerRead"
                 /\ plc' = [plc EXCEPT ![3] = 0]
              \/ FailRecovery(svc, ctl, tx)
  <1>1. poll.at = "lower" /\ UNCHANGED <<halting, fast>>
    BY DEF Lower
  <1>2. CASE Write(3, 0) /\ Goto("lowerRead") /\ UNCHANGED <<ctl, svc, tx, sync>>
    <2>1. Touches(3, 0) /\ plc' = [plc EXCEPT ![3] = 0]
      BY <1>2, TouchesIs
    <2>2. poll' \in Polls /\ poll'.at = "lowerRead"
      BY <1>2, RestIs DEF Holding
    <2> QED
      BY <1>1, <1>2, <2>1, <2>2, TypeParts, TypePartsNext DEF Less, Touches, Marks
  <1>3. CASE /\ left["fault"] > 0
             /\ left' = [left EXCEPT !["fault"] = @ - 1]
             /\ \E w \in {plc, [plc EXCEPT ![3] = 0]} : Put(w)
             /\ FailRecovery(svc, ctl, tx)
    <2>1. WriteFails(3, 0)
      BY <1>3 DEF WriteFails, Spend
    <2>2. Touches(3, 0)
      BY <2>1, TouchesIs
    <2>3. /\ svc' \in Svcs /\ ctl' \in Ctls /\ tx' \in Txs /\ poll' \in Polls
          /\ Errs(ctl', sync')
      BY <1>3, TypeParts, FailRecoveryTypes
    <2> QED
      BY <1>1, <1>3, <2>2, <2>3, TypeParts, TypePartsNext DEF Less, Touches, Marks
  <1> QED
    BY <1>2, <1>3 DEF Lower

\* What the readback found set again is latched with the rest.
LEMMA LowerReadsDoes ==
    ASSUME TypeInv, LowerReads
    PROVE  /\ TypeInv' /\ Less /\ UNCHANGED <<plc, halting, fast>>
           /\ poll.at = "lowerRead"
           /\ \/ FailRecovery(svc, ctl, tx) /\ Marks
              \/ \E v : SameAs(v) /\ plc = Zero /\ Complete(v, ctl, tx)
              \/ \E v \in Svcs, t \in Txs, S \in SUBSET {PB2} :
                    /\ Marks /\ FailRecovery(v, ctl, t)
                    /\ v.sources = svc.sources \cup S /\ v.confirmed = svc.confirmed
                    /\ v.origins = svc.origins
                    /\ t.sources = tx.sources \cup S
  <1>1. poll.at = "lowerRead" /\ UNCHANGED <<halting, fast>>
    BY DEF LowerReads
  <1>2. ASSUME NEW v \in Svcs, NEW t \in Txs, FailRecovery(v, ctl, t),
               ReadFails \/ ReadWorks
        PROVE  TypeInv' /\ Less /\ Marks /\ UNCHANGED plc
    <2>1. UNCHANGED <<plc, hist>> /\ Less /\ Marks
      BY <1>2, ReadsAre
    <2>2. /\ svc' \in Svcs /\ ctl' \in Ctls /\ tx' \in Txs /\ poll' \in Polls
          /\ Errs(ctl', sync')
      BY <1>2, TypeParts, FailRecoveryTypes
    <2> QED
      BY <1>1, <2>1, <2>2, TypeParts, TypePartsNext DEF Less, Marks
  <1>3. CASE ReadFails /\ FailRecovery(svc, ctl, tx)
    BY <1>1, <1>2, <1>3, TypeParts
  <1>4. CASE /\ plc = Zero /\ UNCHANGED plc
             /\ Complete(Cached(svc, plc), ctl, tx)
    <2>1. TypeInv' /\ Less
      BY <1>1, <1>4, TypeParts, SameAsIs, CompleteTypes DEF SameAs
    <2> QED
      BY <1>1, <1>4, <2>1, SameAsIs
  <1>5. CASE /\ ReadWorks
             /\ LET again == IF plc[2] = 1 THEN {PB2} ELSE {}
                IN  FailRecovery([Cached(svc, plc) EXCEPT !.sources = @ \cup again],
                                 ctl, [tx EXCEPT !.sources = @ \cup again])
    <2> DEFINE S == IF plc[2] = 1 THEN {PB2} ELSE {}
               x == Cached(svc, plc)
               v == [x EXCEPT !.sources = x.sources \cup S]
               t == [tx EXCEPT !.sources = tx.sources \cup S]
    <2>1. FailRecovery(v, ctl, t)
      BY <1>5
    <2>2. S \in SUBSET {PB2} /\ S \in SUBSET Latched
      BY LatchedRecoverable
    <2>3. SameAs(x)
      BY SameAsIs
    <2> HIDE DEF S, x
    <2>4. /\ v \in Svcs /\ v.sources = svc.sources \cup S
          /\ v.confirmed = svc.confirmed /\ v.origins = svc.origins
      BY <2>2, <2>3 DEF SameAs, Svcs
    <2>5. t \in Txs /\ t.sources = tx.sources \cup S
      BY <2>2, TypeParts DEF Txs
    <2> HIDE DEF v, t
    <2>6. TypeInv' /\ Less /\ Marks /\ UNCHANGED plc
      BY <1>2, <1>5, <2>1, <2>4, <2>5
    <2> QED
      BY <1>1, <2>1, <2>2, <2>4, <2>5, <2>6
  <1> QED
    BY <1>3, <1>4, <1>5 DEF LowerReads

LEMMA FinishDoes ==
    ASSUME TypeInv, Finish
    PROVE  /\ TypeInv' /\ Marks /\ Less /\ UNCHANGED <<plc, ctl, halting, sync, fast, hist>>
           /\ poll.at = "finish" /\ poll'.at = "idle"
           /\ svc' \in Svcs /\ svc'.sources = svc.sources \ tx.sources
           /\ svc'.confirmed = svc.confirmed \ tx.sources
           /\ svc'.origins = svc.origins \ tx.sources
           /\ tx'.phase = "completed" /\ tx'.sources = tx.sources
  <1> DEFINE r == svc.sources \ tx.sources
             k == svc.confirmed \ tx.sources
             o == svc.origins \ tx.sources
             y == IF r = {} THEN "clear" ELSE "latched"
  <1>1. /\ poll.at = "finish" /\ Rest /\ tx' = [tx EXCEPT !.phase = "completed"]
        /\ UNCHANGED <<plc, ctl, halting, sync, fast, left, hist>>
        /\ svc' = [svc EXCEPT !.sources = r, !.confirmed = k, !.origins = o, !.safety = y]
    BY DEF Finish
  <1>2. r \in SUBSET Latched /\ k \in SUBSET Latched /\ o \in SUBSET Latched
        /\ y \in {"clear", "latched", "fault"} /\ svc \in Svcs
    BY TypeParts, SvcRecord
  <1> HIDE DEF r, k, o, y
  <1>3. svc' \in Svcs /\ svc'.sources = r /\ svc'.confirmed = k /\ svc'.origins = o
    BY <1>1, <1>2 DEF Svcs
  <1>4. tx' \in Txs /\ tx'.phase = "completed" /\ tx'.sources = tx.sources
    BY <1>1, TypeParts, PhaseIs DEF Phases
  <1>5. poll' \in Polls /\ poll'.at = "idle"
    BY <1>1, RestIs
  <1>6. Marks /\ Less
    BY <1>1, TypeParts, MarksIs, KeptLess
  <1> QED
    BY <1>1, <1>3, <1>4, <1>5, <1>6, TypeParts, TypePartsNext DEF r, k, o, Marks, Less

LEMMA TimedOutDoes ==
    ASSUME TypeInv, NEW v \in Svcs, TimedOut(v)
    PROVE  /\ svc' \in Svcs /\ svc'.sources = v.sources /\ svc'.confirmed = v.confirmed
           /\ svc'.origins = v.origins
           /\ tx' \in Txs /\ tx'.phase = "timed_out" /\ tx'.sources = tx.sources
           /\ poll' \in Polls /\ poll'.at = "idle"
  <1>1. /\ svc' \in Svcs /\ svc'.sources = v.sources /\ svc'.confirmed = v.confirmed
        /\ svc'.origins = v.origins
    BY DEF TimedOut, Svcs
  <1>2. tx' \in Txs /\ tx'.phase = "timed_out" /\ tx'.sources = tx.sources
    BY TypeParts, PhaseIs DEF TimedOut, Phases
  <1>3. poll' \in Polls /\ poll'.at = "idle"
    BY RestIs DEF TimedOut
  <1> QED
    BY <1>1, <1>2, <1>3

LEMMA ExpireDoes ==
    ASSUME TypeInv, Expire
    PROVE  /\ TypeInv' /\ Touches(3, 0) /\ UNCHANGED <<ctl, halting, sync, fast>>
           /\ poll.at = "expire" /\ SameLatches
           /\ \/ UNCHANGED tx /\ poll'.at = "expireRead" /\ plc' = [plc EXCEPT ![3] = 0]
              \/ poll'.at = "idle" /\ tx'.phase = "timed_out" /\ tx'.sources = tx.sources
  <1>1. poll.at = "expire" /\ UNCHANGED <<ctl, halting, sync, fast>>
    BY DEF Expire
  <1>2. CASE Write(3, 0) /\ Goto("expireRead") /\ UNCHANGED <<svc, tx>>
    <2>1. Touches(3, 0) /\ plc' = [plc EXCEPT ![3] = 0]
      BY <1>2, TouchesIs
    <2>2. poll' \in Polls /\ poll'.at = "expireRead"
      BY <1>2, RestIs DEF Holding
    <2> QED
      BY <1>1, <1>2, <2>1, <2>2, TypeParts, TypePartsNext
         DEF Less, Touches, Marks, SameLatches
  <1>3. CASE WriteFails(3, 0) /\ TimedOut(svc)
    <2>1. Touches(3, 0)
      BY <1>3, TouchesIs
    <2>2. /\ svc' \in Svcs /\ svc'.sources = svc.sources /\ svc'.confirmed = svc.confirmed
          /\ svc'.origins = svc.origins
          /\ tx' \in Txs /\ tx'.phase = "timed_out" /\ tx'.sources = tx.sources
          /\ poll' \in Polls /\ poll'.at = "idle"
      BY <1>3, TypeParts, TimedOutDoes
    <2> QED
      BY <1>1, <2>1, <2>2, TypeParts, TypePartsNext DEF Less, Touches, Marks, SameLatches
  <1> QED
    BY <1>2, <1>3 DEF Expire

LEMMA ExpireReadsDoes ==
    ASSUME TypeInv, ExpireReads
    PROVE  /\ TypeInv' /\ Marks /\ Less /\ UNCHANGED <<plc, ctl, halting, sync, fast>>
           /\ poll.at = "expireRead" /\ SameLatches /\ poll'.at = "idle"
           /\ tx'.phase = "timed_out" /\ tx'.sources = tx.sources
  <1>1. poll.at = "expireRead" /\ UNCHANGED <<ctl, halting, sync, fast>>
    BY DEF ExpireReads
  <1>2. ReadFails \/ ReadWorks
    BY DEF ExpireReads
  <1>3. UNCHANGED <<plc, hist>> /\ Less /\ Marks
    BY <1>2, ReadsAre
  <1>4. PICK v \in Svcs : /\ TimedOut(v) /\ v.sources = svc.sources
                          /\ v.confirmed = svc.confirmed /\ v.origins = svc.origins
    BY TypeParts, SameAsIs DEF ExpireReads, SameAs
  <1>5. /\ svc' \in Svcs /\ svc'.sources = svc.sources /\ svc'.confirmed = svc.confirmed
        /\ svc'.origins = svc.origins
        /\ tx' \in Txs /\ tx'.phase = "timed_out" /\ tx'.sources = tx.sources
        /\ poll' \in Polls /\ poll'.at = "idle"
    BY <1>4, TimedOutDoes
  <1> QED
    BY <1>1, <1>3, <1>5, TypeParts, TypePartsNext DEF Less, Marks, SameLatches

\* The transaction takes the service's sources.
LEMMA SourcesAre ==
    ASSUME TypeInv, NEW b \in BOOLEAN
    PROVE  /\ LET e == [tx EXCEPT !.sources = svc.sources]
              IN  e \in Txs /\ e.sources = svc.sources /\ e.phase = tx.phase
           /\ LET e == [tx EXCEPT !.pcset = b, !.sources = svc.sources]
              IN  e \in Txs /\ e.sources = svc.sources /\ e.phase = tx.phase
  <1>1. svc.sources \in SUBSET Latched /\ tx \in Txs
    BY TypeParts, SvcRecord
  <1> QED
    BY <1>1 DEF Txs

LEMMA ReassertDoes ==
    ASSUME TypeInv, Reassert
    PROVE  /\ TypeInv' /\ Touches(2, 1) /\ UNCHANGED <<ctl, halting, svc, sync, fast>>
           /\ poll.at = "reassert" /\ tx'.phase = tx.phase
           /\ \/ UNCHANGED tx /\ poll'.at = "reassertRead"
              \/ poll'.at = "idle" /\ tx'.sources = svc.sources
  <1>1. poll.at = "reassert" /\ UNCHANGED <<ctl, halting, svc, sync, fast>>
    BY DEF Reassert
  <1>2. CASE Write(2, 1) /\ Goto("reassertRead") /\ UNCHANGED tx
    <2>1. Touches(2, 1)
      BY <1>2, TouchesIs
    <2>2. poll' \in Polls /\ poll'.at = "reassertRead"
      BY <1>2, RestIs DEF Holding
    <2> QED
      BY <1>1, <1>2, <2>1, <2>2, TypeParts, TypePartsNext DEF Less, Touches, Marks
  <1>3. CASE WriteFails(2, 1) /\ Rest /\ tx' = [tx EXCEPT !.sources = svc.sources]
    <2>1. Touches(2, 1)
      BY <1>3, TouchesIs
    <2>2. poll' \in Polls /\ poll'.at = "idle"
      BY <1>3, RestIs
    <2>3. tx' \in Txs /\ tx'.sources = svc.sources /\ tx'.phase = tx.phase
      BY <1>3, SourcesAre
    <2> QED
      BY <1>1, <2>1, <2>2, <2>3, TypeParts, TypePartsNext DEF Less, Touches, Marks
  <1> QED
    BY <1>2, <1>3 DEF Reassert

LEMMA ReassertReadsDoes ==
    ASSUME TypeInv, ReassertReads
    PROVE  /\ TypeInv' /\ Marks /\ Less /\ UNCHANGED <<plc, ctl, halting, sync, fast>>
           /\ poll.at = "reassertRead" /\ SameLatches /\ poll'.at = "idle"
           /\ tx'.phase = tx.phase /\ tx'.sources = svc.sources
  <1>1. poll.at = "reassertRead" /\ Rest /\ UNCHANGED <<ctl, halting, sync, fast>>
    BY DEF ReassertReads
  <1>2. poll' \in Polls /\ poll'.at = "idle"
    BY <1>1, RestIs
  <1>3. ReadFails \/ ReadWorks
    BY DEF ReassertReads
  <1>4. UNCHANGED <<plc, hist>> /\ Less /\ Marks
    BY <1>3, ReadsAre
  <1>5. SameLatches
    BY TypeParts, SameAsIs DEF ReassertReads, SameAs, SameLatches
  <1>6. tx' \in Txs /\ tx'.sources = svc.sources /\ tx'.phase = tx.phase
    BY SourcesAre DEF ReassertReads
  <1> QED
    BY <1>1, <1>2, <1>4, <1>5, <1>6, TypeParts, TypePartsNext DEF Less, Marks, SameLatches

LEMMA ClearDoes ==
    ASSUME TypeInv, Clear
    PROVE  /\ TypeInv' /\ Touches(3, 0) /\ UNCHANGED <<ctl, halting, svc, sync, fast>>
           /\ poll.at = "clear"
           /\ \/ UNCHANGED tx /\ poll'.at = "clearRead"
              \/ /\ poll'.at = "idle" /\ tx'.phase = "recovery_required"
                 /\ tx'.sources = tx.sources
  <1>1. poll.at = "clear" /\ UNCHANGED <<ctl, halting, svc, sync, fast>>
    BY DEF Clear
  <1>2. CASE Write(3, 0) /\ Goto("clearRead") /\ UNCHANGED tx
    <2>1. Touches(3, 0)
      BY <1>2, TouchesIs
    <2>2. poll' \in Polls /\ poll'.at = "clearRead"
      BY <1>2, RestIs DEF Holding
    <2> QED
      BY <1>1, <1>2, <2>1, <2>2, TypeParts, TypePartsNext DEF Less, Touches, Marks
  <1>3. CASE WriteFails(3, 0) /\ Rest /\ tx' = [tx EXCEPT !.phase = "recovery_required"]
    <2>1. Touches(3, 0)
      BY <1>3, TouchesIs
    <2>2. poll' \in Polls /\ poll'.at = "idle"
      BY <1>3, RestIs
    <2>3. tx' \in Txs /\ tx'.sources = tx.sources /\ tx'.phase = "recovery_required"
      BY <1>3, TypeParts, PhaseIs DEF Phases
    <2> QED
      BY <1>1, <2>1, <2>2, <2>3, TypeParts, TypePartsNext DEF Less, Touches, Marks
  <1> QED
    BY <1>2, <1>3 DEF Clear

LEMMA ClearReadsDoes ==
    ASSUME TypeInv, ClearReads
    PROVE  /\ TypeInv' /\ Marks /\ Less /\ UNCHANGED <<plc, ctl, halting, sync, fast>>
           /\ poll.at = "clearRead" /\ SameLatches /\ poll'.at = "idle"
           /\ tx'.phase \in {tx.phase, "recovery_required"} /\ tx'.sources = tx.sources
  <1>1. poll.at = "clearRead" /\ Rest /\ UNCHANGED <<ctl, halting, sync, fast>>
    BY DEF ClearReads
  <1>2. poll' \in Polls /\ poll'.at = "idle"
    BY <1>1, RestIs
  <1>3. ReadFails \/ ReadWorks
    BY DEF ClearReads
  <1>4. UNCHANGED <<plc, hist>> /\ Less /\ Marks
    BY <1>3, ReadsAre
  <1>5. SameLatches
    BY TypeParts, SameAsIs DEF ClearReads, SameAs, SameLatches
  <1>6. tx' = tx \/ tx' = [tx EXCEPT !.phase = "recovery_required"]
    BY DEF ClearReads
  <1>7. /\ tx' \in Txs /\ tx'.sources = tx.sources
        /\ tx'.phase \in {tx.phase, "recovery_required"}
    <2>1. CASE tx' = tx
      BY <2>1, TypeParts
    <2>2. CASE tx' = [tx EXCEPT !.phase = "recovery_required"]
      BY <2>2, TypeParts, PhaseIs DEF Phases
    <2> QED
      BY <1>6, <2>1, <2>2
  <1> QED
    BY <1>1, <1>2, <1>4, <1>5, <1>7, TypeParts, TypePartsNext DEF Less, Marks, SameLatches

LEMMA SyncFailedIs ==
    ASSUME NEW t \in Txs
    PROVE  /\ SyncFailed(t) \in Txs /\ SyncFailed(t).sources = t.sources
           /\ SyncFailed(t).phase = IF Active THEN t.phase ELSE "estop_sync_failed"
  BY PhaseIs DEF SyncFailed, Phases

\* The Controller after sync_estop.
LEMMA SyncedIs ==
    ASSUME NEW c \in Ctls, ctl' = Cancelled(c), sync' = "no"
    PROVE  /\ ctl' \in Ctls /\ Errs(ctl', sync') /\ ctl'.run = "idle"
           /\ ctl'.sources = c.sources /\ ctl'.estop = c.estop
  BY CancelledIs DEF Errs, Syncs

LEMMA SyncAcquireDoes ==
    ASSUME TypeInv, SyncAcquire
    PROVE  /\ TypeInv' /\ Marks /\ Less /\ UNCHANGED <<plc, tx, halting, poll, fast>>
           /\ LockFree
           /\ svc'.sources = svc.sources \cup {Terminal}
           /\ svc'.confirmed = svc.confirmed /\ svc'.origins = svc.origins
           /\ svc'.connected = svc.connected /\ svc'.fresh = svc.fresh
           /\ sync' \in Latching
           /\ ctl'.sources = ctl.sources \cup {Terminal} /\ ctl'.estop = TRUE
           /\ ctl'.run = ctl.run /\ ctl.run = "ending"
  <1>1. /\ sync = "waiting" /\ LockFree
        /\ UNCHANGED <<plc, halting, tx, poll, fast, left, hist>>
        /\ svc' = [svc EXCEPT !.sources = svc.sources \cup {Terminal}, !.safety = "latched"]
        /\ ctl' = Stopped(ctl, {Terminal})
        /\ sync' \in Latching
    BY DEF SyncAcquire, Latching
  <1>2. svc.sources \cup {Terminal} \in SUBSET Latched /\ {Terminal} \in SUBSET Recoverable
    BY LatchedRecoverable, TypeParts, SvcRecord
  <1>3. /\ svc' \in Svcs /\ svc'.sources = svc.sources \cup {Terminal}
        /\ svc'.confirmed = svc.confirmed /\ svc'.origins = svc.origins
        /\ svc'.connected = svc.connected /\ svc'.fresh = svc.fresh
    BY <1>1, <1>2, TypeParts DEF Svcs
  <1>4. /\ ctl' \in Ctls /\ ctl'.estop = TRUE /\ ctl'.run = ctl.run
        /\ ctl'.context = ctl.context /\ ctl'.sources = ctl.sources \cup {Terminal}
    BY <1>1, <1>2, TypeParts, StoppedIs
  <1>5. ctl.run = "ending" /\ Errs(ctl, sync)
    BY <1>1, TypeParts DEF Errs
  <1>6. Marks /\ Less
    BY <1>1, TypeParts, MarksIs, KeptLess
  <1>7. Errs(ctl', sync')
    BY <1>1, <1>4, <1>5 DEF Errs, Syncs, Latching
  <1> QED
    BY <1>1, <1>3, <1>4, <1>5, <1>6, <1>7, TypeParts, TypePartsNext DEF Marks, Less

LEMMA SyncLatchedDoes ==
    ASSUME TypeInv, SyncLatched
    PROVE  /\ TypeInv' /\ Marks /\ Less /\ UNCHANGED <<plc, halting, poll, fast>>
           /\ sync \in Latching
           /\ svc'.sources = svc.sources \cup {Terminal}
           /\ svc'.confirmed = svc.confirmed \cup {Terminal}
           /\ svc'.origins \in {svc.origins \cup {Terminal}, svc.origins \ {Terminal}}
           /\ svc'.connected = svc.connected /\ svc'.fresh = svc.fresh
           /\ svc.connected => Terminal \in svc'.origins
           /\ sync' = IF svc.connected THEN "write" ELSE "no"
           /\ ctl'.sources = ctl.sources /\ ctl'.estop = ctl.estop
           /\ ctl'.run \in {ctl.run, "idle"} /\ ctl.run = "ending"
           /\ IF Active THEN tx'.phase = tx.phase /\ tx'.sources = tx.sources \cup svc'.sources
              ELSE /\ tx'.phase \in {"terminal_estop", "estop_sync_failed"}
                   /\ tx'.sources = svc'.sources
  <1> DEFINE v == Ensured(svc, {Terminal})
             t == IF Active THEN [tx EXCEPT !.sources = tx.sources \cup v.sources]
                  ELSE [phase |-> "terminal_estop", command |-> 0, pcset |-> FALSE,
                        sources |-> v.sources]
  <1>1. /\ sync \in Latching /\ UNCHANGED <<plc, halting, poll, fast, left, hist>>
        /\ IF svc.connected
           THEN /\ svc' = [v EXCEPT !.origins = v.origins \cup {Terminal}]
                /\ tx' = t /\ UNCHANGED ctl /\ sync' = "write"
           ELSE /\ svc' = [v EXCEPT !.origins = v.origins \ {Terminal}]
                /\ tx' = SyncFailed(t) /\ ctl' = Cancelled(ctl) /\ sync' = "no"
    BY DEF SyncLatched, Synced, Latching
  <1>2. {Terminal} \in SUBSET Latched /\ {Terminal} \in SUBSET Recoverable
    BY LatchedRecoverable
  <1>3. /\ v \in Svcs /\ v.sources = svc.sources \cup {Terminal}
        /\ v.confirmed = svc.confirmed \cup {Terminal}
        /\ v.origins = svc.origins /\ v.connected = svc.connected /\ v.fresh = svc.fresh
    BY <1>2, TypeParts, EnsuredIs
  <1>4. ctl \in Ctls
    BY TypeParts
  <1> HIDE DEF v
  <1>5. /\ t \in Txs
        /\ IF Active THEN t.phase = tx.phase /\ t.sources = tx.sources \cup v.sources
           ELSE t.phase = "terminal_estop" /\ t.sources = v.sources
    <2>1. v.sources \in SUBSET Latched /\ tx \in Txs
      BY <1>3, TypeParts, SvcRecord
    <2> QED
      BY <2>1 DEF Txs, Phases
  <1>6. ctl.run = "ending" /\ svc.connected \in BOOLEAN /\ Errs(ctl, sync)
    BY <1>1, TypeParts, SvcRecord DEF Errs, Latching
  <1>7. Marks /\ Less
    BY <1>1, TypeParts, MarksIs, KeptLess
  <1> HIDE DEF t
  <1>8. CASE svc.connected
    <2>1. svc' = [v EXCEPT !.origins = v.origins \cup {Terminal}]
      BY <1>1, <1>8
    <2>2. /\ svc' \in Svcs /\ svc'.origins = v.origins \cup {Terminal}
          /\ svc'.sources = v.sources /\ svc'.confirmed = v.confirmed
          /\ svc'.connected = v.connected /\ svc'.fresh = v.fresh
      BY <2>1, <1>2, <1>3 DEF Svcs
    <2>3. Errs(ctl, "write")
      BY <1>4, <1>6 DEF Errs, Syncs
    <2>4. tx' = t /\ ctl' = ctl /\ sync' = "write"
      BY <1>1, <1>8
    <2> QED
      BY <1>1, <1>3, <1>4, <1>5, <1>6, <1>7, <1>8, <2>2, <2>3, <2>4, TypeParts, TypePartsNext
         DEF Marks, Less
  <1>9. CASE ~svc.connected
    <2>1. svc' = [v EXCEPT !.origins = v.origins \ {Terminal}]
      BY <1>1, <1>9
    <2>2. /\ svc' \in Svcs /\ svc'.origins = v.origins \ {Terminal}
          /\ svc'.sources = v.sources /\ svc'.confirmed = v.confirmed
          /\ svc'.connected = v.connected /\ svc'.fresh = v.fresh
      BY <2>1, <1>2, <1>3 DEF Svcs
    <2>3. tx' = SyncFailed(t) /\ ctl' = Cancelled(ctl) /\ sync' = "no"
      BY <1>1, <1>9
    <2>4. /\ ctl' \in Ctls /\ Errs(ctl', sync') /\ ctl'.run = "idle"
          /\ ctl'.sources = ctl.sources /\ ctl'.estop = ctl.estop
      BY <1>4, <2>3, SyncedIs
    <2>5. /\ tx' \in Txs /\ tx'.sources = t.sources
          /\ tx'.phase = IF Active THEN t.phase ELSE "estop_sync_failed"
      BY <1>5, <2>3, SyncFailedIs
    <2> QED
      BY <1>1, <1>3, <1>4, <1>5, <1>6, <1>7, <1>9, <2>2, <2>4, <2>5, TypeParts, TypePartsNext
         DEF Marks, Less
  <1> QED
    BY <1>6, <1>8, <1>9

LEMMA SyncRefusedDoes ==
    ASSUME TypeInv, SyncRefused
    PROVE  /\ TypeInv' /\ Marks /\ Less /\ UNCHANGED <<plc, svc, tx, halting, poll, fast>>
           /\ ctl'.sources = ctl.sources /\ ctl'.estop = ctl.estop
           /\ ctl'.run = "idle" /\ sync' = "no"
  <1>1. /\ Spend("fault") /\ sync' = "no" /\ ctl' = Cancelled(ctl)
        /\ UNCHANGED <<plc, halting, svc, tx, poll, fast, hist>>
    BY DEF SyncRefused, Synced
  <1>2. /\ ctl' \in Ctls /\ Errs(ctl', sync') /\ ctl'.run = "idle"
        /\ ctl'.sources = ctl.sources /\ ctl'.estop = ctl.estop
    BY <1>1, TypeParts, SyncedIs
  <1>3. left' \in [Events -> Nat] /\ Less
    BY <1>1, TypeParts, SpendTypes DEF Events, Less
  <1>4. Marks
    BY <1>1, TypeParts, MarksIs
  <1> QED
    BY <1>1, <1>2, <1>3, <1>4, TypeParts, TypePartsNext DEF Marks, Less

\* The two steps after them: only the transaction and the end of the run.
SyncSteps ==
    /\ sync \in {"write", "readback"}
    /\ ctl'.sources = ctl.sources /\ ctl'.estop = ctl.estop
    /\ ctl'.run \in {ctl.run, "idle"}
    /\ tx'.sources = tx.sources
    /\ tx'.phase \in {tx.phase, "estop_sync_failed"}
    /\ Active => tx'.phase = tx.phase

LEMMA PcsetIs ==
    ASSUME NEW t \in Txs, NEW b \in BOOLEAN
    PROVE  LET e == [t EXCEPT !.pcset = b]
           IN  e \in Txs /\ e.phase = t.phase /\ e.sources = t.sources
  BY DEF Txs

LEMMA SyncWritesDoes ==
    ASSUME TypeInv, SyncWrites
    PROVE  /\ TypeInv' /\ Touches(2, 1) /\ UNCHANGED <<halting, svc, poll, fast>>
           /\ SyncSteps
  <1>1. sync = "write" /\ UNCHANGED <<halting, svc, poll, fast>>
    BY DEF SyncWrites
  <1>2. CASE /\ Write(2, 1) /\ sync' = "readback" /\ tx' = [tx EXCEPT !.pcset = TRUE]
             /\ UNCHANGED ctl
    <2>1. Touches(2, 1)
      BY <1>2, TouchesIs
    <2>2. tx' \in Txs /\ tx'.phase = tx.phase /\ tx'.sources = tx.sources
      BY <1>2, TypeParts, PcsetIs
    <2>3. Errs(ctl', sync')
      BY <1>1, <1>2, TypeParts DEF Errs, Syncs
    <2> QED
      BY <1>1, <1>2, <2>1, <2>2, <2>3, TypeParts, TypePartsNext
         DEF Touches, Marks, Less, SyncSteps
  <1>3. CASE WriteFails(2, 1) /\ Synced /\ tx' = SyncFailed(tx)
    <2>1. Touches(2, 1)
      BY <1>3, TouchesIs
    <2>2. /\ tx' \in Txs /\ tx'.sources = tx.sources
          /\ tx'.phase = IF Active THEN tx.phase ELSE "estop_sync_failed"
      BY <1>3, TypeParts, SyncFailedIs
    <2>3. /\ ctl' \in Ctls /\ Errs(ctl', sync') /\ ctl'.run = "idle"
          /\ ctl'.sources = ctl.sources /\ ctl'.estop = ctl.estop
      BY <1>3, TypeParts, SyncedIs DEF Synced
    <2> QED
      BY <1>1, <2>1, <2>2, <2>3, TypeParts, TypePartsNext DEF Touches, Marks, Less, SyncSteps
  <1> QED
    BY <1>2, <1>3 DEF SyncWrites

LEMMA SyncReadsDoes ==
    ASSUME TypeInv, SyncReads
    PROVE  /\ TypeInv' /\ Marks /\ Less /\ UNCHANGED <<plc, halting, poll, fast>>
           /\ SyncSteps /\ SameLatches
           /\ svc.connected => svc'.connected
           /\ svc'.fresh = svc.fresh
  <1>1. sync = "readback" /\ Synced /\ UNCHANGED <<halting, poll, fast>>
    BY DEF SyncReads
  <1>2. /\ ctl' \in Ctls /\ Errs(ctl', sync') /\ ctl'.run = "idle"
        /\ ctl'.sources = ctl.sources /\ ctl'.estop = ctl.estop
    BY <1>1, TypeParts, SyncedIs DEF Synced
  <1>3. ReadFails \/ ReadWorks
    BY DEF SyncReads
  <1>4. UNCHANGED <<plc, hist>> /\ Less /\ Marks
    BY <1>3, ReadsAre
  <1>5. SameLatches /\ (svc.connected => svc'.connected) /\ svc'.fresh = svc.fresh
    BY TypeParts, SameAsIs DEF SyncReads, SameAs, SameLatches
  <1>6. /\ tx' \in Txs /\ tx'.sources = tx.sources
        /\ tx'.phase \in {tx.phase, "estop_sync_failed"}
        /\ Active => tx'.phase = tx.phase
    <2> DEFINE t == [tx EXCEPT !.pcset = FALSE]
    <2>1. t \in Txs /\ t.phase = tx.phase /\ t.sources = tx.sources
      BY TypeParts, PcsetIs
    <2>2. tx' = SyncFailed(t) \/ tx' = tx \/ tx' = SyncFailed(tx)
      BY DEF SyncReads
    <2> HIDE DEF t
    <2>3. CASE tx' = SyncFailed(t)
      BY <2>1, <2>3, SyncFailedIs
    <2>4. CASE tx' = tx
      BY <2>4, TypeParts
    <2>5. CASE tx' = SyncFailed(tx)
      BY <2>5, TypeParts, SyncFailedIs
    <2> QED
      BY <2>2, <2>3, <2>4, <2>5
  <1> QED
    BY <1>1, <1>2, <1>4, <1>5, <1>6, TypeParts, TypePartsNext
       DEF Marks, Less, SyncSteps, SameLatches

-----------------------------------------------------------------------------
(* The handshake. *)

LEMMA CompleteHandshake ==
    ASSUME TypeInv, NEW v \in Svcs, NEW c \in Ctls, NEW t \in Txs, Errs(c, sync),
           t.phase = "release_observed", hist.zero, ~hist.recovered,
           Complete(v, c, t)
    PROVE  Placed' /\ Recorded' /\ ReleaseIsVerified
  <1>1. /\ hist'.zero = hist.zero
        /\ \/ FailRecovery(v, c, t)
           \/ tx' = t /\ poll'.at = "finish"
           \/ \E d \in Ctls : FailRecovery(v, d, t)
    BY TypeParts, CompleteDoes
  <1>2. CASE tx' = t /\ poll'.at = "finish"
    BY <1>1, <1>2 DEF Placed, Recorded, Judging, ReleaseIsVerified
  <1>3. ASSUME NEW d \in Ctls, FailRecovery(v, d, t)
        PROVE  Placed' /\ Recorded' /\ ReleaseIsVerified
    <2>1. tx'.phase = "failed" /\ poll'.at \in {"idle", "reassert"}
      BY <1>3, FailRecoveryDoes
    <2> QED
      BY <2>1 DEF Placed, Recorded, Judging, ReleaseIsVerified, Releases
  <1> QED
    BY <1>1, <1>2, <1>3

LEMMA FailHandshake ==
    ASSUME NEW v \in Svcs, NEW c \in Ctls, NEW t \in Txs, FailRecovery(v, c, t)
    PROVE  Placed' /\ Recorded' /\ ReleaseIsVerified
  <1>1. tx'.phase = "failed" /\ poll'.at \in {"idle", "reassert"}
    BY FailRecoveryDoes
  <1> QED
    BY <1>1 DEF Placed, Recorded, Judging, ReleaseIsVerified, Releases

LEMMA JudgeHandshake ==
    ASSUME HandshakeInv, NEW v \in Svcs, NEW c \in Ctls, NEW expired \in BOOLEAN,
           Errs(c, sync), ~Fault(poll.seen), poll.at \in {"held", "ensured"},
           UNCHANGED plc,
           Decide(v, c, poll.seen, poll.recon, expired)
    PROVE  Placed' /\ Recorded' /\ ReleaseIsVerified
  <1> DEFINE w == poll.seen
  <1>1. w \in Words /\ poll.recon \in BOOLEAN
    BY TypeParts DEF Fault, Polls, HandshakeInv
  <1>2. \/ Reconciles(v, c)
        \/ /\ tx.phase = "acknowledged"
           /\ \/ w = Zero /\ Complete(v, c, Observing(tx))
              \/ Lowers(v, c)
              \/ Waits(v, c) /\ poll'.at \in {"idle", "expire"}
        \/ /\ tx.phase # "acknowledged"
           /\ \/ Validated(v, c) /\ w[2] = 1
              \/ Waits(v, c) /\ poll'.at \in {"idle", "retry"}
              \/ Refuses(v, c)
    <2>1. Errs(c, sync) /\ tx \in Txs /\ left \in [Events -> Nat] /\ hist \in Hists
      BY TypeParts DEF HandshakeInv
    <2> QED
      BY <1>1, <2>1, DecideDoes
  <1>3. CASE Reconciles(v, c)
    BY <1>3 DEF Reconciles, Placed, Recorded, Judging, ReleaseIsVerified, Releases
  <1>4. CASE tx.phase = "acknowledged" /\ w = Zero /\ Complete(v, c, Observing(tx))
    <2>1. hist.zero /\ ~hist.recovered
      BY <1>4 DEF HandshakeInv, Recorded, Judging
    <2>2. Observing(tx) \in Txs /\ Observing(tx).phase = "release_observed"
      BY TypeParts, ObservingIs DEF HandshakeInv
    <2> QED
      BY <1>4, <2>1, <2>2, CompleteHandshake DEF HandshakeInv
  <1>5. CASE tx.phase = "acknowledged" /\ Lowers(v, c)
    BY <1>5 DEF Lowers, HandshakeInv, Placed, Recorded, Judging, ReleaseIsVerified, Releases
  <1>6. CASE Waits(v, c) /\ poll'.at \in {"idle", "expire", "retry"}
    BY <1>6 DEF Waits, HandshakeInv, Placed, Recorded, Judging, ReleaseIsVerified, Releases
  <1>7. CASE Validated(v, c)
    BY <1>7 DEF Validated, Placed, Recorded, Judging, ReleaseIsVerified, Releases
  <1>8. CASE Refuses(v, c)
    BY <1>8 DEF Refuses, Placed, Recorded, Judging, ReleaseIsVerified, Releases
  <1> QED
    BY <1>2, <1>3, <1>4, <1>5, <1>6, <1>7, <1>8

\* A step that neither moves the poll task nor changes an active phase.
LEMMA AwayHandshake ==
    ASSUME HandshakeInv, Marks, UNCHANGED poll, tx'.phase = tx.phase \/
           (~Active /\ tx'.phase \in {"terminal_estop", "estop_sync_failed"})
    PROVE  Placed' /\ Recorded' /\ ReleaseIsVerified
  BY DEF HandshakeInv, Placed, Recorded, Marks, Active, ActivePhases, Judging,
         ReleaseIsVerified, Releases

\* A step of the poll task to rest, or to a place that no phase goes with.
LEMMA RestHandshake ==
    ASSUME HandshakeInv, Marks,
           poll'.at \notin Judging \cup {"assert", "assertRead", "undo", "lower", "lowerRead",
                                         "finish"},
           tx'.phase \in {tx.phase, "completed", "write_failed", "timed_out",
                          "recovery_required"}
    PROVE  Placed' /\ Recorded' /\ ReleaseIsVerified
  BY DEF HandshakeInv, Placed, Recorded, Marks, Judging, ReleaseIsVerified, Releases

LEMMA EnvironmentHandshake ==
    ASSUME HandshakeInv, Environment \/ LadderClears \/ GuiStopReturns \/ FastStop \/ FastRearm
    PROVE  HandshakeInv' /\ ReleaseIsVerified
  <1>0. TypeInv
    BY DEF HandshakeInv
  <1>1. CASE PressPB2
    BY <1>0, <1>1, PressPB2Does, AwayHandshake DEF HandshakeInv
  <1>2. ASSUME NEW command \in {1, 2}, PressPB1(command)
        PROVE  HandshakeInv' /\ ReleaseIsVerified
    BY <1>0, <1>2, PressPB1Does, AwayHandshake DEF HandshakeInv
  <1>3. ASSUME NEW command \in {1, 2}, GuiRecovery(command)
        PROVE  HandshakeInv' /\ ReleaseIsVerified
    BY <1>0, <1>3, GuiRecoveryDoes, AwayHandshake DEF HandshakeInv
  <1>4. ASSUME NEW planning \in BOOLEAN, StartRun(planning)
        PROVE  HandshakeInv' /\ ReleaseIsVerified
    BY <1>0, <1>4, StartRunDoes, AwayHandshake DEF HandshakeInv
  <1>5. CASE EndRun
    BY <1>0, <1>5, EndRunDoes, AwayHandshake DEF HandshakeInv
  <1>6. CASE RaiseTerminal
    BY <1>0, <1>6, RaiseTerminalDoes, AwayHandshake DEF HandshakeInv
  <1>7. CASE GuiStop
    BY <1>0, <1>7, GuiStopDoes, AwayHandshake DEF HandshakeInv
  <1>8. CASE Preflight \/ PreflightFails
    BY <1>0, <1>8, PreflightDoes, AwayHandshake DEF HandshakeInv
  <1>9. CASE Disconnect
    BY <1>0, <1>9, DisconnectDoes, RestHandshake DEF HandshakeInv, Judging
  <1>10. CASE Connect
    BY <1>0, <1>10, ConnectDoes, RestHandshake DEF HandshakeInv, Judging
  <1>11. CASE Restart
    BY <1>0, <1>11, RestartDoes, RestHandshake DEF HandshakeInv, Judging
  <1>12. CASE LadderClears
    BY <1>0, <1>12, LadderClearsDoes, AwayHandshake DEF HandshakeInv
  <1>13. CASE GuiStopReturns
    BY <1>0, <1>13, GuiStopReturnsDoes, AwayHandshake DEF HandshakeInv
  <1>14. CASE FastStop \/ FastRearm
    BY <1>0, <1>14, FastDoes, AwayHandshake DEF HandshakeInv
  <1> QED
    BY <1>1, <1>2, <1>3, <1>4, <1>5, <1>6, <1>7, <1>8, <1>9, <1>10, <1>11, <1>12, <1>13,
       <1>14 DEF Environment

LEMMA ObserveHandshake ==
    ASSUME HandshakeInv, NEW expired \in BOOLEAN, Observe(expired) \/ ObserveEnsured(expired)
    PROVE  HandshakeInv' /\ ReleaseIsVerified
  <1>0. TypeInv /\ UNCHANGED <<plc, halting, fast>> /\ hist \in Hists /\ Placed
    BY TypeParts DEF HandshakeInv, Observe, ObserveEnsured
  <1>1. ASSUME NEW v \in Svcs, NEW c \in Ctls, Errs(c, sync), ~Fault(poll.seen),
               poll.at \in {"held", "ensured"},
               Decide(v, c, poll.seen, poll.recon, expired)
        PROVE  HandshakeInv' /\ ReleaseIsVerified
    <2>1. TypeInv'
      BY <1>0, <1>1, JudgeTypes
    <2>2. Placed' /\ Recorded' /\ ReleaseIsVerified
      BY <1>0, <1>1, JudgeHandshake
    <2> QED
      BY <2>1, <2>2 DEF HandshakeInv
  <1>2. CASE Observe(expired)
    <2>1. poll.at = "held"
      BY <1>2 DEF Observe
    <2> DEFINE w == poll.seen
               S == Asserted(Taken(svc, w), w)
    <2>2. \/ /\ Fault(w) /\ Rest /\ UNCHANGED <<ctl, tx, sync, left, hist>>
             /\ svc' \in Svcs
          \/ /\ ~Fault(w) /\ svc' \in Svcs
             /\ ctl' = Stopped(ctl, S \ svc.confirmed)
             /\ poll' = [poll EXCEPT !.at = "estop"]
             /\ UNCHANGED <<tx, sync, left, hist>>
          \/ /\ ~Fault(w)
             /\ \E v \in Svcs, c \in Ctls :
                   Judged(v, c, w) /\ Decide(v, c, w, poll.recon, expired)
      BY <1>0, <1>2, ObserveDoes
    <2>3. CASE Fault(w) /\ Rest /\ UNCHANGED <<ctl, tx, sync, left, hist>> /\ svc' \in Svcs
      <3>1. poll' \in Polls /\ poll'.at = "idle"
        BY <2>3, RestIs
      <3>2. Marks /\ Less
        BY <1>0, <2>3, MarksIs, KeptLess
      <3>3. TypeInv'
        BY <1>0, <2>3, <3>1, <3>2, TypeParts, TypePartsNext DEF Marks, Less
      <3> QED
        BY <2>3, <3>1, <3>2, <3>3, RestHandshake DEF HandshakeInv, Judging
    <2>4. CASE /\ ~Fault(w) /\ svc' \in Svcs
               /\ ctl' = Stopped(ctl, S \ svc.confirmed)
               /\ poll' = [poll EXCEPT !.at = "estop"]
               /\ UNCHANGED <<tx, sync, left, hist>>
      <3>1. /\ poll' \in Polls /\ poll'.at = "estop" /\ poll'.seen = w
        BY <1>0, <2>4, TypeParts DEF Polls, Holding
      <3>2. w \in Samples /\ svc \in Svcs
        BY <1>0, TypeParts DEF Polls
      <3>3. S \ svc.confirmed \in SUBSET Recoverable
        BY <3>2, TakenIs, AssertedIs, LatchedRecoverable
      <3>4. ctl' \in Ctls /\ ctl'.run = ctl.run /\ ctl'.context = ctl.context
        BY <1>0, <2>4, <3>3, TypeParts, StoppedIs
      <3>5. Errs(ctl', sync')
        BY <1>0, <2>4, <3>4, TypeParts DEF Errs
      <3>6. Marks /\ Less
        BY <1>0, <2>4, MarksIs, KeptLess
      <3>7. TypeInv'
        BY <1>0, <2>4, <3>1, <3>4, <3>5, <3>6, TypeParts, TypePartsNext DEF Marks, Less
      <3>8. Placed' /\ ReleaseIsVerified
        BY <2>4, <3>1 DEF Placed, ReleaseIsVerified, Releases
      <3>9. Recorded'
        BY <1>0, <2>1, <2>4, <3>1 DEF HandshakeInv, Recorded, Judging
      <3> QED
        BY <3>7, <3>8, <3>9 DEF HandshakeInv
    <2>5. ASSUME NEW v \in Svcs, NEW c \in Ctls, ~Fault(w), Judged(v, c, w),
                 Decide(v, c, w, poll.recon, expired)
          PROVE  HandshakeInv' /\ ReleaseIsVerified
      BY <1>1, <2>1, <2>5 DEF Judged
    <2> QED
      BY <2>2, <2>3, <2>4, <2>5
  <1>3. CASE ObserveEnsured(expired)
    <2>1. ctl \in Ctls /\ Errs(ctl, sync) /\ poll.at = "ensured"
      BY <1>0, <1>3, TypeParts DEF ObserveEnsured
    <2> QED
      BY <1>0, <1>1, <1>3, <2>1, ObserveEnsuredDoes
  <1> QED
    BY <1>2, <1>3

LEMMA PollHandshake ==
    ASSUME HandshakeInv, PollStep
    PROVE  HandshakeInv' /\ ReleaseIsVerified
  <1>0. TypeInv /\ ctl \in Ctls /\ svc \in Svcs /\ tx \in Txs /\ Errs(ctl, sync) /\ hist \in Hists
    BY TypeParts DEF HandshakeInv
  <1>1. CASE PollReads
    <2>1. /\ TypeInv' /\ Marks /\ UNCHANGED tx
          /\ poll'.at \in {"idle", "held"} /\ (poll'.at = "held" => poll'.seen = plc)
      BY <1>0, <1>1, PollReadsDoes DEF Raised, Sampled
    <2>2. UNCHANGED <<plc, hist>>
      BY <1>1 DEF PollReads, ReadFails, ReadWorks
    <2> QED
      BY <2>1, <2>2 DEF HandshakeInv, Placed, Recorded, Judging, ReleaseIsVerified, Releases
  <1>2. CASE PollReadsGarbled
    <2>1. /\ TypeInv' /\ Marks /\ UNCHANGED <<plc, tx>>
          /\ poll'.at = "held" /\ poll'.seen = Garbled
      BY <1>0, <1>2, PollReadsGarbledDoes DEF Sampled
    <2>2. Garbled # Zero
      BY DEF Garbled, Zero
    <2> QED
      BY <2>1, <2>2
         DEF HandshakeInv, Placed, Recorded, Marks, Judging, ReleaseIsVerified, Releases
  <1>3. ASSUME NEW expired \in BOOLEAN, Observe(expired) \/ ObserveEnsured(expired)
        PROVE  HandshakeInv' /\ ReleaseIsVerified
    BY <1>3, ObserveHandshake
  <1>4. CASE EstopReturns
    <2>1. /\ TypeInv' /\ Marks /\ UNCHANGED <<plc, tx>> /\ poll.at = "estop"
          /\ \/ poll'.at = "idle"
             \/ poll'.at = "ensured" /\ poll'.seen = poll.seen
      BY <1>0, <1>4, EstopReturnsDoes DEF Raised
    <2> QED
      BY <2>1 DEF HandshakeInv, Placed, Recorded, Marks, Judging, ReleaseIsVerified, Releases
  <1>5. CASE RetryReads
    <2>1. /\ TypeInv' /\ UNCHANGED plc /\ poll.at = "retry"
          /\ \/ Raised /\ UNCHANGED <<tx, hist>>
             \/ Validated(svc, ctl)
             \/ Waits(svc, ctl) /\ poll'.at = "idle"
      BY <1>0, <1>5, RetryReadsDoes
    <2>2. CASE Validated(svc, ctl)
      BY <2>1, <2>2 DEF Validated, HandshakeInv, Placed, Recorded, Judging, ReleaseIsVerified,
                        Releases
    <2>3. CASE UNCHANGED <<tx, hist>> /\ poll'.at = "idle"
      BY <2>1, <2>3 DEF HandshakeInv, Placed, Recorded, Judging, ReleaseIsVerified, Releases
    <2> QED
      BY <2>1, <2>2, <2>3 DEF Raised, Waits
  <1>6. CASE Assert
    <2>1. /\ TypeInv' /\ UNCHANGED tx /\ poll.at = "assert" /\ hist'.recovered = hist.recovered
          /\ \/ plc' = [plc EXCEPT ![3] = 1] /\ poll'.at = "assertRead"
             \/ poll'.at = "undo"
      BY <1>0, <1>6, AssertDoes
    <2>2. plc' = [plc EXCEPT ![3] = 1] => plc' # Zero
      <3> DEFINE u == [plc EXCEPT ![3] = 1]
      <3>1. u \in Words /\ u[3] = 1
        BY <1>0, TypeParts, WordSet
      <3> HIDE DEF u
      <3>2. u # Zero
        BY <3>1, WordZero
      <3> QED
        BY <3>2 DEF u
    <2> QED
      BY <2>1, <2>2 DEF HandshakeInv, Placed, Recorded, Judging, ReleaseIsVerified, Releases
  <1>7. CASE AssertReads
    <2>1. /\ TypeInv' /\ UNCHANGED plc /\ poll.at = "assertRead"
          /\ \/ poll'.at = "undo" /\ UNCHANGED <<tx, hist>>
             \/ /\ plc[3] = 1 /\ poll'.at = "idle" /\ tx'.phase = "acknowledged"
                /\ UNCHANGED hist
             \/ \E v : SameAs(v) /\ plc = Zero /\ Complete(v, ctl, Observing(tx))
      BY <1>0, <1>7, AssertReadsDoes
    <2>2. tx.phase = "validated" /\ ~hist.recovered /\ (plc = Zero => hist.zero)
      BY <2>1 DEF HandshakeInv, Placed, Recorded
    <2>3. CASE poll'.at = "undo" /\ UNCHANGED <<tx, hist>>
      BY <2>1, <2>2, <2>3 DEF HandshakeInv, Placed, Recorded, Judging, ReleaseIsVerified,
                              Releases
    <2>4. CASE poll'.at = "idle" /\ tx'.phase = "acknowledged" /\ UNCHANGED hist
      BY <2>1, <2>2, <2>4 DEF HandshakeInv, Placed, Recorded, Judging, ReleaseIsVerified,
                              Releases
    <2>5. ASSUME NEW v \in Svcs, plc = Zero, Complete(v, ctl, Observing(tx))
          PROVE  HandshakeInv' /\ ReleaseIsVerified
      <3>1. Observing(tx) \in Txs /\ Observing(tx).phase = "release_observed"
        BY <1>0, ObservingIs
      <3> QED
        BY <1>0, <2>1, <2>2, <2>5, <3>1, CompleteHandshake DEF HandshakeInv
    <2> QED
      BY <2>1, <2>3, <2>4, <2>5 DEF SameAs
  <1>8. CASE Undo
    BY <1>0, <1>8, UndoDoes, RestHandshake DEF HandshakeInv, Judging, Touches
  <1>9. CASE Lower
    <2>1. /\ TypeInv' /\ Marks /\ poll.at = "lower"
          /\ \/ UNCHANGED tx /\ poll'.at = "lowerRead"
             \/ FailRecovery(svc, ctl, tx)
      BY <1>0, <1>9, LowerDoes DEF Touches
    <2>2. CASE UNCHANGED tx /\ poll'.at = "lowerRead"
      BY <2>1, <2>2 DEF HandshakeInv, Placed, Recorded, Marks, Judging, ReleaseIsVerified,
                        Releases
    <2> QED
      BY <1>0, <2>1, <2>2, FailHandshake DEF HandshakeInv
  <1>10. CASE LowerReads
    <2>1. /\ TypeInv' /\ poll.at = "lowerRead"
          /\ \/ \E v \in Svcs, t \in Txs : FailRecovery(v, ctl, t)
             \/ \E v \in Svcs : plc = Zero /\ Complete(v, ctl, tx)
      BY <1>0, <1>10, LowerReadsDoes DEF SameAs
    <2>2. /\ tx.phase = "release_observed" /\ ~hist.recovered
          /\ plc = Zero => hist.zero
      BY <2>1 DEF HandshakeInv, Placed, Recorded
    <2>3. ASSUME NEW v \in Svcs, NEW t \in Txs, FailRecovery(v, ctl, t)
          PROVE  HandshakeInv' /\ ReleaseIsVerified
      BY <1>0, <2>1, <2>3, FailHandshake DEF HandshakeInv
    <2>4. ASSUME NEW v \in Svcs, plc = Zero, Complete(v, ctl, tx)
          PROVE  HandshakeInv' /\ ReleaseIsVerified
      BY <1>0, <2>1, <2>2, <2>4, CompleteHandshake DEF HandshakeInv
    <2> QED
      BY <2>1, <2>3, <2>4
  <1>11. CASE Finish
    BY <1>0, <1>11, FinishDoes, RestHandshake DEF HandshakeInv, Judging
  <1>12. CASE Expire
    BY <1>0, <1>12, ExpireDoes, RestHandshake DEF HandshakeInv, Judging, Touches
  <1>13. CASE ExpireReads
    BY <1>0, <1>13, ExpireReadsDoes, RestHandshake DEF HandshakeInv, Judging
  <1>14. CASE Reassert
    BY <1>0, <1>14, ReassertDoes, RestHandshake DEF HandshakeInv, Judging, Touches
  <1>15. CASE ReassertReads
    BY <1>0, <1>15, ReassertReadsDoes, RestHandshake DEF HandshakeInv, Judging
  <1>16. CASE Clear
    BY <1>0, <1>16, ClearDoes, RestHandshake DEF HandshakeInv, Judging, Touches
  <1>17. CASE ClearReads
    BY <1>0, <1>17, ClearReadsDoes, RestHandshake DEF HandshakeInv, Judging
  <1> QED
    BY <1>1, <1>2, <1>3, <1>4, <1>5, <1>6, <1>7, <1>8, <1>9, <1>10, <1>11, <1>12, <1>13,
       <1>14, <1>15, <1>16, <1>17 DEF PollStep

LEMMA HandshakeStep ==
    HandshakeInv /\ [Next]_vars => HandshakeInv' /\ (Next => ReleaseIsVerified)
  <1> SUFFICES ASSUME HandshakeInv, [Next]_vars
               PROVE  HandshakeInv' /\ (Next => ReleaseIsVerified)
    OBVIOUS
  <1>0. TypeInv
    BY DEF HandshakeInv
  <1>1. CASE Environment \/ LadderClears \/ GuiStopReturns \/ FastStop \/ FastRearm
    BY <1>1, EnvironmentHandshake
  <1>2. CASE PollStep
    BY <1>2, PollHandshake
  <1>3. CASE SyncAcquire \/ SyncRefused
    <2>1. TypeInv' /\ Marks /\ UNCHANGED <<poll, tx>>
      BY <1>0, <1>3, SyncAcquireDoes, SyncRefusedDoes
    <2> QED
      BY <2>1, AwayHandshake DEF HandshakeInv
  <1>7. CASE SyncLatched
    BY <1>0, <1>7, SyncLatchedDoes, AwayHandshake DEF HandshakeInv
  <1>4. CASE SyncWrites
    <2>1. /\ TypeInv' /\ Marks /\ UNCHANGED poll
          /\ tx'.phase = tx.phase \/ (~Active /\ tx'.phase = "estop_sync_failed")
      BY <1>0, <1>4, SyncWritesDoes DEF Touches, SyncSteps
    <2> QED
      BY <2>1, AwayHandshake DEF HandshakeInv
  <1>5. CASE SyncReads
    <2>1. /\ TypeInv' /\ Marks /\ UNCHANGED poll
          /\ tx'.phase = tx.phase \/ (~Active /\ tx'.phase = "estop_sync_failed")
      BY <1>0, <1>5, SyncReadsDoes DEF SyncSteps
    <2> QED
      BY <2>1, AwayHandshake DEF HandshakeInv
  <1>6. CASE UNCHANGED vars
    <2>1. HandshakeInv'
      BY <1>6 DEF vars, HandshakeInv, TypeInv, PlcTypeOK, Placed, Recorded
    <2>2. ReleaseIsVerified
      BY <1>6 DEF vars, ReleaseIsVerified, Releases
    <2> QED
      BY <2>1, <2>2
  <1> QED
    BY <1>1, <1>2, <1>3, <1>4, <1>5, <1>6, <1>7 DEF Next, SyncStep

LEMMA HandshakeStart == Init => HandshakeInv
  BY TypeInit DEF HandshakeInv, Init, Placed, Recorded, NoTransaction, AtRest, Judging

LEMMA HandshakeAlways == Spec => []HandshakeInv
  <1>1. HandshakeInv /\ [Next]_vars => HandshakeInv'
    BY HandshakeStep
  <1> QED
    BY <1>1, HandshakeStart, PTL DEF Spec

\* Whatever the buttons, the ladder, the operator, failing reads and writes and restarts do,
\* the records keep their shape, and a run is in sync_estop exactly when it ends in an
\* error (_escalate_terminal_error, sync_estop).
THEOREM PlcTypes == Spec => []PlcTypeOK
  <1>1. HandshakeInv => PlcTypeOK
    BY DEF HandshakeInv, TypeInv
  <1> QED
    BY <1>1, HandshakeAlways, PTL

\* The Controller is released for the PLC at most once per transaction, and only when all
\* three words have been zero at some time since the acknowledgement: also when a sample
\* is judged late, when the release needs D102 lowered first, and when samples are garbled
\* (_advance_handshake, _complete_released_handshake).
THEOREM ReleasesAreVerified == Spec => ReleasesOnce
  <1>1. HandshakeInv /\ [Next]_vars => [ReleaseIsVerified]_vars
    BY HandshakeStep
  <1> QED
    BY <1>1, HandshakeAlways, PTL DEF Spec, ReleasesOnce

-----------------------------------------------------------------------------
(* One task at a time is under the lock. *)

Cut == sync' \in {sync, "no"}

LEMMA CutsCut == ASSUME NEW c, Cuts(c) PROVE Cut
  BY DEF Cuts, Cut

LEMMA CompleteCuts == ASSUME NEW v, NEW c, NEW t, Complete(v, c, t) PROVE Cut
  <1>1. PICK answer \in Readiness(c, t.command) :
          IF answer # "ready" THEN FailRecovery(v, c, t) /\ UNCHANGED <<left, hist>>
          ELSE LET c2 == Recovered(c, t.command, c.sources \cap Recoverable)
               IN  /\ hist' = [hist EXCEPT !.recovered = TRUE, !.cut = FALSE]
                   /\ \/ /\ ctl' = c2
                         /\ Cuts(c2)
                         /\ svc' = v
                         /\ tx' = t
                         /\ Goto("finish")
                         /\ UNCHANGED left
                      \/ Spend("fault") /\ FailRecovery(v, c2, t)
    BY DEF Complete
  <1>2. (\E c2 : Cuts(c2)) \/ (\E c2 : FailRecovery(v, c2, t))
    BY <1>1
  <1> QED
    BY <1>2, CutsCut DEF FailRecovery

LEMMA ReleasedCuts == ASSUME NEW v, NEW c, NEW w, ReleasedWith(v, c, w) PROVE Cut
  <1>1. (\E t : Complete(v, c, t)) \/ Cuts(c)
    BY DEF ReleasedWith
  <1> QED
    BY <1>1, CompleteCuts, CutsCut

LEMMA DecideCuts ==
    ASSUME NEW v, NEW c, NEW w, NEW recon, NEW expired, Decide(v, c, w, recon, expired)
    PROVE  Cut
  <1>1. Reconcile(v, c, w, expired) \/ Advance(v, c, w, expired) \/ Request(v, c, w, recon)
    BY DEF Decide
  <1>2. CASE Reconcile(v, c, w, expired)
    BY <1>2, CutsCut DEF Reconcile
  <1>3. CASE Advance(v, c, w, expired)
    BY <1>3, CutsCut, ReleasedCuts DEF Advance
  <1>4. CASE Request(v, c, w, recon)
    <2>1. Cuts(c)
      BY <1>4 DEF Request, Begin, Retry
    <2> QED
      BY <2>1, CutsCut
  <1> QED
    BY <1>1, <1>2, <1>3, <1>4

LEMMA PollCuts ==
    ASSUME PollStep, ~PollReads, ~PollReadsGarbled
    PROVE  Cut /\ (poll.at \in Holding \/ LockFree)
  <1>1. ASSUME NEW expired \in BOOLEAN, Observe(expired)
        PROVE  Cut /\ LockFree
    <2>1. LockFree
      BY <1>1 DEF Observe
    <2>2. sync' = sync \/ \E v, c, w : Decide(v, c, w, poll.recon, expired)
      BY <1>1 DEF Observe
    <2> QED
      BY <2>1, <2>2, DecideCuts DEF Cut
  <1>2. ASSUME NEW expired \in BOOLEAN, ObserveEnsured(expired)
        PROVE  Cut /\ poll.at \in Holding
    <2>1. poll.at = "ensured" /\ \E v, c, w : Decide(v, c, w, poll.recon, expired)
      BY <1>2 DEF ObserveEnsured
    <2> QED
      BY <2>1, DecideCuts DEF Holding
  <1>3. CASE EstopReturns
    BY <1>3, CutsCut DEF EstopReturns, Holding
  <1>4. CASE RetryReads \/ Assert \/ Undo \/ Finish \/ Expire \/ ExpireReads
             \/ Reassert \/ ReassertReads \/ Clear \/ ClearReads
    <2>1. sync' = sync
      BY <1>4 DEF RetryReads, Assert, Undo, Finish, Expire, ExpireReads, Reassert,
                  ReassertReads, Clear, ClearReads
    <2>2. poll.at \in {"retry", "assert", "undo", "finish", "expire", "expireRead",
                       "reassert", "reassertRead", "clear", "clearRead"}
      BY <1>4 DEF RetryReads, Assert, Undo, Finish, Expire, ExpireReads, Reassert,
                  ReassertReads, Clear, ClearReads
    <2> QED
      BY <2>1, <2>2 DEF Cut, Holding
  <1>5. CASE AssertReads
    <2>1. /\ poll.at = "assertRead"
          /\ sync' = sync \/ \E v, c, w : ReleasedWith(v, c, w)
      BY <1>5 DEF AssertReads
    <2> QED
      BY <2>1, ReleasedCuts DEF Cut, Holding
  <1>6. CASE Lower
    <2>1. poll.at = "lower" /\ (sync' = sync \/ \E c : Cuts(c))
      BY <1>6 DEF Lower, FailRecovery
    <2> QED
      BY <2>1, CutsCut DEF Cut, Holding
  <1>7. CASE LowerReads
    <2>1. /\ poll.at = "lowerRead"
          /\ (\E c : Cuts(c)) \/ (\E v, c, t : Complete(v, c, t))
      BY <1>7 DEF LowerReads, FailRecovery
    <2> QED
      BY <2>1, CutsCut, CompleteCuts DEF Holding
  <1> QED
    BY <1>1, <1>2, <1>3, <1>4, <1>5, <1>6, <1>7 DEF PollStep

\* The environment leaves a synchronisation that is latching alone, or ends it.
LEMMA EnvironmentExclusive ==
    ASSUME TypeInv, Exclusive,
           Environment \/ LadderClears \/ GuiStopReturns \/ FastStop \/ FastRearm
    PROVE  Exclusive'
  <1>0. Errs(ctl, sync) /\ ctl \in Ctls
    BY TypeParts
  <1>1. ASSUME sync' \in {"no", "waiting"}
        PROVE  Exclusive'
    BY <1>1 DEF Exclusive, Latching
  <1>2. ASSUME poll'.at \in {poll.at, "idle"}, UNCHANGED sync, svc'.sources = svc.sources,
               ctl'.estop = TRUE \/ ctl'.estop = ctl.estop,
               ctl.sources \subseteq ctl'.sources
        PROVE  Exclusive'
    BY <1>2 DEF Exclusive, Holding
  <1>3. CASE PressPB2 \/ LadderClears \/ FastRearm
             \/ \E command \in {1, 2} : PressPB1(command)
    <2>1. UNCHANGED <<poll, sync, svc, ctl>>
      BY <1>3 DEF PressPB2, LadderClears, FastRearm, PressPB1
    <2> QED
      BY <1>2, <2>1
  <1>4. CASE Connect
    <2>1. UNCHANGED <<sync, svc, ctl>> /\ poll'.at = "idle"
      BY <1>4 DEF Connect, Rest, AtRest
    <2> QED
      BY <1>2, <2>1
  <1>5. CASE GuiStop
    <2>1. UNCHANGED <<poll, sync, svc>> /\ ctl' = Stopped(ctl, {Gui})
      BY <1>5 DEF GuiStop
    <2>2. ctl'.estop = TRUE /\ ctl.sources \subseteq ctl'.sources
      BY <1>0, <2>1, StoppedIs DEF Recoverable
    <2> QED
      BY <1>2, <2>1, <2>2
  <1>6. CASE EndRun \/ RaiseTerminal \/ \E planning \in BOOLEAN : StartRun(planning)
    <2>1. sync = "no"
      BY <1>0, <1>6 DEF EndRun, RaiseTerminal, StartRun, Errs
    <2>2. sync' \in {sync, "waiting"}
      BY <1>6 DEF EndRun, RaiseTerminal, StartRun
    <2> QED
      BY <1>1, <2>1, <2>2
  <1>7. CASE \/ \E command \in {1, 2} : GuiRecovery(command)
             \/ Preflight \/ PreflightFails
    <2>1. LockFree /\ Cut
      BY <1>7, CutsCut DEF GuiRecovery, Preflight, PreflightFails, Cut
    <2> QED
      BY <1>1, <2>1 DEF LockFree, Cut
  <1>8. CASE GuiStopReturns \/ FastStop
    <2>1. sync' = "no"
      BY <1>0, <1>8, CancelledIs DEF GuiStopReturns, FastStop, Cuts
    <2> QED
      BY <1>1, <2>1
  <1>9. CASE Disconnect \/ Restart
    <2>1. sync' = "no"
      BY <1>9 DEF Disconnect, Restart, Lowered
    <2> QED
      BY <1>1, <2>1
  <1> QED
    BY <1>3, <1>4, <1>5, <1>6, <1>7, <1>8, <1>9 DEF Environment

LEMMA ExclusiveStep ==
    ASSUME TypeInv, Exclusive, [Next]_vars
    PROVE  Exclusive'
  <1>1. ASSUME sync' \in {"no", "waiting"}
        PROVE  Exclusive'
    BY <1>1 DEF Exclusive, Latching
  <1>2. CASE PollReads \/ PollReadsGarbled
    <2>1. UNCHANGED <<sync, ctl>>
      BY <1>2 DEF PollReads, PollReadsGarbled
    <2>2. svc' \in {Disconnected(svc), [svc EXCEPT !.connected = TRUE]}
      BY <1>2 DEF PollReads, PollReadsGarbled, PollRaises
    <2>3. svc'.sources = svc.sources
      BY <2>2, TypeParts, DisconnectedIs DEF Svcs
    <2>4. poll'.at \in {"idle", "held"}
      <3>1. CASE Rest
        BY <3>1 DEF Rest, AtRest
      <3>2. ASSUME NEW w, NEW b, poll' = [AtRest EXCEPT !.at = "held", !.seen = w, !.recon = b]
            PROVE  poll'.at = "held"
        BY <3>2 DEF AtRest
      <3> QED
        BY <1>2, <3>1, <3>2 DEF PollReads, PollReadsGarbled, PollRaises
    <2> QED
      BY <2>1, <2>3, <2>4 DEF Exclusive, Holding
  <1>3. CASE PollStep /\ ~PollReads /\ ~PollReadsGarbled
    <2>1. Cut /\ (poll.at \in Holding \/ LockFree)
      BY <1>3, PollCuts
    <2> QED
      BY <1>1, <2>1 DEF Cut, Exclusive, LockFree
  <1>4. CASE SyncAcquire
    BY <1>4, SyncAcquireDoes DEF Exclusive, LockFree
  <1>5. CASE SyncLatched
    BY <1>5, SyncLatchedDoes DEF Exclusive, Latching
  <1>6. CASE SyncRefused
    BY <1>1, <1>6, SyncRefusedDoes
  <1>7. CASE SyncWrites \/ SyncReads
    <2>1. /\ sync \in {"write", "readback"} /\ sync' \in {"no", "readback"}
          /\ UNCHANGED poll
      BY <1>7 DEF SyncWrites, SyncReads, Synced
    <2> QED
      BY <2>1 DEF Exclusive, Latching
  <1>8. CASE UNCHANGED vars
    BY <1>8 DEF vars, Exclusive
  <1> QED
    BY <1>2, <1>3, <1>4, <1>5, <1>6, <1>7, <1>8, EnvironmentExclusive
       DEF Next, SyncStep

-----------------------------------------------------------------------------
(* The latches. *)

Latches == InContract /\ Agreed /\ Covers /\ Durable
Syncing == sync \in {"write", "readback"}

LEMMA ContractKept ==
    ASSUME TypeInv, InContract, Less, plc'[2] = 0 => plc'[1] = 0,
           poll'.at \in Judging => poll.at \in Judging /\ poll'.seen = poll.seen
    PROVE  InContract'
  <1>1. "garbled" \in Events /\ left \in [Events -> Nat] /\ left["garbled"] = 0
    BY TypeParts DEF Events, InContract
  <1>2. left'["garbled"] \in Nat /\ left'["garbled"] <= 0
    BY <1>1 DEF Less
  <1>3. left'["garbled"] = 0
    BY <1>2
  <1> QED
    BY <1>3 DEF InContract

\* A D101 that is set stands for at least one source.
LEMMA AssertedSome ==
    ASSUME NEW v, NEW w, w[2] = 1
    PROVE  /\ Asserted(v, w) # {}
           /\ v.origins = {} => Asserted(v, w) = {PB2}
           /\ v.origins # {} => Asserted(v, w) = v.origins
  BY DEF Asserted

\* The latches of both sides stay, or more of the Controller's are set.
LEMMA AwayAgrees ==
    ASSUME LatchInv, UNCHANGED poll, SameLatches,
           svc.sources # {} => ctl.sources \subseteq ctl'.sources /\ (ctl.estop => ctl'.estop),
           ctl'.estop => ctl'.run # "running" \/ halting' \/ poll.at = "estop"
    PROVE  Agreed'
  <1>1. /\ svc'.confirmed \cup svc'.origins \subseteq svc'.sources
        /\ svc'.confirmed # {} => svc.sources # {}
        /\ svc'.confirmed = svc.confirmed
    BY DEF LatchInv, Agreed, SameLatches
  <1>2. /\ poll'.at # "finish" => svc'.confirmed \subseteq ctl'.sources
        /\ svc'.confirmed # {} /\ poll'.at # "finish" => ctl'.estop
        /\ ctl'.estop => ctl'.run # "running" \/ halting' \/ poll'.at = "estop"
        /\ poll'.at = "estop" => svc'.confirmed = {}
    BY <1>1 DEF LatchInv, Agreed
  <1>3. ASSUME poll'.at \in {"estop", "ensured"}
        PROVE  /\ ctl'.estop /\ poll'.seen[2] = 1
               /\ Asserted(svc', poll'.seen) \subseteq svc'.sources \cap ctl'.sources
    <2>1. /\ ctl.estop /\ poll.seen[2] = 1
          /\ Asserted(svc, poll.seen) \subseteq svc.sources \cap ctl.sources
      BY <1>3 DEF LatchInv, Agreed
    <2>2. Asserted(svc, poll.seen) # {} /\ Asserted(svc', poll.seen) = Asserted(svc, poll.seen)
      BY <2>1, AssertedSome DEF SameLatches
    <2>3. svc.sources # {} /\ svc'.sources = svc.sources
      BY <2>1, <2>2 DEF SameLatches
    <2> QED
      BY <2>1, <2>2, <2>3
  <1> QED
    BY <1>1, <1>2, <1>3 DEF Agreed

\* A step of the environment: the poll task and the transaction stay.
LEMMA AwayLatches ==
    ASSUME LatchInv, UNCHANGED <<poll, tx>>, SameLatches, Less,
           Active => svc'.connected = svc.connected /\ svc'.fresh = svc.fresh,
           sync' \in {"write", "readback"} => Syncing,
           plc'[2] = 0 => plc'[1] = 0,
           plc[3] = 0 => plc'[3] = 0,
           plc[2] = 1 /\ plc[3] = 0 => plc'[2] = 1,
           svc.sources # {} => ctl.sources \subseteq ctl'.sources /\ (ctl.estop => ctl'.estop),
           ctl'.estop => ctl'.run # "running" \/ halting' \/ poll.at = "estop"
    PROVE  Latches'
  <1>0. TypeInv
    BY DEF LatchInv, HandshakeInv
  <1>1. InContract'
    BY <1>0, ContractKept DEF LatchInv
  <1>2. Agreed'
    BY AwayAgrees
  <1>3. Covers'
    <2>1. Active' <=> Active
      BY DEF Active
    <2>2. Active /\ Trusted' => Trusted
      BY DEF Trusted, Syncing
    <2> QED
      BY <2>1, <2>2 DEF DueOf, LatchInv, Covers, SameLatches
  <1>4. Durable'
    BY DEF Firm, LatchInv, Durable, Closed, SameLatches, Syncing
  <1> QED
    BY <1>1, <1>2, <1>3, <1>4 DEF Latches

LEMMA RunLatches ==
    ASSUME LatchInv, \/ \E planning \in BOOLEAN : StartRun(planning)
                     \/ EndRun \/ RaiseTerminal \/ GuiStop \/ GuiStopReturns
                     \/ FastStop \/ FastRearm
                     \/ \E command \in {1, 2} : GuiRecovery(command)
                     \/ Preflight \/ PreflightFails
    PROVE  Latches'
  <1>0. TypeInv /\ svc \in Svcs
    BY TypeParts DEF LatchInv, HandshakeInv
  <1>1. plc[2] = 0 => plc[1] = 0
    BY DEF LatchInv, InContract
  <1>2. ctl.estop => ctl.run # "running" \/ halting \/ poll.at = "estop"
    BY DEF LatchInv, Agreed
  <1>3. UNCHANGED svc => SameLatches
    BY <1>0 DEF SameLatches
  <1>4. ASSUME NEW planning \in BOOLEAN, StartRun(planning)
        PROVE  Latches'
    <2>1. sync' = sync
      BY <1>4 DEF StartRun
    <2> QED
      BY <1>0, <1>1, <1>2, <1>3, <1>4, <2>1, StartRunDoes, AwayLatches DEF Syncing
  <1>5. CASE EndRun
    <2>1. sync' = sync
      BY <1>5 DEF EndRun
    <2> QED
      BY <1>0, <1>1, <1>2, <1>3, <1>5, <2>1, EndRunDoes, AwayLatches DEF Syncing
  <1>6. CASE RaiseTerminal
    BY <1>0, <1>1, <1>3, <1>6, RaiseTerminalDoes, AwayLatches DEF Syncing
  <1>7. CASE GuiStop
    BY <1>0, <1>1, <1>2, <1>3, <1>7, GuiStopDoes, AwayLatches DEF Syncing
  <1>8. CASE GuiStopReturns
    <2>1. sync' \in {sync, "no"}
      BY <1>8 DEF GuiStopReturns, Cuts
    <2> QED
      BY <1>0, <1>1, <1>3, <1>8, <2>1, GuiStopReturnsDoes, AwayLatches DEF Syncing
  <1>9. CASE FastStop \/ FastRearm
    <2>1. sync' \in {sync, "no"}
      BY <1>9 DEF FastStop, FastRearm, Cuts
    <2> QED
      BY <1>0, <1>1, <1>2, <1>3, <1>9, <2>1, FastDoes, AwayLatches DEF Syncing
  <1>10. ASSUME NEW command \in {1, 2}, GuiRecovery(command)
         PROVE  Latches'
    <2>1. sync' \in {sync, "no"}
      BY <1>10 DEF GuiRecovery, Cuts
    <2> QED
      BY <1>0, <1>1, <1>3, <1>10, <2>1, GuiRecoveryDoes, AwayLatches DEF Syncing
  <1>11. CASE Preflight \/ PreflightFails
    <2>1. /\ UNCHANGED <<plc, ctl, halting, tx, poll, sync>> /\ Less /\ ~Active /\ SameLatches
      BY <1>0, <1>11, PreflightDoes
    <2> QED
      BY <1>1, <1>2, <2>1, AwayLatches DEF Syncing
  <1> QED
    BY <1>4, <1>5, <1>6, <1>7, <1>8, <1>9, <1>10, <1>11

LEMMA ButtonLatches ==
    ASSUME LatchInv, PressPB2 \/ LadderClears \/ \E command \in {1, 2} : PressPB1(command)
    PROVE  Latches'
  <1>0. TypeInv /\ svc \in Svcs
    BY TypeParts DEF LatchInv, HandshakeInv
  <1>1. plc[2] = 0 => plc[1] = 0
    BY DEF LatchInv, InContract
  <1>2. ctl.estop => ctl.run # "running" \/ halting \/ poll.at = "estop"
    BY DEF LatchInv, Agreed
  <1>3. UNCHANGED svc => SameLatches
    BY <1>0 DEF SameLatches
  <1>4. CASE PressPB2
    BY <1>0, <1>1, <1>2, <1>3, <1>4, PressPB2Does, AwayLatches DEF Syncing
  <1>5. ASSUME NEW command \in {1, 2}, PressPB1(command)
        PROVE  Latches'
    BY <1>0, <1>1, <1>2, <1>3, <1>5, PressPB1Does, AwayLatches DEF Syncing
  <1>6. CASE LadderClears
    BY <1>0, <1>1, <1>2, <1>3, <1>6, LadderClearsDoes, AwayLatches DEF Syncing
  <1> QED
    BY <1>4, <1>5, <1>6

\* What writing a register does to its parts.
LEMMA TouchesParts ==
    ASSUME TypeInv, InContract
    PROVE  /\ plc' \in {plc, [plc EXCEPT ![3] = 0]} =>
                /\ plc'[1] = plc[1] /\ plc'[2] = plc[2] /\ plc'[3] \in {plc[3], 0}
                /\ plc'[2] = 0 => plc'[1] = 0
           /\ plc' \in {plc, [plc EXCEPT ![3] = 1]} =>
                /\ plc'[1] = plc[1] /\ plc'[2] = plc[2]
                /\ plc'[2] = 0 => plc'[1] = 0
           /\ plc' \in {plc, [plc EXCEPT ![2] = 1]} =>
                /\ plc'[1] = plc[1] /\ plc'[2] \in {plc[2], 1} /\ plc'[3] = plc[3]
                /\ plc'[2] = 0 => plc'[1] = 0
  <1>0. plc \in Words /\ (plc[2] = 0 => plc[1] = 0)
    BY TypeParts DEF InContract
  <1> DEFINE a == [plc EXCEPT ![3] = 0]
             b == [plc EXCEPT ![3] = 1]
             c == [plc EXCEPT ![2] = 1]
  <1>1. a[1] = plc[1] /\ a[2] = plc[2] /\ a[3] = 0
    BY <1>0, WordSet
  <1>2. b[1] = plc[1] /\ b[2] = plc[2]
    BY <1>0, WordSet
  <1>3. c[1] = plc[1] /\ c[2] = 1 /\ c[3] = plc[3]
    BY <1>0, WordSet
  <1> HIDE DEF a, b, c
  <1>4. plc' \in {plc, a} =>
                /\ plc'[1] = plc[1] /\ plc'[2] = plc[2] /\ plc'[3] \in {plc[3], 0}
                /\ plc'[2] = 0 => plc'[1] = 0
    BY <1>0, <1>1
  <1>5. plc' \in {plc, b} =>
                /\ plc'[1] = plc[1] /\ plc'[2] = plc[2]
                /\ plc'[2] = 0 => plc'[1] = 0
    BY <1>0, <1>2
  <1>6. plc' \in {plc, c} =>
                /\ plc'[1] = plc[1] /\ plc'[2] \in {plc[2], 1} /\ plc'[3] = plc[3]
                /\ plc'[2] = 0 => plc'[1] = 0
    BY <1>0, <1>3
  <1> QED
    BY <1>4, <1>5, <1>6 DEF a, b, c

LEMMA ProcessLatches ==
    ASSUME LatchInv, Disconnect \/ Connect \/ Restart
    PROVE  Latches'
  <1>0. TypeInv /\ InContract
    BY DEF LatchInv, HandshakeInv
  <1>1. CASE Disconnect
    <2>1. /\ TypeInv' /\ Less /\ UNCHANGED <<ctl, halting, tx>>
          /\ plc' \in {plc, [plc EXCEPT ![3] = 0]}
          /\ ctl.run = "idle" /\ ~Active /\ SameLatches /\ poll'.at = "off"
      BY <1>0, <1>1, DisconnectDoes
    <2>2. sync' = "no"
      BY <1>1 DEF Disconnect, Lowered
    <2>3. /\ plc'[2] = plc[2] /\ plc'[3] \in {plc[3], 0}
          /\ plc'[2] = 0 => plc'[1] = 0
      BY <1>0, <2>1, TouchesParts
    <2>4. InContract'
      BY <1>0, <2>1, <2>3, ContractKept DEF Judging
    <2>5. ~Active' /\ poll.at # "finish"
      BY <2>1 DEF Active, LatchInv, HandshakeInv, Placed, ActivePhases
    <2>6. Agreed'
      BY <2>1, <2>5 DEF LatchInv, Agreed, SameLatches
    <2>7. Covers'
      BY <2>1, <2>5 DEF DueOf, Covers
    <2>8. Durable'
      BY <2>1, <2>2, <2>3 DEF Firm, LatchInv, Durable, Closed, SameLatches, Judging
    <2> QED
      BY <2>4, <2>6, <2>7, <2>8 DEF Latches
  <1>2. CASE Connect
    <2>1. /\ Less /\ UNCHANGED <<plc, ctl, halting, svc, tx, sync>>
          /\ poll.at = "off" /\ poll'.at = "idle"
      BY <1>0, <1>2, ConnectDoes
    <2>2. InContract'
      BY <1>0, <2>1, ContractKept DEF InContract, Judging
    <2>3. Agreed'
      BY <2>1 DEF LatchInv, Agreed
    <2>4. ~Active'
      BY <2>1 DEF DueOf, LatchInv, Covers, Active
    <2>5. Covers'
      BY <2>1, <2>4 DEF DueOf, Covers
    <2>6. Durable'
      BY <2>1 DEF Firm, LatchInv, Durable, Closed, Judging
    <2> QED
      BY <2>2, <2>3, <2>5, <2>6 DEF Latches
  <1>3. CASE Restart
    <2>1. /\ TypeInv' /\ Less /\ UNCHANGED tx
          /\ plc' \in {plc, [plc EXCEPT ![3] = 0]}
          /\ svc'.connected = FALSE /\ svc'.fresh = TRUE
          /\ svc'.sources = RestoredSources(tx) /\ svc'.confirmed = {}
          /\ svc'.origins \subseteq svc'.sources
          /\ ctl'.estop = FALSE /\ poll'.at = "idle" /\ sync' = "no"
      BY <1>0, <1>3, RestartDoes
    <2>3. /\ plc'[2] = plc[2] /\ plc'[3] \in {plc[3], 0}
          /\ plc'[2] = 0 => plc'[1] = 0
      BY <1>0, <2>1, TouchesParts
    <2>4. InContract'
      BY <1>0, <2>1, <2>3, ContractKept DEF Judging
    <2>5. Agreed'
      BY <2>1 DEF Agreed
    <2>6. Covers'
      BY <2>1 DEF DueOf, Covers, Trusted, Judging
    <2>7. Durable'
      BY <2>1, <2>3 DEF Firm, LatchInv, Durable, Closed, RestoredSources, Judging
    <2> QED
      BY <2>4, <2>5, <2>6, <2>7 DEF Latches
  <1> QED
    BY <1>1, <1>2, <1>3

\* What the service and the Controller a snapshot is judged with have in common.
Agree(v, c) ==
    /\ v.confirmed \cup v.origins \subseteq v.sources
    /\ v.confirmed \subseteq c.sources
    /\ v.confirmed # {} => c.estop
    /\ c.estop => c.run # "running" \/ halting

LEMMA AgreedIsAgree ==
    ASSUME LatchInv, poll.at \notin {"finish", "estop"}
    PROVE  Agree(svc, ctl)
  BY DEF LatchInv, Agreed, Agree

LEMMA KeptAgrees ==
    ASSUME NEW v, NEW c, Agree(v, c), Kept(v), ctl' = c, UNCHANGED halting,
           poll'.at \notin {"finish", "estop", "ensured"}
    PROVE  Agreed'
  BY DEF Agree, Kept, Agreed

LEMMA FailAgrees ==
    ASSUME NEW v \in Svcs, NEW c \in Ctls, NEW t \in Txs, FailRecovery(v, c, t),
           UNCHANGED halting,
           v.confirmed \cup v.origins \subseteq v.sources,
           v.confirmed \subseteq c.sources \cup t.sources,
           c.estop => c.run # "running" \/ halting
    PROVE  Agreed'
  <1>1. /\ svc'.sources = v.sources \cup t.sources
        /\ svc'.confirmed = v.confirmed \cup t.sources
        /\ svc'.origins = v.origins \cup t.sources
        /\ ctl'.estop = TRUE /\ ctl'.sources = c.sources \cup t.sources
        /\ ctl'.run = IF c.estop THEN c.run ELSE "idle"
        /\ poll'.at \in {"idle", "reassert"}
    BY FailRecoveryDoes
  <1> QED
    BY <1>1 DEF Agreed

\* A failed recovery leaves the transaction closed to the handshake, its sources on record.
LEMMA FailCovers ==
    ASSUME NEW v \in Svcs, NEW c \in Ctls, NEW t \in Txs, FailRecovery(v, c, t),
           t.sources # {}
    PROVE  Covers' /\ Durable'
  <1>1. /\ svc'.sources = v.sources \cup t.sources
        /\ poll'.at \in {"idle", "reassert"}
        /\ tx'.phase = "failed" /\ tx'.sources \in {t.sources, svc'.sources}
    BY FailRecoveryDoes
  <1>2. ~Active' /\ ~Closed'
    BY <1>1 DEF Active, ActivePhases, Closed
  <1>3. Covers'
    BY <1>1, <1>2 DEF DueOf, Covers
  <1>4. Durable'
    BY <1>1, <1>2 DEF Firm, Durable, Judging
  <1> QED
    BY <1>3, <1>4

LEMMA CompleteLatches ==
    ASSUME LatchInv, NEW v \in Svcs, NEW c \in Ctls, NEW t \in Txs, Errs(c, sync),
           UNCHANGED <<plc, halting>>, Agree(v, c), DueOf(v) \subseteq t.sources,
           t.sources # {}, t.phase = "release_observed", plc[3] = 0,
           Complete(v, c, t)
    PROVE  Latches'
  <1>0. TypeInv /\ InContract /\ left \in [Events -> Nat] /\ hist \in Hists
    BY TypeParts DEF LatchInv, HandshakeInv
  <1>1. /\ Less
        /\ \/ FailRecovery(v, c, t)
           \/ svc' = v /\ tx' = t /\ poll'.at = "finish" /\ ctl'.estop = FALSE
           \/ \E d \in Ctls : d.estop = FALSE /\ FailRecovery(v, d, t)
    BY <1>0, CompleteDoes DEF Typed, Less
  <1>2. CASE svc' = v /\ tx' = t /\ poll'.at = "finish" /\ ctl'.estop = FALSE
    <2>1. InContract'
      BY <1>0, <1>1, <1>2, ContractKept DEF InContract, Judging
    <2>2. Agreed'
      BY <1>2 DEF Agree, Agreed
    <2>3. Covers'
      BY <1>2 DEF DueOf, Covers, Judging
    <2>4. Durable'
      BY <1>2 DEF Firm, Durable, Closed, Judging
    <2> QED
      BY <2>1, <2>2, <2>3, <2>4 DEF Latches
  <1>3. ASSUME NEW d \in Ctls, FailRecovery(v, d, t),
               v.confirmed \subseteq d.sources \cup t.sources,
               d.estop => d.run # "running" \/ halting
        PROVE  Latches'
    <2>1. poll'.at \in {"idle", "reassert"}
      BY <1>3, FailRecoveryDoes
    <2>2. InContract'
      BY <1>0, <1>1, <2>1, ContractKept DEF InContract, Judging
    <2>3. Agreed'
      BY <1>3, FailAgrees DEF Agree
    <2>4. Covers' /\ Durable'
      BY <1>3, FailCovers
    <2> QED
      BY <2>2, <2>3, <2>4 DEF Latches
  <1> QED
    BY <1>1, <1>2, <1>3 DEF Agree, DueOf

\* Judging a snapshot takes no synchronisation up.
LEMMA DecideSync ==
    ASSUME NEW v, NEW c, NEW w, NEW recon \in BOOLEAN, NEW expired \in BOOLEAN,
           Decide(v, c, w, recon, expired)
    PROVE  sync' \in {sync, "no"}
  <1>1. \A e : Cuts(e) => sync' \in {sync, "no"}
    BY DEF Cuts
  <1>2. \A u, d, t : FailRecovery(u, d, t) => sync' \in {sync, "no"}
    BY <1>1 DEF FailRecovery
  <1>3. \A u, d, t : Complete(u, d, t) => sync' \in {sync, "no"}
    BY <1>1, <1>2 DEF Complete
  <1>4. \A u, d : ReleasedWith(u, d, w) => sync' \in {sync, "no"}
    BY <1>1, <1>3 DEF ReleasedWith
  <1>5. Advance(v, c, w, expired) => sync' \in {sync, "no"}
    BY <1>1, <1>4 DEF Advance
  <1>6. \A u, k : Begin(u, c, k, w) => sync' \in {sync, "no"}
    BY <1>1 DEF Begin
  <1>7. \A u : Retry(u, c) => sync' \in {sync, "no"}
    BY <1>1 DEF Retry
  <1>8. Request(v, c, w, recon) => sync' \in {sync, "no"}
    BY <1>1, <1>6, <1>7 DEF Request
  <1>9. Reconcile(v, c, w, expired) => sync' \in {sync, "no"}
    BY <1>1 DEF Reconcile
  <1> QED
    BY <1>5, <1>8, <1>9 DEF Decide

LEMMA JudgeLatches ==
    ASSUME LatchInv, NEW v \in Svcs, NEW c \in Ctls, NEW expired \in BOOLEAN,
           Errs(c, sync), ~Fault(poll.seen), poll.at \in {"held", "ensured"},
           UNCHANGED <<plc, halting>>, Agree(v, c),
           Active /\ ~poll.recon => DueOf(v) \subseteq tx.sources,
           poll.seen[2] = 1 => v.origins # {} \/ PB2 \in v.sources,
           v.deferred # {} => poll.seen[2] = 1,
           Closed /\ FirmOf(v) # {} => plc[2] = 1,
           Decide(v, c, poll.seen, poll.recon, expired)
    PROVE  Latches'
  <1> DEFINE w == poll.seen
  <1>0. /\ TypeInv /\ InContract /\ w \in Words /\ poll.recon \in BOOLEAN
        /\ tx \in Txs /\ left \in [Events -> Nat] /\ hist \in Hists
        /\ w[2] = 0 => w[1] = 0
    BY TypeParts DEF Fault, Polls, LatchInv, HandshakeInv
  <1>1. /\ Less
        /\ \/ Reconciles(v, c)
           \/ /\ tx.phase = "acknowledged" /\ (poll.recon => ~Active)
              /\ \/ w = Zero /\ Complete(v, c, Observing(tx))
                 \/ Lowers(v, c)
                 \/ /\ Waits(v, c) /\ poll'.at \in {"idle", "expire"}
                    /\ w \notin {Zero, <<0, 0, 1>>}
           \/ /\ tx.phase # "acknowledged" /\ (poll.recon => ~Active)
              /\ \/ Validated(v, c) /\ w[2] = 1
                 \/ Waits(v, c) /\ poll'.at = "idle"
                 \/ Waits(v, c) /\ poll'.at = "retry" /\ v.deferred # {}
                 \/ Refuses(v, c)
    BY <1>0, DecideDoes DEF Typed, Less
  <1>2. sync' \in {sync, "no"}
    BY <1>0, DecideSync
  <1>3. poll'.at \notin Judging => InContract'
    BY <1>0, <1>1, ContractKept DEF InContract
  <1>4. tx.phase = "acknowledged" => Active
    BY DEF Active, ActivePhases
  <1>5. tx.phase # "acknowledged" /\ (poll.recon => ~Active) => ~Active
    BY DEF DueOf, LatchInv, Covers, Trusted, Judging
  <1>6. Active => ~Closed /\ tx.sources # {}
    BY DEF Firm, LatchInv, Durable, Closed, Active, ActivePhases
  <1>7. CASE Reconciles(v, c)
    <2>1. poll'.at \in {"idle", "clear"} /\ ~Active' /\ ~Closed'
      BY <1>7 DEF Reconciles, Active, ActivePhases, Closed
    <2>2. Agreed'
      BY <1>7, <2>1 DEF Reconciles, Agree, Agreed
    <2>3. Covers'
      BY <2>1 DEF DueOf, Covers
    <2>4. Durable'
      BY <1>7, <2>1 DEF Firm, Reconciles, Durable, Judging
    <2> QED
      BY <1>3, <2>1, <2>2, <2>3, <2>4 DEF Latches, Judging
  <1>8. CASE /\ tx.phase = "acknowledged" /\ ~poll.recon
             /\ w = Zero /\ Complete(v, c, Observing(tx))
    <2>1. plc[3] = 0
      BY <1>0, <1>8, WordZero DEF Firm, LatchInv, Durable, Judging
    <2>2. /\ Observing(tx) \in Txs /\ Observing(tx).phase = "release_observed"
          /\ Observing(tx).sources = tx.sources
      BY <1>0, ObservingIs
    <2>3. DueOf(v) \subseteq tx.sources /\ tx.sources # {}
      BY <1>4, <1>6, <1>8
    <2> QED
      BY <1>8, <2>1, <2>2, <2>3, CompleteLatches
  <1>9. CASE tx.phase = "acknowledged" /\ ~poll.recon /\ Lowers(v, c)
    <2>1. /\ Kept(v) /\ ctl' = c /\ poll'.at = "lower"
          /\ tx'.phase = "release_observed" /\ tx'.sources = tx.sources
      BY <1>9 DEF Lowers
    <2>2. Agreed'
      BY <2>1, KeptAgrees
    <2>3. Covers'
      BY <1>4, <1>9, <2>1 DEF DueOf, Covers, Kept, Judging
    <2>4. Durable'
      BY <1>4, <1>6, <1>9, <2>1 DEF Firm, Durable, Closed, Judging
    <2> QED
      BY <1>3, <2>1, <2>2, <2>3, <2>4 DEF Latches, Judging
  <1>10. CASE /\ tx.phase = "acknowledged" /\ ~poll.recon
              /\ Waits(v, c) /\ poll'.at \in {"idle", "expire"}
              /\ w \notin {Zero, <<0, 0, 1>>}
    <2>1. Kept(v) /\ ctl' = c /\ UNCHANGED <<tx, hist>>
      BY <1>10 DEF Waits
    <2>2. w[2] = 1
      BY <1>0, <1>10, WordParts, WordZero
    <2>3. Agreed'
      BY <1>10, <2>1, KeptAgrees
    <2>4. Covers'
      BY <1>4, <1>10, <2>1, <2>2 DEF DueOf, Covers, Kept, Judging
    <2>5. Durable'
      BY <1>4, <1>6, <1>10, <2>1 DEF Firm, Durable, Closed, Judging
    <2> QED
      BY <1>3, <1>10, <2>3, <2>4, <2>5 DEF Latches, Judging
  <1>11. CASE Validated(v, c) /\ w[2] = 1
    <2>1. /\ Kept(v) /\ ctl' = c /\ poll'.at = "assert" /\ tx'.phase = "validated"
          /\ tx'.sources = IF v.sources = {} THEN {PB2} ELSE v.sources
      BY <1>11 DEF Validated
    <2>2. Agreed'
      BY <2>1, KeptAgrees
    <2>3. Covers'
      <3>1. DueOf(svc') \subseteq tx'.sources
        BY <2>1 DEF Kept, DueOf, Agree
      <3> QED
        BY <1>11, <2>1, <3>1 DEF Covers, Kept, Judging
    <2>4. Durable'
      BY <2>1 DEF Firm, Durable, Closed, Judging
    <2> QED
      BY <1>3, <2>1, <2>2, <2>3, <2>4 DEF Latches, Judging
  <1>12. CASE /\ ~Active /\ Waits(v, c) /\ poll'.at \in {"idle", "retry"}
              /\ poll'.at = "retry" => v.deferred # {}
    <2>1. Kept(v) /\ ctl' = c /\ UNCHANGED <<tx, hist>>
      BY <1>12 DEF Waits
    <2>2. Agreed'
      BY <1>12, <2>1, KeptAgrees
    <2>3. ~Active'
      BY <1>12, <2>1 DEF Active
    <2>4. Covers'
      BY <1>12, <2>1, <2>3 DEF DueOf, Covers, Kept
    <2>5. Durable'
      BY <1>2, <1>12, <2>1 DEF Firm, FirmOf, LatchInv, Durable, Closed, Kept, Judging
    <2> QED
      BY <1>3, <1>12, <2>2, <2>4, <2>5 DEF Latches, Judging
  <1>13. CASE Refuses(v, c)
    <2>1. /\ Kept(v) /\ ctl' = c /\ poll'.at = "idle"
          /\ tx'.phase = "recovery_required" /\ tx'.sources # {}
      BY <1>13 DEF Refuses
    <2>2. Agreed'
      BY <2>1, KeptAgrees
    <2>3. Covers'
      BY <2>1 DEF DueOf, Covers, Active, ActivePhases
    <2>4. Durable'
      BY <2>1 DEF Firm, Durable, Closed, Judging
    <2> QED
      BY <1>3, <2>1, <2>2, <2>3, <2>4 DEF Latches, Judging
  <1> QED
    BY <1>0, <1>1, <1>4, <1>5, <1>7, <1>8, <1>9, <1>10, <1>11, <1>12, <1>13

LEMMA EnsuringLatches ==
    ASSUME LatchInv, poll.at = "held", UNCHANGED <<plc, halting, tx, sync, left>>,
           ~Fault(poll.seen), ~ctl.estop, poll.seen[2] # 0,
           NEW S, S = IF svc.origins = {} THEN {PB2} ELSE svc.origins,
           svc'.sources = svc.sources \cup S, svc'.confirmed = svc.confirmed,
           svc'.origins = svc.origins,
           ctl'.sources = ctl.sources \cup (S \ svc.confirmed), ctl'.estop = TRUE,
           poll'.at = "estop", poll'.seen = poll.seen, poll'.recon = poll.recon
    PROVE  Latches'
  <1>0. TypeInv /\ InContract /\ poll.seen \in Words /\ Less
    BY KeptLess DEF LatchInv, HandshakeInv, Fault
  <1>1. poll.seen[2] = 1
    BY <1>0, WordParts
  <1>2. InContract'
    BY <1>0, ContractKept DEF InContract, Judging
  <1>3. Agreed'
    <2>1. svc.confirmed = {} /\ svc.origins \subseteq svc.sources
      BY DEF LatchInv, Agreed
    <2>2. Asserted(svc', poll'.seen) = S
      BY <1>1, AssertedSome
    <2>3. svc'.confirmed = {}
      BY <2>1
    <2>4. svc'.origins \subseteq svc'.sources /\ S \subseteq svc'.sources \cap ctl'.sources
      BY <2>1
    <2> QED
      BY <1>1, <2>2, <2>3, <2>4 DEF Agreed
  <1>4. Covers'
    <2>1. Active' <=> Active
      BY DEF Active
    <2>2. Active /\ Trusted' =>
            /\ DueOf(svc) \subseteq tx.sources /\ tx.phase = "acknowledged"
            /\ svc.origins # {} \/ PB2 \in tx.sources
      BY DEF DueOf, LatchInv, Covers, Trusted, Judging
    <2>3. svc.origins \subseteq svc.sources
      BY DEF LatchInv, Agreed
    <2>4. Active /\ Trusted' => DueOf(svc') \subseteq tx'.sources
      BY <2>2, <2>3 DEF DueOf
    <2> QED
      BY <2>1, <2>2, <2>4 DEF DueOf, Covers
  <1>5. Durable'
    BY <1>1 DEF Firm, LatchInv, Durable, Closed, Judging
  <1> QED
    BY <1>2, <1>3, <1>4, <1>5 DEF Latches

LEMMA ObserveLatches ==
    ASSUME LatchInv, NEW expired \in BOOLEAN, Observe(expired) \/ ObserveEnsured(expired)
    PROVE  Latches'
  <1> DEFINE w == poll.seen
  <1>0. /\ TypeInv /\ InContract /\ Placed /\ UNCHANGED <<plc, halting>>
        /\ svc \in Svcs /\ poll \in Polls /\ w \in Samples
        /\ ctl \in Ctls /\ Errs(ctl, sync)
    BY TypeParts DEF LatchInv, HandshakeInv, Observe, ObserveEnsured, Polls
  <1>1. CASE Observe(expired)
    <2>1. poll.at = "held" /\ ~Fault(w)
      BY <1>0, <1>1 DEF Observe, InContract, Judging
    <2>2. w \in Words /\ w[2] \in {0, 1}
      BY <2>1, WordParts DEF Fault
    <2>3. Agree(svc, ctl)
      BY <2>1, AgreedIsAgree
    <2>4. CASE /\ ~ctl.estop /\ w[2] # 0
               /\ svc' \in Svcs /\ svc'.sources = svc.sources \cup Asserted(Taken(svc, w), w)
               /\ svc'.confirmed = svc.confirmed /\ svc'.origins = svc.origins
               /\ ctl' = Stopped(ctl, Asserted(Taken(svc, w), w) \ svc.confirmed)
               /\ poll' = [poll EXCEPT !.at = "estop"]
               /\ UNCHANGED <<tx, sync, left>>
      <3> DEFINE u == Taken(svc, w)
                 S == Asserted(u, w)
      <3>1. u \in Svcs /\ u.origins = svc.origins
        BY <1>0, <2>4, TakenIs
      <3> HIDE DEF u
      <3>2. S \in SUBSET Latched /\ S = IF svc.origins = {} THEN {PB2} ELSE svc.origins
        BY <2>4, <3>1, AssertedIs
      <3>3. S \ svc.confirmed \in SUBSET Recoverable
        BY <3>2, LatchedRecoverable
      <3>4. /\ svc'.sources = svc.sources \cup S
            /\ ctl' = Stopped(ctl, S \ svc.confirmed)
        BY <2>4 DEF u
      <3> HIDE DEF S
      <3>5. /\ ctl'.estop = TRUE /\ ctl'.sources = ctl.sources \cup (S \ svc.confirmed)
        BY <1>0, <3>3, <3>4, StoppedIs
      <3>6. poll'.at = "estop" /\ poll'.seen = poll.seen /\ poll'.recon = poll.recon
        BY <1>0, <2>4 DEF Polls
      <3> QED
        BY <1>0, <2>1, <2>4, <3>2, <3>4, <3>5, <3>6, EnsuringLatches
    <2>5. ASSUME NEW v \in Svcs, NEW c \in Ctls, Judged(v, c, w),
                 Decide(v, c, w, poll.recon, expired)
          PROVE  Latches'
      <3> DEFINE T == IF w[2] = 0 THEN {} ELSE IF v.origins = {} THEN {PB2} ELSE v.origins
                 S == v.confirmed \ svc.confirmed
      <3>1. /\ Errs(c, sync)
            /\ v.sources = svc.sources \cup T /\ v.confirmed = svc.confirmed \cup T
            /\ v.origins = IF w[2] = 0 THEN {} ELSE svc.origins
            /\ w # <<1, 1, 0>> => v.deferred = {}
            /\ c.sources = ctl.sources \cup S /\ c.run = ctl.run /\ c.estop = ctl.estop
            /\ S # {} => ctl.estop
        BY <2>5 DEF Judged
      <3>2. Agree(v, c)
        BY <2>3, <3>1 DEF Agree
      <3>3. Active /\ ~poll.recon => DueOf(v) \subseteq tx.sources
        <4>1. Active /\ ~poll.recon =>
                /\ DueOf(svc) \subseteq tx.sources
                /\ svc.origins # {} \/ PB2 \in tx.sources
          BY <2>1 DEF DueOf, LatchInv, Covers, Trusted, Judging
        <4>2. svc.origins \subseteq svc.sources
          BY DEF LatchInv, Agreed
        <4> QED
          BY <3>1, <4>1, <4>2 DEF DueOf
      <3>4. w[2] = 1 => v.origins # {} \/ PB2 \in v.sources
        BY <3>1
      <3>5. v.deferred # {} => w[2] = 1
        BY <2>2, <3>1, WordZero
      <3>6. Closed /\ FirmOf(v) # {} => plc[2] = 1
        <4>1. w[2] = 0 => FirmOf(v) = Firm
          BY <3>1 DEF Firm, FirmOf
        <4> QED
          BY <2>1, <2>2, <4>1 DEF LatchInv, Durable, Judging
      <3> QED
        BY <1>0, <2>1, <2>5, <3>1, <3>2, <3>3, <3>4, <3>5, <3>6, JudgeLatches
    <2> QED
      BY <1>0, <1>1, <2>1, <2>4, <2>5, ObserveDoes
  <1>2. CASE ObserveEnsured(expired)
    <2>1. poll.at = "ensured" /\ ~Fault(w)
      BY <1>0, <1>2, ObserveEnsuredDoes DEF ObserveEnsured
    <2> DEFINE S == Asserted(svc, w)
    <2>2. PICK v \in Svcs :
                     /\ v.sources = svc.sources \cup S
                     /\ v.confirmed = svc.confirmed \cup S /\ v.origins = svc.origins
                     /\ Decide(v, ctl, w, poll.recon, expired)
      BY <1>0, <1>2, ObserveEnsuredDoes
    <2>3. ctl.estop /\ w[2] = 1 /\ S \subseteq svc.sources \cap ctl.sources
      BY <2>1 DEF LatchInv, Agreed
    <2>4. Agree(v, ctl)
      <3>1. Agree(svc, ctl)
        BY <2>1, AgreedIsAgree
      <3> QED
        BY <2>2, <2>3, <3>1 DEF Agree
    <2>5. v.sources = svc.sources
      BY <2>2, <2>3
    <2>6. Active /\ ~poll.recon => DueOf(v) \subseteq tx.sources
      <3>1. Active /\ ~poll.recon =>
              /\ DueOf(svc) \subseteq tx.sources
              /\ svc.origins # {} \/ PB2 \in tx.sources
        BY <2>1 DEF LatchInv, Covers, Trusted, Judging
      <3>2. S = IF svc.origins = {} THEN {PB2} ELSE svc.origins
        BY <2>3, AssertedSome
      <3> HIDE DEF S
      <3> QED
        BY <2>2, <2>5, <3>1, <3>2 DEF DueOf
    <2>7. v.origins # {} \/ PB2 \in v.sources
      BY <2>2, <2>3, AssertedSome
    <2>8. Closed /\ FirmOf(v) # {} => plc[2] = 1
      BY <2>1, <2>3 DEF LatchInv, Durable, Judging
    <2> QED
      BY <1>0, <2>1, <2>2, <2>3, <2>4, <2>6, <2>7, <2>8, JudgeLatches
  <1> QED
    BY <1>1, <1>2

LEMMA StillAgrees ==
    ASSUME LatchInv, SameLatches, UNCHANGED <<ctl, halting>>,
           poll.at \notin {"finish", "estop"}, poll'.at \notin {"estop", "ensured"}
    PROVE  Agreed'
  BY DEF LatchInv, Agreed, SameLatches

LEMMA ReadLatches ==
    ASSUME LatchInv, PollReads \/ PollReadsGarbled \/ EstopReturns \/ RetryReads
    PROVE  Latches'
  <1>0. TypeInv /\ InContract /\ svc \in Svcs /\ plc \in Words
    BY TypeParts DEF LatchInv, HandshakeInv
  <1>1. CASE PollReads
    <2>1. /\ Less /\ UNCHANGED <<plc, ctl, halting, tx, sync>> /\ poll.at = "idle"
          /\ SameLatches /\ svc'.fresh = svc.fresh
          /\ \/ svc'.connected = FALSE /\ poll'.at = "idle"
             \/ /\ svc'.connected = TRUE /\ poll'.at = "held" /\ poll'.seen = plc
                /\ poll'.recon = (~svc.connected \/ svc.fresh)
      BY <1>0, <1>1, PollReadsDoes DEF Raised, Sampled
    <2>2. ~Fault(plc)
      BY <1>0 DEF InContract, Fault
    <2>3. left'["garbled"] = 0
      <3>1. "garbled" \in Events /\ left \in [Events -> Nat] /\ left["garbled"] = 0
        BY <1>0, TypeParts DEF Events, InContract
      <3>2. left'["garbled"] \in Nat /\ left'["garbled"] <= 0
        BY <2>1, <3>1 DEF Less
      <3> QED
        BY <3>2
    <2>4. InContract'
      BY <2>1, <2>2, <2>3 DEF InContract, Fault, Judging
    <2>5. Agreed'
      BY <2>1, StillAgrees
    <2>6. Covers'
      <3>1. Active' <=> Active
        BY <2>1 DEF Active
      <3>2. Trusted' => Trusted
        BY <1>0, <2>1, SvcRecord DEF Trusted, Judging
      <3> QED
        BY <2>1, <3>1, <3>2 DEF DueOf, LatchInv, Covers, SameLatches, Judging
    <2>7. Durable'
      BY <2>1 DEF Firm, LatchInv, Durable, Closed, SameLatches, Judging
    <2> QED
      BY <2>4, <2>5, <2>6, <2>7 DEF Latches
  <1>2. CASE PollReadsGarbled
    <2>1. left["garbled"] > 0 /\ left["garbled"] = 0
      BY <1>0, <1>2, PollReadsGarbledDoes DEF InContract
    <2> QED
      BY <2>1
  <1>3. CASE EstopReturns
    <2>1. /\ TypeInv' /\ Less /\ UNCHANGED <<plc, halting, tx>>
          /\ poll.at = "estop"
          /\ ctl'.sources = ctl.sources /\ ctl'.estop = ctl.estop /\ ctl'.run = "idle"
          /\ \/ SameLatches /\ svc'.connected = FALSE /\ poll'.at = "idle"
             \/ UNCHANGED svc /\ poll'.at = "ensured" /\ poll'.seen = poll.seen
                /\ poll'.recon = poll.recon
      BY <1>0, <1>3, EstopReturnsDoes DEF Raised
    <2>2. sync' = "no"
      BY <2>1 DEF TypeInv, PlcTypeOK
    <2>3. InContract'
      BY <1>0, <2>1, ContractKept DEF InContract, Judging
    <2>4. Agreed'
      <3>1. CASE SameLatches /\ poll'.at = "idle"
        BY <2>1, <3>1 DEF LatchInv, Agreed, SameLatches
      <3>2. CASE UNCHANGED svc /\ poll'.at = "ensured" /\ poll'.seen = poll.seen
        BY <2>1, <3>2 DEF LatchInv, Agreed
      <3> QED
        BY <2>1, <3>1, <3>2
    <2>5. Covers'
      <3>1. Active' <=> Active
        BY <2>1 DEF Active
      <3>2. CASE svc'.connected = FALSE /\ poll'.at = "idle"
        BY <2>2, <3>2 DEF DueOf, Covers, Trusted, Judging
      <3>3. CASE UNCHANGED svc /\ poll'.at = "ensured" /\ poll'.recon = poll.recon
        BY <2>1, <3>1, <3>3 DEF DueOf, LatchInv, Covers, Trusted, Judging
      <3> QED
        BY <2>1, <3>2, <3>3
    <2>6. Durable'
      BY <2>1, <2>2 DEF Firm, LatchInv, Durable, Closed, SameLatches, Judging
    <2> QED
      BY <2>3, <2>4, <2>5, <2>6 DEF Latches
  <1>4. CASE RetryReads
    <2>1. /\ Less /\ UNCHANGED <<plc, ctl, halting, sync>> /\ poll.at = "retry"
          /\ \/ Raised /\ UNCHANGED <<tx, hist>>
             \/ Validated(svc, ctl)
             \/ Waits(svc, ctl) /\ poll'.at = "idle"
      BY <1>0, <1>4, RetryReadsDoes
    <2>2. SameLatches /\ poll'.at \in {"idle", "assert"}
      BY <2>1 DEF Raised, Validated, Waits, Kept, SameLatches
    <2>3. InContract'
      BY <1>0, <2>1, <2>2, ContractKept DEF InContract, Judging
    <2>4. Agreed'
      BY <2>1, <2>2, StillAgrees
    <2>5. ~Active /\ (svc.origins # {} \/ PB2 \in svc.sources)
      BY <2>1 DEF DueOf, LatchInv, Covers
    <2>6. CASE Validated(svc, ctl)
      <3>1. /\ poll'.at = "assert" /\ tx'.phase = "validated"
            /\ tx'.sources = IF svc.sources = {} THEN {PB2} ELSE svc.sources
        BY <2>6 DEF Validated
      <3>2. Covers'
        <4>1. DueOf(svc') \subseteq tx'.sources
          BY <2>2, <3>1 DEF DueOf, LatchInv, Agreed, SameLatches
        <4> QED
          BY <2>2, <2>5, <3>1, <4>1 DEF Covers, SameLatches, Judging
      <3>3. Durable'
        BY <3>1 DEF Firm, Durable, Closed, Judging
      <3> QED
        BY <2>3, <2>4, <3>2, <3>3 DEF Latches
    <2>7. CASE UNCHANGED tx /\ poll'.at = "idle"
      <3>1. ~Active'
        BY <2>5, <2>7 DEF Active
      <3>2. Covers'
        BY <2>7, <3>1 DEF DueOf, Covers
      <3>3. Durable'
        BY <2>1, <2>2, <2>7 DEF Firm, LatchInv, Durable, Closed, SameLatches, Judging
      <3> QED
        BY <2>3, <2>4, <3>2, <3>3 DEF Latches
    <2> QED
      BY <2>1, <2>6, <2>7 DEF Raised, Waits
  <1> QED
    BY <1>1, <1>2, <1>3, <1>4

LEMMA AckLatches ==
    ASSUME LatchInv, Assert \/ AssertReads \/ Undo
    PROVE  Latches'
  <1>0. TypeInv /\ InContract /\ svc \in Svcs /\ plc \in Words /\ tx \in Txs
        /\ ctl \in Ctls /\ Errs(ctl, sync)
    BY TypeParts DEF LatchInv, HandshakeInv
  <1>1. UNCHANGED svc => SameLatches
    BY <1>0 DEF SameLatches
  <1>2. poll.at \in {"assert", "assertRead", "undo"} =>
          /\ Active /\ ~Closed /\ tx.sources # {} /\ DueOf(svc) \subseteq tx.sources
          /\ poll.at # "undo" => svc.origins # {} \/ PB2 \in tx.sources
    <2>1. poll.at \in {"assert", "assertRead", "undo"} => Active /\ ~Closed
      BY DEF LatchInv, HandshakeInv, Placed, Active, ActivePhases, Closed
    <2> QED
      BY <2>1 DEF Firm, DueOf, LatchInv, Covers, Durable, Trusted, Judging
  <1>3. CASE Assert
    <2>1. /\ Less /\ UNCHANGED <<ctl, halting, svc, tx, sync>> /\ poll.at = "assert"
          /\ plc' \in {plc, [plc EXCEPT ![3] = 1]} /\ poll'.at \in {"assertRead", "undo"}
      BY <1>0, <1>3, AssertDoes DEF Touches
    <2>2. InContract'
      BY <1>0, <2>1, TouchesParts, ContractKept DEF Judging
    <2>3. Agreed'
      BY <1>1, <2>1, StillAgrees
    <2>4. Covers'
      BY <1>2, <2>1 DEF DueOf, Covers, Judging
    <2>5. Durable'
      BY <1>2, <2>1 DEF Firm, Durable, Closed, Judging
    <2> QED
      BY <2>2, <2>3, <2>4, <2>5 DEF Latches
  <1>4. CASE AssertReads
    <2>1. /\ Less /\ UNCHANGED <<plc, halting>> /\ poll.at = "assertRead"
          /\ \/ SameLatches /\ poll'.at = "undo" /\ UNCHANGED <<ctl, tx, sync>>
             \/ /\ SameAs(svc') /\ poll'.at = "idle"
                /\ tx'.phase = "acknowledged" /\ tx'.sources = tx.sources
                /\ UNCHANGED <<ctl, sync>>
             \/ \E v : SameAs(v) /\ plc = Zero /\ Complete(v, ctl, Observing(tx))
      BY <1>0, <1>4, AssertReadsDoes
    <2>2. poll'.at \notin Judging => InContract'
      BY <1>0, <2>1, ContractKept DEF InContract
    <2>3. CASE SameLatches /\ poll'.at = "undo" /\ UNCHANGED <<ctl, tx, sync>>
      <3>1. Agreed'
        BY <2>1, <2>3, StillAgrees
      <3>2. Covers'
        BY <1>2, <2>1, <2>3 DEF DueOf, Covers, SameLatches, Judging
      <3>3. Durable'
        BY <1>2, <2>1, <2>3 DEF Firm, Durable, Closed, Judging
      <3> QED
        BY <2>2, <2>3, <3>1, <3>2, <3>3 DEF Latches, Judging
    <2>4. CASE /\ SameAs(svc') /\ poll'.at = "idle"
               /\ tx'.phase = "acknowledged" /\ tx'.sources = tx.sources
               /\ UNCHANGED <<ctl, sync>>
      <3>0. SameLatches
        BY <2>4 DEF SameAs, SameLatches
      <3>1. Agreed'
        BY <2>1, <2>4, <3>0, StillAgrees
      <3>2. Covers'
        BY <1>2, <2>1, <2>4, <3>0 DEF DueOf, Covers, SameLatches, Judging
      <3>3. Durable'
        BY <1>2, <2>1, <2>4 DEF Firm, Durable, Closed, Judging
      <3> QED
        BY <2>2, <2>4, <3>1, <3>2, <3>3 DEF Latches, Judging
    <2>5. ASSUME NEW v, SameAs(v), plc = Zero, Complete(v, ctl, Observing(tx))
          PROVE  Latches'
      <3>1. Agree(v, ctl)
        <4>1. Agree(svc, ctl)
          BY <2>1, AgreedIsAgree
        <4> QED
          BY <2>5, <4>1 DEF Agree, SameAs
      <3>2. /\ Observing(tx) \in Txs /\ Observing(tx).phase = "release_observed"
            /\ Observing(tx).sources = tx.sources
        BY <1>0, ObservingIs
      <3>3. plc[3] = 0
        BY <2>5 DEF Zero
      <3>4. v \in Svcs /\ DueOf(v) \subseteq tx.sources /\ tx.sources # {}
        BY <1>2, <2>1, <2>5 DEF SameAs, DueOf
      <3> QED
        BY <1>0, <2>1, <2>5, <3>1, <3>2, <3>3, <3>4, CompleteLatches
    <2> QED
      BY <2>1, <2>3, <2>4, <2>5
  <1>5. CASE Undo
    <2>1. /\ Touches(3, 0) /\ UNCHANGED <<ctl, halting, svc, sync>> /\ poll.at = "undo"
          /\ poll'.at = "idle" /\ tx'.phase = "write_failed" /\ tx'.sources = tx.sources
      BY <1>0, <1>5, UndoDoes
    <2>2. InContract'
      BY <1>0, <2>1, TouchesParts, ContractKept DEF Touches, Judging
    <2>3. Agreed'
      BY <1>1, <2>1, StillAgrees
    <2>4. Covers'
      BY <2>1 DEF DueOf, Covers, Active, ActivePhases
    <2>5. Durable'
      BY <1>2, <2>1 DEF Firm, Durable, Closed, Judging
    <2> QED
      BY <2>2, <2>3, <2>4, <2>5 DEF Latches
  <1> QED
    BY <1>3, <1>4, <1>5

LEMMA ReleaseLatches ==
    ASSUME LatchInv, Lower \/ LowerReads \/ Finish
    PROVE  Latches'
  <1>0. TypeInv /\ InContract /\ svc \in Svcs /\ plc \in Words /\ tx \in Txs
        /\ ctl \in Ctls /\ Errs(ctl, sync)
    BY TypeParts DEF LatchInv, HandshakeInv
  <1>1. UNCHANGED svc => SameLatches
    BY <1>0 DEF SameLatches
  <1>2. poll.at \in {"lower", "lowerRead", "finish"} =>
          /\ tx.phase = "release_observed" /\ Active /\ ~Closed
          /\ tx.sources # {} /\ DueOf(svc) \subseteq tx.sources
    <2>1. poll.at \in {"lower", "lowerRead", "finish"} =>
            tx.phase = "release_observed" /\ Active /\ ~Closed
      BY DEF LatchInv, HandshakeInv, Placed, Active, ActivePhases, Closed
    <2> QED
      BY <2>1 DEF Firm, DueOf, LatchInv, Covers, Durable, Trusted, Judging
  <1>3. poll.at \in {"lower", "lowerRead"} => Agree(svc, ctl)
    BY AgreedIsAgree
  <1>4. ASSUME NEW v \in Svcs, NEW t \in Txs, FailRecovery(v, ctl, t), Less,
               UNCHANGED halting, plc'[2] = 0 => plc'[1] = 0,
               Agree(svc, ctl), t.sources # {},
               NEW S \in SUBSET {PB2}, v.sources = svc.sources \cup S,
               v.confirmed = svc.confirmed, v.origins = svc.origins
        PROVE  Latches'
    <2>1. poll'.at \in {"idle", "reassert"}
      BY <1>0, <1>4, FailRecoveryDoes
    <2>2. InContract'
      BY <1>0, <1>4, <2>1, ContractKept DEF Judging
    <2>3. Agreed'
      BY <1>0, <1>4, FailAgrees DEF Agree
    <2>4. Covers' /\ Durable'
      BY <1>0, <1>4, FailCovers
    <2> QED
      BY <2>2, <2>3, <2>4 DEF Latches
  <1>5. CASE Lower
    <2>1. /\ Touches(3, 0) /\ UNCHANGED halting /\ poll.at = "lower"
          /\ \/ UNCHANGED <<ctl, svc, tx, sync>> /\ poll'.at = "lowerRead"
             \/ FailRecovery(svc, ctl, tx)
      BY <1>0, <1>5, LowerDoes
    <2>2. plc'[2] = 0 => plc'[1] = 0
      BY <1>0, <2>1, TouchesParts DEF Touches
    <2>3. CASE UNCHANGED <<ctl, svc, tx, sync>> /\ poll'.at = "lowerRead"
      <3>1. InContract'
        BY <1>0, <2>1, <2>2, <2>3, ContractKept DEF Touches, Judging
      <3>2. Agreed'
        BY <1>1, <2>1, <2>3, StillAgrees
      <3>3. Covers'
        BY <1>2, <2>1, <2>3 DEF DueOf, Covers, Judging
      <3>4. Durable'
        BY <1>2, <2>1, <2>3 DEF Firm, Durable, Closed, Judging
      <3> QED
        BY <3>1, <3>2, <3>3, <3>4 DEF Latches
    <2>4. CASE FailRecovery(svc, ctl, tx)
      <3>1. {} \in SUBSET {PB2} /\ svc.sources = svc.sources \cup {}
        OBVIOUS
      <3> QED
        BY <1>0, <1>2, <1>3, <1>4, <2>1, <2>2, <2>4, <3>1 DEF Touches
    <2> QED
      BY <2>1, <2>3, <2>4
  <1>6. CASE LowerReads
    <2>1. /\ Less /\ UNCHANGED <<plc, halting>> /\ poll.at = "lowerRead"
          /\ \/ FailRecovery(svc, ctl, tx)
             \/ \E v : SameAs(v) /\ plc = Zero /\ Complete(v, ctl, tx)
             \/ \E v \in Svcs, t \in Txs, S \in SUBSET {PB2} :
                   /\ FailRecovery(v, ctl, t)
                   /\ v.sources = svc.sources \cup S /\ v.confirmed = svc.confirmed
                   /\ v.origins = svc.origins
                   /\ t.sources = tx.sources \cup S
      BY <1>0, <1>6, LowerReadsDoes
    <2>2. /\ plc'[2] = 0 => plc'[1] = 0
          /\ tx.sources # {} /\ Agree(svc, ctl) /\ UNCHANGED halting
      BY <1>0, <1>2, <1>3, <2>1 DEF InContract
    <2>3. CASE FailRecovery(svc, ctl, tx)
      <3>1. {} \in SUBSET {PB2} /\ svc.sources = svc.sources \cup {}
        OBVIOUS
      <3> QED
        BY <1>0, <1>4, <2>1, <2>2, <2>3, <3>1
    <2>4. ASSUME NEW v, SameAs(v), plc = Zero, Complete(v, ctl, tx)
          PROVE  Latches'
      <3>1. Agree(v, ctl)
        BY <2>2, <2>4 DEF Agree, SameAs
      <3>2. plc[3] = 0
        BY <2>4 DEF Zero
      <3>3. v \in Svcs /\ DueOf(v) \subseteq tx.sources
        BY <1>2, <2>1, <2>4 DEF SameAs, DueOf
      <3> QED
        BY <1>0, <1>2, <2>1, <2>4, <3>1, <3>2, <3>3, CompleteLatches
    <2>5. ASSUME NEW v \in Svcs, NEW t \in Txs, NEW S \in SUBSET {PB2},
                 FailRecovery(v, ctl, t),
                 v.sources = svc.sources \cup S, v.confirmed = svc.confirmed,
                 v.origins = svc.origins, t.sources = tx.sources \cup S
          PROVE  Latches'
      <3>1. t.sources # {}
        BY <2>2, <2>5
      <3> QED
        BY <1>4, <2>1, <2>2, <2>5, <3>1
    <2> QED
      BY <2>1, <2>3, <2>4, <2>5
  <1>7. CASE Finish
    <2>1. /\ Less /\ UNCHANGED <<plc, ctl, halting, sync>>
          /\ poll.at = "finish" /\ poll'.at = "idle"
          /\ svc'.sources = svc.sources \ tx.sources
          /\ svc'.confirmed = svc.confirmed \ tx.sources
          /\ svc'.origins = svc.origins \ tx.sources
          /\ tx'.phase = "completed" /\ tx'.sources = tx.sources
      BY <1>0, <1>7, FinishDoes
    <2>2. svc'.confirmed = {} /\ svc'.origins = {} /\ Firm' = {}
      BY <1>2, <2>1 DEF DueOf, Firm
    <2>3. InContract'
      BY <1>0, <2>1, ContractKept DEF InContract, Judging
    <2>4. Agreed'
      BY <2>1, <2>2 DEF LatchInv, Agreed
    <2>5. Covers'
      BY <2>1 DEF DueOf, Covers, Active, ActivePhases
    <2>6. Durable'
      BY <1>2, <2>1, <2>2 DEF LatchInv, Durable, Judging
    <2> QED
      BY <2>3, <2>4, <2>5, <2>6 DEF Latches
  <1> QED
    BY <1>5, <1>6, <1>7

\* The steps that end a handshake without a release.
LEMMA EndingLatches ==
    ASSUME LatchInv, Expire \/ ExpireReads \/ Reassert \/ ReassertReads \/ Clear \/ ClearReads
    PROVE  Latches'
  <1>0. TypeInv /\ InContract /\ svc \in Svcs
    BY TypeParts DEF LatchInv, HandshakeInv
  <1>1. UNCHANGED svc => SameLatches
    BY <1>0 DEF SameLatches
  <1>2. UNCHANGED plc => (plc'[2] = 0 => plc'[1] = 0) /\ plc'[2] = plc[2] /\ plc'[3] = plc[3]
    BY <1>0 DEF InContract
  <1>3. ASSUME Less, UNCHANGED <<ctl, halting, sync>>, SameLatches, poll.at # "finish",
               poll.at # "estop", poll'.at \notin Judging \cup {"finish"},
               plc'[2] = 0 => plc'[1] = 0,
               Covers', Durable'
        PROVE  Latches'
    <2>1. InContract'
      BY <1>0, <1>3, ContractKept
    <2>2. Agreed'
      BY <1>3, StillAgrees DEF Judging
    <2> QED
      BY <1>3, <2>1, <2>2 DEF Latches
  <1>4. CASE Expire
    <2>1. /\ Touches(3, 0) /\ UNCHANGED <<ctl, halting, sync>>
          /\ poll.at = "expire" /\ SameLatches
          /\ \/ UNCHANGED tx /\ poll'.at = "expireRead"
             \/ poll'.at = "idle" /\ tx'.phase = "timed_out" /\ tx'.sources = tx.sources
      BY <1>0, <1>4, ExpireDoes
    <2>2. ~Closed /\ tx.sources # {}
      BY <2>1 DEF Firm, LatchInv, Durable
    <2>3. Covers'
      BY <2>1 DEF DueOf, LatchInv, Covers, Trusted, Active, ActivePhases, SameLatches, Judging
    <2>4. Durable'
      BY <2>1, <2>2 DEF Firm, Durable, Closed, Judging
    <2>5. plc'[2] = 0 => plc'[1] = 0
      BY <1>0, <2>1, TouchesParts DEF Touches
    <2> QED
      BY <1>3, <2>1, <2>3, <2>4, <2>5 DEF Touches, Judging
  <1>5. CASE ExpireReads
    <2>1. /\ Less /\ UNCHANGED <<plc, ctl, halting, sync>>
          /\ poll.at = "expireRead" /\ SameLatches /\ poll'.at = "idle"
          /\ tx'.phase = "timed_out" /\ tx'.sources = tx.sources
      BY <1>0, <1>5, ExpireReadsDoes
    <2>2. tx.sources # {}
      BY <2>1 DEF Firm, LatchInv, Durable
    <2>3. Covers'
      BY <2>1 DEF DueOf, Covers, Active, ActivePhases
    <2>4. Durable'
      BY <2>1, <2>2 DEF Firm, Durable, Closed, Judging
    <2> QED
      BY <1>2, <1>3, <2>1, <2>3, <2>4 DEF Judging
  <1>6. CASE Reassert
    <2>1. /\ Touches(2, 1) /\ UNCHANGED <<ctl, halting, svc, sync>>
          /\ poll.at = "reassert" /\ tx'.phase = tx.phase
          /\ \/ UNCHANGED tx /\ poll'.at = "reassertRead"
             \/ poll'.at = "idle" /\ tx'.sources = svc.sources
      BY <1>0, <1>6, ReassertDoes
    <2>2. svc.sources # {} /\ ~Active
      BY <2>1 DEF Firm, DueOf, LatchInv, Durable, Covers
    <2>3. Covers'
      BY <2>1, <2>2 DEF DueOf, Covers, Active
    <2>4. /\ plc'[2] = 0 => plc'[1] = 0
          /\ plc'[3] = plc[3] /\ plc'[2] \in {plc[2], 1}
      BY <1>0, <2>1, TouchesParts DEF Touches
    <2>5. Durable'
      BY <2>1, <2>2, <2>4 DEF Firm, LatchInv, Durable, Closed, Judging
    <2> QED
      BY <1>1, <1>3, <2>1, <2>3, <2>4, <2>5 DEF Touches, Judging
  <1>7. CASE ReassertReads
    <2>1. /\ Less /\ UNCHANGED <<plc, ctl, halting, sync>>
          /\ poll.at = "reassertRead" /\ SameLatches /\ poll'.at = "idle"
          /\ tx'.phase = tx.phase /\ tx'.sources = svc.sources
      BY <1>0, <1>7, ReassertReadsDoes
    <2>2. svc.sources # {} /\ ~Active
      BY <2>1 DEF Firm, DueOf, LatchInv, Durable, Covers
    <2>3. Covers'
      BY <2>1, <2>2 DEF DueOf, Covers, Active
    <2>4. Durable'
      BY <2>1, <2>2 DEF Firm, LatchInv, Durable, Closed, SameLatches, Judging
    <2> QED
      BY <1>2, <1>3, <2>1, <2>3, <2>4 DEF Judging
  <1>8. CASE Clear
    <2>1. /\ Touches(3, 0) /\ UNCHANGED <<ctl, halting, svc, sync>>
          /\ poll.at = "clear" /\ poll'.at \in {"idle", "clearRead"}
          /\ tx'.phase \in {tx.phase, "recovery_required"} /\ tx'.sources = tx.sources
      BY <1>0, <1>8, ClearDoes
    <2>2. ~Closed /\ tx.sources # {} /\ ~Active
      BY <2>1 DEF Firm, DueOf, LatchInv, Durable, Covers
    <2>3. Covers'
      BY <2>1, <2>2 DEF DueOf, Covers, Active, ActivePhases
    <2>4. Durable'
      BY <2>1, <2>2 DEF Firm, Durable, Closed, Judging
    <2>5. plc'[2] = 0 => plc'[1] = 0
      BY <1>0, <2>1, TouchesParts DEF Touches
    <2> QED
      BY <1>1, <1>3, <2>1, <2>3, <2>4, <2>5 DEF Touches, Judging
  <1>9. CASE ClearReads
    <2>1. /\ Less /\ UNCHANGED <<plc, ctl, halting, sync>>
          /\ poll.at = "clearRead" /\ SameLatches /\ poll'.at = "idle"
          /\ tx'.phase \in {tx.phase, "recovery_required"} /\ tx'.sources = tx.sources
      BY <1>0, <1>9, ClearReadsDoes
    <2>2. ~Closed /\ tx.sources # {} /\ ~Active
      BY <2>1 DEF Firm, DueOf, LatchInv, Durable, Covers
    <2>3. Covers'
      BY <2>1, <2>2 DEF DueOf, Covers, Active, ActivePhases
    <2>4. Durable'
      BY <2>1, <2>2 DEF Firm, Durable, Closed, Judging
    <2> QED
      BY <1>2, <1>3, <2>1, <2>3, <2>4 DEF Judging
  <1> QED
    BY <1>4, <1>5, <1>6, <1>7, <1>8, <1>9

LEMMA SyncLatches ==
    ASSUME LatchInv, SyncAcquire \/ SyncStep
    PROVE  Latches'
  <1>0. TypeInv /\ InContract /\ svc \in Svcs
    BY TypeParts DEF LatchInv, HandshakeInv
  <1>1. CASE SyncLatched
    <2>1. /\ Less /\ UNCHANGED <<plc, halting, poll>> /\ sync \in Latching
          /\ svc'.sources = svc.sources \cup {Terminal}
          /\ svc'.confirmed = svc.confirmed \cup {Terminal}
          /\ svc'.origins \in {svc.origins \cup {Terminal}, svc.origins \ {Terminal}}
          /\ svc'.connected = svc.connected /\ svc'.fresh = svc.fresh
          /\ svc.connected => Terminal \in svc'.origins
          /\ sync' = IF svc.connected THEN "write" ELSE "no"
          /\ ctl'.sources = ctl.sources /\ ctl'.estop = ctl.estop
          /\ ctl'.run \in {ctl.run, "idle"} /\ ctl.run = "ending"
          /\ IF Active THEN tx'.phase = tx.phase /\ tx'.sources = tx.sources \cup svc'.sources
             ELSE /\ tx'.phase \in {"terminal_estop", "estop_sync_failed"}
                  /\ tx'.sources = svc'.sources
      BY <1>0, <1>1, SyncLatchedDoes
    <2>0. poll.at \notin Holding /\ ctl.estop /\ Terminal \in ctl.sources
      BY <2>1 DEF LatchInv, Exclusive, Latching
    <2>2. poll.at \notin {"estop", "ensured", "finish", "retry", "reassert", "reassertRead",
                          "clear", "clearRead", "expire", "expireRead"}
      BY <2>0 DEF Holding
    <2>3. InContract'
      BY <1>0, <2>1, ContractKept DEF InContract
    <2>4. Agreed'
      BY <2>0, <2>1, <2>2 DEF LatchInv, Agreed
    <2>5. Covers'
      <3>1. CASE Active
        <4>1. Active' /\ (Trusted' => Trusted)
          BY <2>1, <3>1 DEF Active, Trusted, Latching
        <4>2. poll.at = "off" => ~Active
          BY DEF DueOf, LatchInv, Covers
        <4>3. Trusted' /\ poll.at \in Judging \cup {"idle"} => Terminal \in svc'.origins
          BY <2>1, <2>2, <3>1 DEF DueOf, LatchInv, Covers, Trusted, Judging
        <4>4. Trusted' /\ poll.at \in {"assert", "assertRead"} => FALSE
          BY <2>0 DEF Holding
        <4>5. DueOf(svc') \subseteq tx'.sources
          BY <2>1, <2>4, <3>1 DEF Agreed, DueOf
        <4>6. Trusted' /\ poll.at \in Judging \cup {"idle"} => tx'.phase = "acknowledged"
          BY <2>1, <3>1, <4>1 DEF DueOf, LatchInv, Covers
        <4>7. poll'.at = "held" => svc'.connected
          BY <2>1, <3>1 DEF DueOf, LatchInv, Covers
        <4> QED
          BY <2>1, <2>2, <3>1, <4>2, <4>3, <4>4, <4>5, <4>6, <4>7 DEF Covers
      <3>2. CASE ~Active
        <4>1. ~Active'
          BY <2>1, <3>2 DEF Active, ActivePhases
        <4> QED
          BY <2>1, <2>2, <4>1 DEF DueOf, Covers
      <3> QED
        BY <3>1, <3>2
    <2>6. Durable'
      <3>1. tx'.sources # {}
        BY <2>1
      <3>2. ~Closed'
        BY <2>1 DEF Closed, Active, ActivePhases
      <3>3. poll.at \in Judging /\ poll.seen[3] = 0 => plc[3] = 0
        BY DEF Firm, LatchInv, Durable
      <3> QED
        BY <2>1, <2>2, <3>1, <3>2, <3>3 DEF Firm, Durable
    <2> QED
      BY <2>3, <2>4, <2>5, <2>6 DEF Latches
  <1>3. CASE SyncAcquire
    <2>1. /\ Less /\ UNCHANGED <<plc, tx, halting, poll>> /\ LockFree
          /\ svc'.sources = svc.sources \cup {Terminal}
          /\ svc'.confirmed = svc.confirmed /\ svc'.origins = svc.origins
          /\ svc'.connected = svc.connected /\ svc'.fresh = svc.fresh
          /\ sync' \in Latching
          /\ ctl'.sources = ctl.sources \cup {Terminal} /\ ctl'.estop = TRUE
          /\ ctl'.run = ctl.run /\ ctl.run = "ending"
      BY <1>0, <1>3, SyncAcquireDoes
    <2>2. poll.at \notin {"estop", "ensured", "finish", "retry", "reassert", "reassertRead",
                          "clear", "clearRead", "expire", "expireRead"}
      BY <2>1 DEF LockFree, Holding
    <2>3. Firm' = Firm /\ DueOf(svc') = DueOf(svc)
      BY <2>1 DEF LatchInv, Agreed, Firm, DueOf, PB2, Terminal
    <2>4. InContract'
      BY <1>0, <2>1, ContractKept DEF InContract
    <2>5. Agreed'
      BY <2>1, <2>2 DEF LatchInv, Agreed
    <2>6. Covers'
      <3>1. (Active' <=> Active) /\ (Trusted' => Trusted)
        BY <2>1 DEF Active, Trusted, Latching
      <3> QED
        BY <2>1, <2>2, <2>3, <3>1 DEF LatchInv, Covers
    <2>7. Durable'
      BY <2>1, <2>2, <2>3 DEF LatchInv, Durable, Closed, Latching
    <2> QED
      BY <2>4, <2>5, <2>6, <2>7 DEF Latches
  <1>4. CASE SyncRefused
    <2>1. /\ Less /\ UNCHANGED <<plc, svc, tx, halting, poll>>
          /\ ctl'.sources = ctl.sources /\ ctl'.estop = ctl.estop
          /\ ctl'.run = "idle" /\ sync' = "no"
      BY <1>0, <1>4, SyncRefusedDoes
    <2>2. SameLatches
      BY <1>0, <2>1 DEF SameLatches
    <2> QED
      BY <1>0, <2>1, <2>2, AwayLatches DEF InContract
  <1>2. CASE SyncWrites \/ SyncReads
    <2>1. /\ Less /\ UNCHANGED <<halting, poll>> /\ SyncSteps /\ SameLatches
          /\ svc.connected => svc'.connected
          /\ svc'.fresh = svc.fresh
          /\ plc' \in {plc, [plc EXCEPT ![2] = 1]}
      <3>1. CASE SyncWrites
        BY <1>0, <3>1, SyncWritesDoes DEF Touches, SameLatches
      <3>2. CASE SyncReads
        BY <1>0, <3>2, SyncReadsDoes
      <3> QED
        BY <1>2, <3>1, <3>2
    <2>2. /\ plc'[2] = 0 => plc'[1] = 0
          /\ plc'[3] = plc[3] /\ plc'[2] \in {plc[2], 1}
      BY <1>0, <2>1, TouchesParts
    <2>3. /\ sync \in {"write", "readback"} /\ ctl'.sources = ctl.sources
          /\ ctl'.estop = ctl.estop /\ ctl'.run \in {ctl.run, "idle"}
          /\ tx'.sources = tx.sources /\ tx'.phase \in {tx.phase, "estop_sync_failed"}
          /\ Active => tx'.phase = tx.phase
      BY <2>1 DEF SyncSteps
    <2>4. InContract'
      BY <1>0, <2>1, <2>2, ContractKept
    <2>5. ctl'.estop => ctl'.run # "running" \/ halting' \/ poll.at = "estop"
      BY <2>1, <2>3 DEF LatchInv, Agreed
    <2>6. Agreed'
      BY <2>1, <2>3, <2>5, AwayAgrees
    <2>7. Covers'
      <3>1. Active' => Active
        BY <2>3 DEF Active, ActivePhases
      <3>2. Active' /\ Trusted' => Trusted
        BY <2>1, <2>3 DEF Trusted
      <3> QED
        BY <2>1, <2>3, <3>1, <3>2 DEF DueOf, LatchInv, Covers, SameLatches
    <2>8. Durable'
      BY <2>1, <2>2, <2>3 DEF Firm, LatchInv, Durable, Closed, SameLatches
    <2> QED
      BY <2>4, <2>6, <2>7, <2>8 DEF Latches
  <1> QED
    BY <1>1, <1>2, <1>3, <1>4 DEF SyncStep

LEMMA LatchStep == LatchInv /\ [Next]_vars => LatchInv'
  <1> SUFFICES ASSUME LatchInv, [Next]_vars
               PROVE  LatchInv'
    OBVIOUS
  <1>1. HandshakeInv'
    BY HandshakeStep DEF LatchInv
  <1>3. Exclusive'
    BY ExclusiveStep DEF LatchInv, HandshakeInv
  <1>2. Latches'
    <2>1. CASE Environment
      BY <2>1, ButtonLatches, RunLatches, ProcessLatches DEF Environment
    <2>2. CASE LadderClears
      BY <2>2, ButtonLatches
    <2>3. CASE GuiStopReturns \/ FastStop \/ FastRearm
      BY <2>3, RunLatches
    <2>4. CASE PollStep
      BY <2>4, ObserveLatches, ReadLatches, AckLatches, ReleaseLatches, EndingLatches
         DEF PollStep
    <2>5. CASE SyncAcquire \/ SyncStep
      BY <2>5, SyncLatches
    <2>6. CASE UNCHANGED vars
      BY <2>6 DEF Firm, DueOf, vars, LatchInv, Latches, InContract, Agreed, Asserted,
                  Covers, Active, Trusted, Durable, Closed
    <2> QED
      BY <2>1, <2>2, <2>3, <2>4, <2>5, <2>6 DEF Next
  <1> QED
    BY <1>1, <1>2, <1>3 DEF LatchInv, Latches

\* Samples stay within the register contract.
CleanSamples == \A b \in Budgets : b["garbled"] = 0

LEMMA LatchStart == CleanSamples /\ Init => LatchInv
  <1> SUFFICES ASSUME CleanSamples, Init
               PROVE  LatchInv
    OBVIOUS
  <1>1. HandshakeInv
    BY HandshakeStart
  <1>2. InContract
    BY DEF CleanSamples, Init, InContract, Zero, AtRest, Judging
  <1>3. svc.sources = {} /\ svc.confirmed = {} /\ svc.origins = {}
    BY DEF Init, Started, NoTransaction, RestoredSources, RestoredOrigins
  <1>4. /\ tx.phase = "none" /\ poll.at = "idle" /\ plc[3] = 0 /\ ctl.estop = FALSE
        /\ sync = "no"
    BY DEF Init, NoTransaction, AtRest, Zero, FreshController
  <1>5. Agreed
    BY <1>3, <1>4 DEF Agreed
  <1>6. Covers
    BY <1>4 DEF DueOf, Covers, Active, ActivePhases
  <1>7. Durable
    BY <1>3, <1>4 DEF Firm, Durable, Closed, Judging
  <1>8. Exclusive
    BY <1>4 DEF Exclusive, Latching
  <1> QED
    BY <1>1, <1>2, <1>5, <1>6, <1>7, <1>8 DEF LatchInv

LEMMA LatchAlways == CleanSamples /\ Spec => []LatchInv
  <1> SUFFICES ASSUME CleanSamples
               PROVE  Spec => []LatchInv
    OBVIOUS
  <1>1. Init => LatchInv
    BY LatchStart
  <1> QED
    BY <1>1, LatchStep, PTL DEF Spec

\* As long as no sample leaves the register contract, a source the service takes for
\* latched in the Controller is latched there, but while a released handshake is finished
\* (_controller_latch_confirmed_sources against emergency_resume, emergency_reset, the
\* GUI's stop and recovery, a terminal error and a restart).
THEOREM ConfirmedSourcesAreHeld == CleanSamples /\ Spec => []ConfirmedIsHeld
  <1>1. LatchInv => ConfirmedIsHeld
    BY DEF LatchInv, Agreed, ConfirmedIsHeld
  <1> QED
    BY <1>1, LatchAlways, PTL

\* As long as no sample leaves the register contract, nothing runs while the service holds
\* a confirmed source, but the run a stop under way is about to end (_ensure_estop,
\* emergency_stop).
THEOREM LatchesStopRuns == CleanSamples /\ Spec => []LatchStopsRuns
  <1>1. LatchInv => LatchStopsRuns
    BY DEF LatchInv, Agreed, LatchStopsRuns
  <1> QED
    BY <1>1, LatchAlways, PTL

\* As long as no sample leaves the register contract, a latch survives a restart: the
\* transaction on disk names a source or D101 is still set (_persist_transaction,
\* _restore_persisted_latch).
THEOREM LatchesAreDurable == CleanSamples /\ Spec => []LatchIsDurable
  <1>1. LatchInv => LatchIsDurable
    BY DEF Firm, LatchInv, Durable, Closed, LatchIsDurable, RestoredSources
  <1> QED
    BY <1>1, LatchAlways, PTL
=============================================================================
