------------------------- MODULE ComputePoolProofs -------------------------
(* Safety of the pool for any set of jobs, however they share their events, *)
(* and any number of workers; last, that its threads and locks never wait   *)
(* for each other in a circle, and that a job takes few steps.              *)
EXTENDS ComputePool, FiniteSetTheorems, TLAPS

-----------------------------------------------------------------------------
(* The inductive invariant.                                                 *)

Types ==
    /\ call \in [Jobs -> Calls] /\ job \in [Jobs -> Phases]
    /\ slots \in Nat /\ pending \in Int /\ active \in Int
    /\ registered \subseteq Events
    /\ closer \in Closers /\ cancelling \in Jobs \cup {NoJob}
    /\ queue \in Seq(Jobs) /\ available \subseteq Workers
    /\ worker \in [Jobs -> Workers \cup {NoWorker}]
    /\ got \in [Jobs -> Jobs \cup {NoJob}]
    /\ alive \in [Workers -> BOOLEAN]
    /\ inbox \in [Workers -> Seq(Jobs)] /\ outbox \in [Workers -> Seq(Jobs)]
    /\ signalled \subseteq Events /\ late \subseteq Jobs

\* How far a job can be, given where the call that submits it is.
OnceQueued == Phases \ {"none", "dropped"}
Unhooked == {"queued", "taken", "held", "working", "leaving", "returned", "dropped"}
Coupled == \A j \in Jobs :
    /\ call[j] \in {"idle", "slotted", "locked", "refused"} => job[j] = "none"
    /\ call[j] = "hooking" => job[j] \in Unhooked
    /\ call[j] \in {"waiting", "back"} => job[j] \in OnceQueued

LockedIsOpen == \A j \in Jobs : call[j] = "locked" => closer = "open"

\* A job on a worker borrows it alone.
Borrowing == {"held", "working", "leaving"}
Loans ==
    /\ \A j \in Jobs : job[j] \in Borrowing <=> worker[j] # NoWorker
    /\ \A j \in Jobs : worker[j] \notin available
    /\ \A j, k \in Jobs : worker[j] = worker[k] /\ worker[j] # NoWorker => j = k

\* A process has the message of the job in flight, its answer, or nothing.
Idle(w) == inbox[w] = <<>> /\ outbox[w] = <<>>
Serves(w, j) ==
    /\ job[j] = "working" /\ worker[j] = w
    /\ \/ inbox[w] = <<j>> /\ outbox[w] = <<>>
       \/ inbox[w] = <<>> /\ outbox[w] = <<j>>
Pipes == \A w \in Workers : Idle(w) \/ \E j \in Jobs : Serves(w, j)

\* The sets that the counters count, and that the threads bound.
Submitted == {j \in Holders : call[j] # "slotted"}
Borrowers == {j \in Jobs : job[j] \in Borrowing}
Accounts ==
    /\ IsFiniteSet(Holders)
    /\ slots + Cardinality(Holders) = Slots
    /\ pending = Cardinality(Submitted)
    /\ active = Cardinality(Borrowers)
    /\ Cardinality(available) + Cardinality(Borrowers) = Cardinality(Workers)
ThreadsBounded == Cardinality(OnThread) <= Cardinality(Workers)

-----------------------------------------------------------------------------
(* Types.                                                                   *)

LEMMA SlotsNat == Slots \in Nat
  BY WorkersAssumption, FS_CardinalityType DEF Slots

LEMMA InitTypes == Init => Types
<1> SUFFICES ASSUME Init PROVE Types
  OBVIOUS
<1>1. call \in [Jobs -> Calls] /\ job \in [Jobs -> Phases]
  BY DEF Init, Calls, Phases
<1>2. slots \in Nat /\ closer \in Closers
  BY SlotsNat DEF Init, Closers
<1> QED BY <1>1, <1>2 DEF Init, Types

\* The places a call and a job are put in.
LEMMA CallsAre ==
  /\ "slotted" \in Calls /\ "locked" \in Calls /\ "hooking" \in Calls
  /\ "waiting" \in Calls /\ "back" \in Calls /\ "refused" \in Calls
  BY DEF Calls
LEMMA PhasesAre ==
  /\ "queued" \in Phases /\ "taken" \in Phases /\ "held" \in Phases
  /\ "working" \in Phases /\ "leaving" \in Phases /\ "returned" \in Phases
  /\ "settled" \in Phases /\ "withdrawn" \in Phases /\ "dropped" \in Phases
  /\ "released" \in Phases
  BY DEF Phases

LEMMA EventTypes == ASSUME NEW j \in Jobs PROVE CancelEvent[j] \in Events
  BY JobsAssumption

LEMMA KillTypes ==
  ASSUME Types, NEW ws \in SUBSET Workers, Kill(ws)
  PROVE  /\ alive' \in [Workers -> BOOLEAN]
         /\ inbox' \in [Workers -> Seq(Jobs)] /\ outbox' \in [Workers -> Seq(Jobs)]
  BY DEF Types, Kill

LEMMA SubmissionTypes ==
  ASSUME Types, NEW j \in Jobs, Acquire(j) \/ Submission(j)
  PROVE  Types'
<1> USE CallsAre, PhasesAre DEF Types, book, counts, ending, threads, loans, process, clock,
                                Caller, Job
<1>1. CASE Acquire(j)
  <2>1. slots' \in Nat
    BY <1>1 DEF Acquire
  <2>2. call' \in [Jobs -> Calls]
    BY <1>1 DEF Acquire
  <2> QED BY <1>1, <2>1, <2>2 DEF Acquire
<1>2. CASE Reject(j)
  BY <1>2 DEF Reject
<1>3. CASE Register(j)
  <2>1. registered' \subseteq Events
    BY <1>3, EventTypes DEF Register
  <2> QED BY <1>3, <2>1 DEF Register
<1>4. CASE Enqueue(j)
  <2>1. slots' \in Nat
    BY <1>4 DEF Enqueue
  <2>2. call' \in [Jobs -> Calls]
    BY <1>4 DEF Enqueue
  <2>3. job' \in [Jobs -> Phases]
    BY <1>4 DEF Enqueue
  <2>4. queue' \in Seq(Jobs)
    <3>1. queue' = queue \/ queue' = Append(queue, j)
      BY <1>4 DEF Enqueue
    <3>2. Append(queue, j) \in Seq(Jobs)
      BY DEF Types
    <3> QED BY <3>1, <3>2
  <2> QED BY <1>4, <2>1, <2>2, <2>3, <2>4 DEF Enqueue
<1>5. CASE Hook(j)
  <2>1. call' \in [Jobs -> Calls] /\ job' \in [Jobs -> Phases]
    BY <1>5 DEF Hook, GiveBack
  <2>2. slots' \in Nat /\ pending' \in Int /\ active' \in Int
    BY <1>5 DEF Hook, GiveBack
  <2>3. registered' \subseteq Events
    BY <1>5 DEF Hook, GiveBack
  <2> QED BY <1>5, <2>1, <2>2, <2>3 DEF Hook
<1>6. CASE GetResult(j)
  BY <1>6 DEF GetResult
<1> QED BY <1>1, <1>2, <1>3, <1>4, <1>5, <1>6 DEF Submission

LEMMA CancellationTypes ==
  ASSUME Types, NEW j \in Jobs, CancelAsync(j) \/ Signal(j) \/ Expire(j)
  PROVE  Types'
<1> USE CallsAre, PhasesAre, JobsAssumption
    DEF Types, book, counts, ending, threads, loans, process, clock, Caller, Job
<1>1. CASE CancelAsync(j)
  <2>1. job' \in [Jobs -> Phases]
    BY <1>1 DEF CancelAsync
  <2> QED BY <1>1, <2>1 DEF CancelAsync
<1>2. CASE Signal(j)
  BY <1>2 DEF Signal
<1>3. CASE Expire(j)
  BY <1>3 DEF Expire
<1> QED BY <1>1, <1>2, <1>3

LEMMA ExecutionTypes ==
  ASSUME Types, Loans, NEW j \in Jobs, Execution(j)
  PROVE  Types'
<1> USE PhasesAre DEF Types, book, counts, ending, threads, loans, process, clock, Job
<1>0. job[j] \in Borrowing => worker[j] \in Workers
  BY DEF Loans
<1>1. CASE Fetch(j)
  BY <1>1 DEF Fetch
<1>2. CASE GiveUp(j)
  BY <1>2 DEF GiveUp
<1>3. CASE Exchange(j)
  <2>1. inbox' \in [Workers -> Seq(Jobs)] /\ outbox' \in [Workers -> Seq(Jobs)]
    BY <1>0, <1>3 DEF Exchange, Borrowing
  <2> QED BY <1>3, <2>1 DEF Exchange
<1>4. CASE Read(j)
  <2>1. worker[j] \in Workers
    BY <1>0, <1>4 DEF Read, Borrowing
  <2>2. Head(outbox[worker[j]]) \in Jobs /\ Tail(outbox[worker[j]]) \in Seq(Jobs)
    BY <1>4, <2>1 DEF Read
  <2> QED BY <1>4, <2>1, <2>2 DEF Read
<1>5. CASE Abort(j)
  <2>1. {worker[j]} \in SUBSET Workers
    BY <1>0, <1>5 DEF Abort, Broken, Borrowing
  <2> QED BY <1>5, <2>1, KillTypes DEF Abort
<1>6. CASE Leave(j)
  BY <1>0, <1>6 DEF Leave, Borrowing
<1>7. CASE Settle(j)
  BY <1>7 DEF Settle
<1>8. CASE Release(j)
  BY <1>8 DEF Release, GiveBack
<1> QED BY <1>1, <1>2, <1>3, <1>4, <1>5, <1>6, <1>7, <1>8 DEF Execution

LEMMA PoolTypes ==
  ASSUME Types, Take \/ Closing \/ Close \/ \E w \in Workers : Answer(w) \/ Die(w)
  PROVE  Types'
<1> USE PhasesAre DEF Types, book, counts, ending, threads, loans, process, clock, Job
<1>1. CASE Take
  <2>1. Head(queue) \in Jobs /\ Tail(queue) \in Seq(Jobs)
    BY <1>1 DEF Take
  <2>2. job' \in [Jobs -> Phases]
    BY <1>1, <2>1 DEF Take
  <2> QED BY <1>1, <2>1, <2>2 DEF Take
<1>2. CASE Close
  BY <1>2 DEF Close, Closers
<1>3. CASE Shutdown \/ Drained
  BY <1>3 DEF Shutdown, Drained, Closers
<1>4. CASE Drain
  <2>1. Head(queue) \in Jobs /\ Tail(queue) \in Seq(Jobs)
    BY <1>4 DEF Drain
  <2>2. job' \in [Jobs -> Phases] /\ cancelling' \in Jobs \cup {NoJob}
    BY <1>4, <2>1 DEF Drain
  <2> QED BY <1>4, <2>1, <2>2 DEF Drain
<1>5. CASE Join
  BY <1>5, KillTypes DEF Join, Closers
<1>6. ASSUME NEW w \in Workers, Answer(w) PROVE Types'
  <2>1. Head(inbox[w]) \in Jobs /\ Tail(inbox[w]) \in Seq(Jobs)
    BY <1>6 DEF Answer
  <2>2. Append(outbox[w], Head(inbox[w])) \in Seq(Jobs)
    BY <2>1
  <2> QED BY <1>6, <2>1, <2>2 DEF Answer
<1>7. ASSUME NEW w \in Workers, Die(w) PROVE Types'
  BY <1>7 DEF Die
<1> QED BY <1>1, <1>2, <1>3, <1>4, <1>5, <1>6, <1>7 DEF Closing

-----------------------------------------------------------------------------
(* Calls, jobs and the lock.                                                *)

LEMMA SubmissionCoupled ==
  ASSUME Types, Coupled, LockedIsOpen, NEW j \in Jobs,
         Acquire(j) \/ Submission(j) \/ CancelAsync(j) \/ Signal(j) \/ Expire(j)
  PROVE  Coupled' /\ LockedIsOpen'
<1> USE DEF Types, ending, Caller, Job
<1>1. CASE Acquire(j) \/ Reject(j)
  BY <1>1 DEF Acquire, Reject, Coupled, LockedIsOpen
<1>2. CASE Register(j)
  BY <1>2 DEF Register, Coupled, LockedIsOpen
<1>3. CASE Enqueue(j)
  BY <1>3 DEF Enqueue, Shut, Coupled, Unhooked, LockedIsOpen
<1>4. CASE Hook(j)
  BY <1>4 DEF Hook, GiveBack, Coupled, Unhooked, OnceQueued, Phases, LockedIsOpen
<1>5. CASE GetResult(j)
  BY <1>5 DEF GetResult, Coupled, LockedIsOpen
<1>6. CASE CancelAsync(j)
  BY <1>6 DEF CancelAsync, Coupled, OnceQueued, Phases, LockedIsOpen
<1>7. CASE Signal(j) \/ Expire(j)
  BY <1>7 DEF Signal, Expire, Coupled, LockedIsOpen
<1> QED BY <1>1, <1>2, <1>3, <1>4, <1>5, <1>6, <1>7 DEF Submission

LEMMA ExecutionCoupled ==
  ASSUME Types, Coupled, LockedIsOpen, NEW j \in Jobs, Execution(j)
  PROVE  Coupled' /\ LockedIsOpen'
<1>1. call' = call /\ closer' = closer
  BY DEF Execution, Fetch, GiveUp, Exchange, Read, Abort, Leave, Settle, Release, ending
<1>2. \A k \in Jobs \ {j} : job'[k] = job[k]
  BY DEF Execution, Fetch, GiveUp, Exchange, Read, Abort, Leave, Settle, Release, GiveBack,
         Job, Types
<1>3. /\ call[j] \notin {"idle", "slotted", "locked", "refused"}
      /\ call[j] = "hooking" => job'[j] \in Unhooked
      /\ call[j] \in {"waiting", "back"} => job'[j] \in OnceQueued
  <2> USE DEF Types, Job, Coupled, Unhooked, OnceQueued, Phases
  <2>1. CASE Fetch(j) \/ GiveUp(j)
    BY <2>1 DEF Fetch, GiveUp
  <2>2. CASE Exchange(j) \/ Read(j)
    BY <2>2 DEF Exchange, Read
  <2>3. CASE Abort(j) \/ Leave(j)
    BY <2>3 DEF Abort, Broken, Leave
  <2>4. CASE Settle(j)
    BY <2>4 DEF Settle
  <2>5. CASE Release(j)
    BY <2>5 DEF Release, GiveBack
  <2> QED BY <2>1, <2>2, <2>3, <2>4, <2>5 DEF Execution
<1> QED BY <1>1, <1>2, <1>3 DEF Coupled, LockedIsOpen

LEMMA PoolCoupled ==
  ASSUME Types, Coupled, LockedIsOpen,
         Take \/ Closing \/ Close \/ \E w \in Workers : Answer(w) \/ Die(w)
  PROVE  Coupled' /\ LockedIsOpen'
<1> USE DEF Types, ending, Job
<1>1. CASE Take
  BY <1>1 DEF Take, Coupled, Unhooked, OnceQueued, Phases, LockedIsOpen
<1>2. CASE Drain
  BY <1>2 DEF Drain, Coupled, Unhooked, OnceQueued, Phases, LockedIsOpen
<1>3. CASE Close
  BY <1>3 DEF Close, Free, Coupled, LockedIsOpen
<1>4. CASE Shutdown \/ Drained \/ Join
  BY <1>4 DEF Shutdown, Drained, Join, Coupled, LockedIsOpen
<1>5. CASE \E w \in Workers : Answer(w) \/ Die(w)
  BY <1>5 DEF Answer, Die, Coupled, LockedIsOpen
<1> QED BY <1>1, <1>2, <1>3, <1>4, <1>5 DEF Closing

-----------------------------------------------------------------------------
(* Workers, their processes and the answers.                                *)

Answers == Loans /\ Pipes /\ OwnAnswer

LEMMA AnswersFrame ==
  ASSUME Answers, UNCHANGED <<loans, inbox, outbox, got>>,
         \A k \in Jobs : /\ job'[k] \in Borrowing <=> job[k] \in Borrowing
                         /\ job[k] = "working" => job'[k] = "working"
  PROVE  Answers'
<1>1. Loans'
  BY DEF Answers, Loans, loans
<1>2. Pipes'
  BY DEF Answers, Pipes, Idle, Serves, loans
<1>3. OwnAnswer'
  BY DEF Answers, OwnAnswer
<1> QED BY <1>1, <1>2, <1>3 DEF Answers

LEMMA SubmissionAnswers ==
  ASSUME Types, Coupled, Answers, NEW j \in Jobs,
         Acquire(j) \/ Submission(j) \/ CancelAsync(j) \/ Signal(j) \/ Expire(j)
  PROVE  Answers'
<1> USE DEF Types, threads, process, loans, Job, Coupled, Borrowing
<1>1. UNCHANGED <<loans, inbox, outbox, got>>
  BY DEF Acquire, Submission, Reject, Register, Enqueue, Hook, GetResult, CancelAsync,
         Signal, Expire
<1>2. \A k \in Jobs : /\ job'[k] \in Borrowing <=> job[k] \in Borrowing
                      /\ job[k] = "working" => job'[k] = "working"
  <2>1. CASE Acquire(j) \/ Reject(j) \/ Register(j) \/ GetResult(j) \/ Signal(j) \/ Expire(j)
    BY <2>1 DEF Acquire, Reject, Register, GetResult, Signal, Expire
  <2>2. CASE Enqueue(j)
    BY <2>2 DEF Enqueue
  <2>3. CASE Hook(j)
    BY <2>3 DEF Hook, GiveBack
  <2>4. CASE CancelAsync(j)
    BY <2>4 DEF CancelAsync
  <2> QED BY <2>1, <2>2, <2>3, <2>4 DEF Submission
<1> QED BY <1>1, <1>2, AnswersFrame

LEMMA FetchAnswers ==
  ASSUME Types, Answers, NEW j \in Jobs, Fetch(j)
  PROVE  Answers'
<1> PICK w \in available : /\ worker' = [worker EXCEPT ![j] = w]
                           /\ available' = available \ {w}
  BY DEF Fetch
<1>1. worker[j] = NoWorker /\ w \in Workers /\ w # NoWorker
  BY WorkersAssumption DEF Fetch, Types, Answers, Loans, Borrowing
<1>2. Loans'
  BY <1>1 DEF Fetch, Types, Answers, Loans, Borrowing, Job
<1>3. Pipes'
  BY <1>1 DEF Fetch, Types, Answers, Pipes, Idle, Serves, process, Job
<1>4. OwnAnswer'
  BY DEF Fetch, Answers, OwnAnswer
<1> QED BY <1>2, <1>3, <1>4 DEF Answers

\* The worker of a job that is not working has empty pipes; that of a working job
\* has nothing but what the job sent and gets back.
LEMMA OwnPipe ==
  ASSUME Types, Answers, NEW j \in Jobs, job[j] \in Borrowing
  PROVE  /\ worker[j] \in Workers
         /\ \A k \in Jobs \ {j} : worker[k] # worker[j]
         /\ Idle(worker[j]) \/ Serves(worker[j], j)
         /\ job[j] # "working" => Idle(worker[j])
  BY DEF Types, Answers, Loans, Pipes, Serves

LEMMA ExchangeAnswers ==
  ASSUME Types, Answers, NEW j \in Jobs, Exchange(j)
  PROVE  Answers'
<1> PICK w \in Workers : w = worker[j]
  BY OwnPipe DEF Exchange, Borrowing
<1>1. Idle(w) /\ \A k \in Jobs \ {j} : worker[k] # w
  BY OwnPipe DEF Exchange, Borrowing
<1>2. Loans'
  BY DEF Exchange, Types, Answers, Loans, Borrowing, threads, loans, Job
<1>3. Pipes'
  <2>1. inbox'[w] = <<j>> /\ outbox'[w] = <<>>
    BY <1>1 DEF Exchange, Types, Idle
  <2>2. Serves(w, j)'
    BY <2>1 DEF Exchange, Types, Serves, threads, loans, Job
  <2>3. ASSUME NEW v \in Workers \ {w} PROVE (Idle(v) \/ \E k \in Jobs : Serves(v, k))'
    BY <1>1, <2>3 DEF Exchange, Types, Answers, Pipes, Idle, Serves, threads, loans, Job
  <2> QED BY <2>2, <2>3 DEF Pipes
<1>4. OwnAnswer'
  BY DEF Exchange, threads, Answers, OwnAnswer
<1> QED BY <1>2, <1>3, <1>4 DEF Answers

LEMMA ReadAnswers ==
  ASSUME Types, Answers, NEW j \in Jobs, Read(j)
  PROVE  Answers'
<1> PICK w \in Workers : w = worker[j]
  BY OwnPipe DEF Read, Borrowing
<1>1. /\ \A k \in Jobs \ {j} : worker[k] # w
      /\ inbox[w] = <<>> /\ outbox[w] = <<j>>
  BY OwnPipe DEF Read, Borrowing, Idle, Serves
<1>2. Loans'
  BY DEF Read, Types, Answers, Loans, Borrowing, loans, Job
<1>3. Pipes'
  <2>1. Idle(w)'
    BY <1>1 DEF Read, Types, Idle
  <2>2. ASSUME NEW v \in Workers \ {w} PROVE (Idle(v) \/ \E k \in Jobs : Serves(v, k))'
    BY <1>1, <2>2 DEF Read, Types, Answers, Pipes, Idle, Serves, loans, Job
  <2> QED BY <2>1, <2>2 DEF Pipes, Idle, Serves
<1>4. OwnAnswer'
  BY <1>1 DEF Read, Types, Answers, OwnAnswer
<1> QED BY <1>2, <1>3, <1>4 DEF Answers

LEMMA AbortAnswers ==
  ASSUME Types, Answers, NEW j \in Jobs, Abort(j)
  PROVE  Answers'
<1> PICK w \in Workers : w = worker[j]
  BY OwnPipe DEF Abort, Broken, Borrowing
<1>1. \A k \in Jobs \ {j} : worker[k] # w
  BY OwnPipe DEF Abort, Broken, Borrowing
<1>2. Loans'
  BY DEF Abort, Broken, Types, Answers, Loans, Borrowing, threads, loans, Job
<1>3. Pipes'
  <2>1. Idle(w)'
    BY <1>1 DEF Abort, Kill, Idle
  <2>2. ASSUME NEW v \in Workers \ {w} PROVE (Idle(v) \/ \E k \in Jobs : Serves(v, k))'
    BY <1>1, <2>2 DEF Abort, Kill, Types, Answers, Pipes, Idle, Serves, threads, loans, Job
  <2> QED BY <2>1, <2>2 DEF Pipes, Idle, Serves
<1>4. OwnAnswer'
  BY DEF Abort, threads, Answers, OwnAnswer
<1> QED BY <1>2, <1>3, <1>4 DEF Answers

LEMMA LeaveAnswers ==
  ASSUME Types, Answers, NEW j \in Jobs, Leave(j)
  PROVE  Answers'
<1>1. /\ worker[j] \in Workers /\ Idle(worker[j])
      /\ \A k \in Jobs \ {j} : worker[k] # worker[j]
  BY OwnPipe DEF Leave, Borrowing
<1>2. Loans'
  BY <1>1, WorkersAssumption DEF Leave, Types, Answers, Loans, Borrowing, Job
<1>3. Pipes'
  BY <1>1 DEF Leave, Types, Answers, Pipes, Idle, Serves, process, Job
<1>4. OwnAnswer'
  BY DEF Leave, Answers, OwnAnswer
<1> QED BY <1>2, <1>3, <1>4 DEF Answers

LEMMA ExecutionAnswers ==
  ASSUME Types, Answers, NEW j \in Jobs, Execution(j)
  PROVE  Answers'
<1>1. CASE GiveUp(j) \/ Settle(j) \/ Release(j)
  <2>1. UNCHANGED <<loans, inbox, outbox, got>>
    BY <1>1 DEF GiveUp, Settle, Release, threads, process
  <2>2. \A k \in Jobs : /\ job'[k] \in Borrowing <=> job[k] \in Borrowing
                        /\ job[k] = "working" => job'[k] = "working"
    <3> USE DEF Types, Job, Borrowing
    <3>1. CASE GiveUp(j)
      BY <3>1 DEF GiveUp
    <3>2. CASE Settle(j)
      BY <3>2 DEF Settle
    <3>3. CASE Release(j)
      BY <3>3 DEF Release, GiveBack
    <3> QED BY <1>1, <3>1, <3>2, <3>3
  <2> QED BY <2>1, <2>2, AnswersFrame
<1> QED BY <1>1, FetchAnswers, ExchangeAnswers, ReadAnswers, AbortAnswers, LeaveAnswers
       DEF Execution

LEMMA PoolAnswers ==
  ASSUME Types, Answers, Take \/ Closing \/ Close \/ \E w \in Workers : Answer(w) \/ Die(w)
  PROVE  Answers'
<1>1. CASE Take \/ Drain \/ Close \/ Shutdown \/ Drained
  <2>1. UNCHANGED <<loans, inbox, outbox, got>>
    BY <1>1 DEF Take, Drain, Close, Shutdown, Drained, threads, process
  <2>2. \A k \in Jobs : /\ job'[k] \in Borrowing <=> job[k] \in Borrowing
                        /\ job[k] = "working" => job'[k] = "working"
    <3>1. CASE Take
      BY <3>1 DEF Take, Types, Job, Borrowing
    <3>2. CASE Drain
      <4>1. \/ job' = job
            \/ \E j \in Jobs, phase \in {"dropped", "withdrawn"} :
                   job[j] = "queued" /\ job' = [job EXCEPT ![j] = phase]
        <5>1. Head(queue) \in Jobs
          BY <3>2 DEF Drain, Types
        <5> QED BY <3>2, <5>1 DEF Drain, Job
      <4> QED BY <4>1 DEF Types, Borrowing
    <3>3. CASE Close \/ Shutdown \/ Drained
      BY <3>3 DEF Close, Shutdown, Drained
    <3> QED BY <1>1, <3>1, <3>2, <3>3
  <2> QED BY <2>1, <2>2, AnswersFrame
<1>2. CASE Join
  <2>1. UNCHANGED <<loans, got, job>> /\ \A w \in Workers : Idle(w)'
    BY <1>2 DEF Join, Kill, threads, Idle
  <2> QED BY <2>1 DEF Answers, Loans, Pipes, OwnAnswer, loans
<1>3. ASSUME NEW w \in Workers, Answer(w) \/ Die(w) PROVE Answers'
  <2>1. UNCHANGED <<loans, got, job>>
    BY <1>3 DEF Answer, Die, threads
  <2>2. \A v \in Workers \ {w} : inbox'[v] = inbox[v] /\ outbox'[v] = outbox[v]
    BY <1>3 DEF Answer, Die, Types
  <2>3. \/ inbox'[w] = inbox[w] /\ outbox'[w] = outbox[w]
        \/ inbox'[w] = <<>> /\ outbox'[w] = outbox[w]
        \/ \E j \in Jobs : /\ Serves(w, j)
                           /\ inbox'[w] = <<>> /\ outbox'[w] = <<j>>
    <3>1. CASE Answer(w)
      <4>1. PICK j \in Jobs : Serves(w, j) /\ inbox[w] = <<j>> /\ outbox[w] = <<>>
        BY <3>1 DEF Answer, Answers, Pipes, Idle, Serves
      <4>2. inbox'[w] = Tail(<<j>>) /\ outbox'[w] = Append(<<>>, Head(<<j>>))
        BY <3>1, <4>1 DEF Answer, Types
      <4> QED BY <4>1, <4>2
    <3>2. CASE Die(w)
      BY <3>2 DEF Die, Types
    <3> QED BY <1>3, <3>1, <3>2
  <2>4. Pipes'
    BY <2>1, <2>2, <2>3 DEF Answers, Pipes, Idle, Serves, loans
  <2> QED BY <2>1, <2>4 DEF Answers, Loans, OwnAnswer, loans
<1> QED BY <1>1, <1>2, <1>3 DEF Closing

-----------------------------------------------------------------------------
(* The accounts.                                                            *)

LEMMA Subsets ==
  ASSUME Types, Coupled, IsFiniteSet(Holders)
  PROVE  /\ Submitted \in SUBSET Holders /\ IsFiniteSet(Submitted)
         /\ OnThread \in SUBSET Submitted /\ IsFiniteSet(OnThread)
         /\ Borrowers \in SUBSET OnThread /\ IsFiniteSet(Borrowers)
<1>1. Submitted \in SUBSET Holders /\ IsFiniteSet(Submitted)
  BY FS_Subset DEF Submitted
<1>2. OnThread \in SUBSET Submitted
  BY DEF Types, Coupled, OnThread, Submitted, Holders
<1>3. IsFiniteSet(OnThread)
  BY <1>1, <1>2, FS_Subset
<1>4. Borrowers \in SUBSET OnThread
  BY DEF Borrowers, Borrowing, OnThread
<1> QED BY <1>1, <1>2, <1>3, <1>4, FS_Subset

LEMMA AvailableFinite == ASSUME Types PROVE IsFiniteSet(available)
  BY WorkersAssumption, FS_Subset DEF Types

LEMMA AccountsFrame ==
  ASSUME Accounts, UNCHANGED <<slots, pending, active, available>>,
         Holders' = Holders, Submitted' = Submitted, Borrowers' = Borrowers
  PROVE  Accounts'
  BY DEF Accounts

\* A job whose callback runs leaves the accounts.
LEMMA GivenBack ==
  ASSUME Types, Coupled, Accounts, NEW j \in Jobs, j \in Submitted,
         slots' = slots + 1, pending' = pending - 1, UNCHANGED <<active, available>>,
         Holders' = Holders \ {j}, Submitted' = Submitted \ {j}, Borrowers' = Borrowers
  PROVE  Accounts'
<1>1. j \in Holders
  BY DEF Submitted
<1>2. /\ IsFiniteSet(Holders) /\ Cardinality(Holders) \in Nat
      /\ IsFiniteSet(Submitted) /\ Cardinality(Submitted) \in Nat
  BY Subsets, FS_CardinalityType DEF Accounts
<1>3. IsFiniteSet(Holders') /\ Cardinality(Holders') = Cardinality(Holders) - 1
  BY <1>1, <1>2, FS_RemoveElement
<1>4. Cardinality(Submitted') = Cardinality(Submitted) - 1
  BY <1>2, FS_RemoveElement
<1> QED BY <1>2, <1>3, <1>4, SlotsNat DEF Accounts, Types

LEMMA SubmissionAccounts ==
  ASSUME Types, Coupled, LockedIsOpen, Accounts, NEW j \in Jobs,
         Acquire(j) \/ Submission(j) \/ CancelAsync(j) \/ Signal(j) \/ Expire(j)
  PROVE  Accounts'
<1> USE DEF Types, Coupled, counts, book, threads, loans, Caller, Job,
            Holders, Submitted, Borrowers, Borrowing
<1>1. CASE Acquire(j)
  <2>1. job' = job /\ UNCHANGED <<pending, active, available>>
    BY <1>1 DEF Acquire
  <2>2. Submitted' = Submitted /\ Borrowers' = Borrowers
    BY <1>1, <2>1 DEF Acquire
  <2>3. CASE slots = 0
    <3>1. Holders' = Holders /\ slots' = slots
      BY <1>1, <2>1, <2>3 DEF Acquire
    <3> QED BY <2>1, <2>2, <3>1, AccountsFrame
  <2>4. CASE slots > 0
    <3>1. j \notin Holders /\ Holders' = Holders \cup {j} /\ slots' = slots - 1
      BY <1>1, <2>1, <2>4 DEF Acquire
    <3> HIDE DEF Holders, Submitted, Borrowers
    <3>2. Cardinality(Holders) \in Nat
      BY FS_CardinalityType DEF Accounts
    <3>3. IsFiniteSet(Holders') /\ Cardinality(Holders') = Cardinality(Holders) + 1
      BY <3>1, FS_AddElement DEF Accounts
    <3> QED BY <2>1, <2>2, <3>1, <3>2, <3>3, SlotsNat DEF Accounts
  <2> QED BY <2>3, <2>4
<1>2. CASE Reject(j)
  <2>1. job' = job /\ UNCHANGED <<pending, active, available>> /\ slots' = slots + 1
    BY <1>2 DEF Reject
  <2>2. Submitted' = Submitted /\ Borrowers' = Borrowers
    BY <1>2, <2>1 DEF Reject
  <2>3. j \in Holders /\ Holders' = Holders \ {j}
    BY <1>2, <2>1 DEF Reject
  <2> HIDE DEF Holders, Submitted, Borrowers
  <2>4. Cardinality(Holders) \in Nat
    BY FS_CardinalityType DEF Accounts
  <2>5. IsFiniteSet(Holders') /\ Cardinality(Holders') = Cardinality(Holders) - 1
    BY <2>3, FS_RemoveElement DEF Accounts
  <2> QED BY <2>1, <2>2, <2>4, <2>5, SlotsNat DEF Accounts
<1>3. CASE Register(j)
  <2>1. job' = job /\ UNCHANGED <<slots, active, available>> /\ pending' = pending + 1
    BY <1>3 DEF Register
  <2>2. Holders' = Holders /\ Borrowers' = Borrowers
    BY <1>3, <2>1 DEF Register
  <2>3. j \notin Submitted /\ Submitted' = Submitted \cup {j}
    BY <1>3, <2>1 DEF Register
  <2>4. IsFiniteSet(Submitted)
    BY Subsets DEF Accounts
  <2>5. Cardinality(Submitted') = Cardinality(Submitted) + 1
    BY <2>3, <2>4, FS_AddElement
  <2> HIDE DEF Holders, Submitted, Borrowers
  <2> QED BY <2>1, <2>2, <2>5 DEF Accounts
<1>4. CASE Enqueue(j)
  <2>1. /\ call' = [call EXCEPT ![j] = "hooking"] /\ job' = [job EXCEPT ![j] = "queued"]
        /\ UNCHANGED <<slots, pending, active, available>>
    BY <1>4 DEF Enqueue, Shut, LockedIsOpen
  <2>2. Holders' = Holders /\ Submitted' = Submitted /\ Borrowers' = Borrowers
    BY <1>4, <2>1 DEF Enqueue
  <2> QED BY <2>1, <2>2, AccountsFrame
<1>5. CASE Hook(j)
  <2>1. CASE job[j] = "dropped"
    <3>1. j \in Submitted
      BY <1>5, <2>1 DEF Hook
    <3>2. /\ Holders' = Holders \ {j} /\ Submitted' = Submitted \ {j}
          /\ Borrowers' = Borrowers
      BY <1>5, <2>1 DEF Hook, GiveBack
    <3>3. slots' = slots + 1 /\ pending' = pending - 1 /\ UNCHANGED <<active, available>>
      BY <1>5, <2>1 DEF Hook, GiveBack
    <3> QED BY <3>1, <3>2, <3>3, GivenBack
  <2>2. CASE job[j] # "dropped"
    <3>1. /\ call' = [call EXCEPT ![j] = "waiting"] /\ job' = job
          /\ UNCHANGED <<slots, pending, active, available>>
      BY <1>5, <2>2 DEF Hook
    <3>2. Holders' = Holders /\ Submitted' = Submitted /\ Borrowers' = Borrowers
      BY <1>5, <2>2, <3>1 DEF Hook, Unhooked
    <3> QED BY <3>1, <3>2, AccountsFrame
  <2> QED BY <2>1, <2>2
<1>6. CASE GetResult(j)
  <2>1. Holders' = Holders /\ Submitted' = Submitted /\ Borrowers' = Borrowers
    BY <1>6 DEF GetResult
  <2> QED BY <1>6, <2>1, AccountsFrame DEF GetResult
<1>7. CASE CancelAsync(j)
  <2>1. Holders' = Holders /\ Submitted' = Submitted /\ Borrowers' = Borrowers
    BY <1>7 DEF CancelAsync
  <2> QED BY <1>7, <2>1, AccountsFrame DEF CancelAsync
<1>8. CASE Signal(j) \/ Expire(j)
  <2>1. Holders' = Holders /\ Submitted' = Submitted /\ Borrowers' = Borrowers
    BY <1>8 DEF Signal, Expire
  <2> QED BY <1>8, <2>1, AccountsFrame DEF Signal, Expire
<1> QED BY <1>1, <1>2, <1>3, <1>4, <1>5, <1>6, <1>7, <1>8 DEF Submission

LEMMA ExecutionAccounts ==
  ASSUME Types, Coupled, Loans, Accounts, NEW j \in Jobs, Execution(j)
  PROVE  Accounts'
<1>0. /\ call[j] \notin {"idle", "slotted", "locked", "refused"} /\ call' = call
      /\ j \in Submitted
  BY DEF Execution, Fetch, GiveUp, Exchange, Read, Abort, Broken, Leave, Settle, Release,
         Coupled, Types, Submitted, Holders, Calls
<1>1. CASE GiveUp(j) \/ Exchange(j) \/ Read(j) \/ Abort(j)
  <2>1. \E phase \in {"working", "leaving"} : job' = [job EXCEPT ![j] = phase]
    BY <1>1 DEF GiveUp, Exchange, Read, Abort, Job
  <2>2. job[j] \in {"held", "working"} /\ UNCHANGED <<slots, pending, active, available>>
    BY <1>1 DEF GiveUp, Exchange, Read, Abort, Broken, book, counts, threads, loans
  <2>3. Holders' = Holders /\ Submitted' = Submitted /\ Borrowers' = Borrowers
    BY <1>0, <2>1, <2>2 DEF Types, Holders, Submitted, Borrowers, Borrowing
  <2> QED BY <2>2, <2>3, AccountsFrame
<1>2. CASE Fetch(j)
  <2>1. PICK w \in available : available' = available \ {w}
    BY <1>2 DEF Fetch
  <2>2. /\ job[j] = "taken" /\ job' = [job EXCEPT ![j] = "held"]
        /\ UNCHANGED <<slots, pending>> /\ active' = active + 1
    BY <1>2 DEF Fetch, Job
  <2>3. Holders' = Holders /\ Submitted' = Submitted
    BY <1>0, <2>2 DEF Types, Holders, Submitted
  <2>4. j \notin Borrowers /\ Borrowers' = Borrowers \cup {j}
    BY <2>2 DEF Types, Borrowers, Borrowing
  <2>5. IsFiniteSet(Borrowers) /\ Cardinality(Borrowers) \in Nat
    BY Subsets, FS_CardinalityType DEF Accounts
  <2>6. Cardinality(Borrowers') = Cardinality(Borrowers) + 1
    BY <2>4, <2>5, FS_AddElement
  <2>7. IsFiniteSet(available) /\ Cardinality(available) \in Nat
    BY AvailableFinite, FS_CardinalityType
  <2>8. Cardinality(available') = Cardinality(available) - 1
    BY <2>1, <2>7, FS_RemoveElement
  <2> QED BY <2>2, <2>3, <2>5, <2>6, <2>7, <2>8 DEF Accounts
<1>3. CASE Leave(j)
  <2>1. worker[j] \notin available /\ available' = available \cup {worker[j]}
    BY <1>3 DEF Leave, Loans
  <2>2. /\ job[j] = "leaving" /\ job' = [job EXCEPT ![j] = "returned"]
        /\ UNCHANGED <<slots, pending>> /\ active' = active - 1
    BY <1>3 DEF Leave, Job
  <2>3. Holders' = Holders /\ Submitted' = Submitted
    BY <1>0, <2>2 DEF Types, Holders, Submitted
  <2>4. j \in Borrowers /\ Borrowers' = Borrowers \ {j}
    BY <2>2 DEF Types, Borrowers, Borrowing
  <2>5. IsFiniteSet(Borrowers) /\ Cardinality(Borrowers) \in Nat
    BY Subsets, FS_CardinalityType DEF Accounts
  <2>6. Cardinality(Borrowers') = Cardinality(Borrowers) - 1
    BY <2>4, <2>5, FS_RemoveElement
  <2>7. IsFiniteSet(available) /\ Cardinality(available) \in Nat
    BY AvailableFinite, FS_CardinalityType
  <2>8. Cardinality(available') = Cardinality(available) + 1
    BY <2>1, <2>7, FS_AddElement
  <2> QED BY <2>2, <2>3, <2>5, <2>6, <2>7, <2>8 DEF Accounts
<1>4. CASE Settle(j)
  <2>1. job[j] = "returned" /\ UNCHANGED <<slots, pending, active, available>>
    BY <1>4 DEF Settle, book, counts, threads, loans
  <2>2. \/ job' = [job EXCEPT ![j] = "dropped"] /\ call[j] = "hooking"
        \/ job' = [job EXCEPT ![j] = "settled"]
    BY <1>4 DEF Settle, Job
  <2>3. Holders' = Holders /\ Submitted' = Submitted /\ Borrowers' = Borrowers
    BY <1>0, <2>1, <2>2 DEF Types, Holders, Submitted, Borrowers, Borrowing
  <2> QED BY <2>1, <2>3, AccountsFrame
<1>5. CASE Release(j)
  <2>1. /\ job[j] \in {"settled", "withdrawn"} /\ job' = [job EXCEPT ![j] = "released"]
        /\ slots' = slots + 1 /\ pending' = pending - 1 /\ UNCHANGED <<active, available>>
    BY <1>5 DEF Release, GiveBack, Job, threads, loans
  <2>2. call[j] # "hooking"
    BY <2>1 DEF Coupled, Unhooked
  <2>3. /\ Holders' = Holders \ {j} /\ Submitted' = Submitted \ {j}
        /\ Borrowers' = Borrowers
    BY <1>0, <2>1, <2>2 DEF Types, Holders, Submitted, Borrowers, Borrowing
  <2> QED BY <1>0, <2>1, <2>3, GivenBack
<1> QED BY <1>1, <1>2, <1>3, <1>4, <1>5 DEF Execution

LEMMA PoolAccounts ==
  ASSUME Types, Coupled, Accounts,
         Take \/ Closing \/ Close \/ \E w \in Workers : Answer(w) \/ Die(w)
  PROVE  Accounts'
<1>1. call' = call /\ UNCHANGED <<slots, pending, active, available>>
  BY DEF Take, Closing, Shutdown, Drain, Drained, Join, Close, Answer, Die,
         book, counts, threads, loans
<1>2. \/ job' = job
      \/ \E j \in Jobs : /\ job[j] = "queued"
                        /\ \/ job' = [job EXCEPT ![j] = "taken"]
                           \/ job' = [job EXCEPT ![j] = "withdrawn"]
                           \/ job' = [job EXCEPT ![j] = "dropped"] /\ call[j] = "hooking"
  <2>1. queue # <<>> => Head(queue) \in Jobs
    BY DEF Types
  <2>2. CASE Take
    BY <2>1, <2>2 DEF Take, Job
  <2>3. CASE Drain
    BY <2>1, <2>3 DEF Drain, Job
  <2>4. CASE Shutdown \/ Drained \/ Join \/ Close \/ \E w \in Workers : Answer(w) \/ Die(w)
    BY <2>4 DEF Shutdown, Drained, Join, Close, Answer, Die
  <2> QED BY <2>2, <2>3, <2>4 DEF Closing
<1>3. Holders' = Holders /\ Submitted' = Submitted /\ Borrowers' = Borrowers
  BY <1>1, <1>2 DEF Types, Coupled, Holders, Submitted, Borrowers, Borrowing
<1> QED BY <1>1, <1>3, AccountsFrame

\* Only Take puts a job on a thread, and only on one that is free.
LEMMA ThreadsStep ==
  ASSUME Types, Coupled, IsFiniteSet(Holders), ThreadsBounded, [Next]_vars
  PROVE  ThreadsBounded'
<1>0. /\ IsFiniteSet(OnThread) /\ Cardinality(OnThread) \in Nat
      /\ Cardinality(Workers) \in Nat
  BY Subsets, WorkersAssumption, FS_CardinalityType
<1>1. ASSUME OnThread' \subseteq OnThread PROVE ThreadsBounded'
  <2>1. Cardinality(OnThread') <= Cardinality(OnThread) /\ Cardinality(OnThread') \in Nat
    BY <1>0, <1>1, FS_Subset, FS_CardinalityType
  <2> QED BY <1>0, <2>1 DEF ThreadsBounded
<1>2. ASSUME NEW j \in Jobs,
             Acquire(j) \/ Submission(j) \/ CancelAsync(j) \/ Signal(j) \/ Expire(j)
      PROVE  OnThread' \subseteq OnThread
  BY <1>2 DEF Acquire, Submission, Reject, Register, Enqueue, Hook, GiveBack, GetResult,
              CancelAsync, Signal, Expire, Job, Types, OnThread
<1>3. ASSUME NEW j \in Jobs, Execution(j) PROVE OnThread' \subseteq OnThread
  BY <1>3 DEF Execution, Fetch, GiveUp, Exchange, Read, Abort, Broken, Leave, Settle,
              Release, GiveBack, Job, Types, OnThread
<1>4. CASE Take
  <2>1. Head(queue) \in Jobs
    BY <1>4 DEF Take, Types
  <2>2. OnThread' \subseteq OnThread \cup {Head(queue)}
    BY <1>4, <2>1 DEF Take, Job, Types, OnThread
  <2>3. /\ IsFiniteSet(OnThread \cup {Head(queue)})
        /\ Cardinality(OnThread \cup {Head(queue)}) \in
               {Cardinality(OnThread), Cardinality(OnThread) + 1}
    <3> HIDE DEF OnThread
    <3> QED BY <1>0, FS_AddElement
  <2>4. /\ Cardinality(OnThread') <= Cardinality(OnThread \cup {Head(queue)})
        /\ Cardinality(OnThread') \in Nat /\ Cardinality(OnThread \cup {Head(queue)}) \in Nat
    BY <2>2, <2>3, FS_Subset, FS_CardinalityType
  <2>5. Cardinality(OnThread) < Cardinality(Workers)
    BY <1>4 DEF Take
  <2> QED BY <1>0, <2>3, <2>4, <2>5 DEF ThreadsBounded
<1>5. CASE Drain
  <2>1. queue # <<>> => Head(queue) \in Jobs
    BY DEF Types
  <2>2. OnThread' \subseteq OnThread
    BY <1>5, <2>1 DEF Drain, Job, Types, OnThread
  <2> QED BY <1>1, <2>2
<1>6. CASE \/ Shutdown \/ Drained \/ Join \/ Close \/ UNCHANGED vars
           \/ \E w \in Workers : Answer(w) \/ Die(w)
  <2>1. OnThread' \subseteq OnThread
    BY <1>6 DEF Shutdown, Drained, Join, Close, Answer, Die, vars, OnThread
  <2> QED BY <1>1, <2>1
<1> QED BY <1>1, <1>2, <1>3, <1>4, <1>5, <1>6 DEF Next, Progress, Environment, Closing

-----------------------------------------------------------------------------
(* The theorems.                                                            *)

PoolInv == Types /\ Coupled /\ LockedIsOpen /\ Answers /\ Accounts /\ ThreadsBounded

LEMMA PoolInit == Init => PoolInv
<1> SUFFICES ASSUME Init PROVE PoolInv
  OBVIOUS
<1>1. Types
  BY InitTypes
<1>2. Coupled /\ LockedIsOpen
  BY DEF Init, Coupled, LockedIsOpen
<1>3. Answers
  BY WorkersAssumption DEF Init, Answers, Loans, Borrowing, Pipes, Idle, OwnAnswer
<1>4. Accounts /\ ThreadsBounded
  <2>1. Holders = {} /\ Submitted = {} /\ Borrowers = {} /\ OnThread = {}
    BY DEF Init, Holders, Submitted, Borrowers, Borrowing, OnThread
  <2>2. Cardinality(Workers) \in Nat /\ IsFiniteSet({}) /\ Cardinality({}) = 0
    BY WorkersAssumption, FS_CardinalityType, FS_EmptySet
  <2> QED BY <2>1, <2>2, SlotsNat DEF Init, Accounts, ThreadsBounded
<1> QED BY <1>1, <1>2, <1>3, <1>4 DEF PoolInv

LEMMA PoolStep == PoolInv /\ [Next]_vars => PoolInv'
<1> SUFFICES ASSUME PoolInv, [Next]_vars PROVE PoolInv'
  OBVIOUS
<1>0. ThreadsBounded'
  BY ThreadsStep DEF PoolInv, Accounts
<1>1. ASSUME NEW j \in Jobs,
             Acquire(j) \/ Submission(j) \/ CancelAsync(j) \/ Signal(j) \/ Expire(j)
      PROVE  PoolInv'
  <2>1. Types'
    BY <1>1, SubmissionTypes, CancellationTypes DEF PoolInv
  <2>2. Coupled' /\ LockedIsOpen' /\ Answers' /\ Accounts'
    BY <1>1, SubmissionCoupled, SubmissionAnswers, SubmissionAccounts DEF PoolInv
  <2> QED BY <1>0, <2>1, <2>2 DEF PoolInv
<1>2. ASSUME NEW j \in Jobs, Execution(j) PROVE PoolInv'
  <2>1. Loans
    BY DEF PoolInv, Answers
  <2> QED BY <1>0, <1>2, <2>1, ExecutionTypes, ExecutionCoupled, ExecutionAnswers,
             ExecutionAccounts DEF PoolInv
<1>3. CASE Take \/ Closing \/ Close \/ \E w \in Workers : Answer(w) \/ Die(w)
  BY <1>0, <1>3, PoolTypes, PoolCoupled, PoolAnswers, PoolAccounts DEF PoolInv
<1>4. CASE UNCHANGED vars
  <2> USE <1>4 DEF vars, book, counts, ending, threads, loans, process, clock
  <2>1. Types' /\ Coupled' /\ LockedIsOpen'
    BY DEF PoolInv, Types, Coupled, LockedIsOpen
  <2>2. Answers'
    BY AnswersFrame DEF PoolInv
  <2>3. Accounts'
    <3>1. Holders' = Holders /\ Submitted' = Submitted /\ Borrowers' = Borrowers
      BY DEF Holders, Submitted, Borrowers
    <3> QED BY <3>1, AccountsFrame DEF PoolInv
  <2> QED BY <1>0, <2>1, <2>2, <2>3 DEF PoolInv
<1> QED BY <1>1, <1>2, <1>3, <1>4 DEF Next, Progress, Environment

LEMMA PoolInvHolds == Spec => []PoolInv
  BY PoolInit, PoolStep, PTL DEF Spec

\* The type invariant, with the semaphore between zero and its bound: no sequence
\* of submissions, answers, cancellations and a close takes a permit that is not
\* there or gives one back twice.
THEOREM PoolTypeOK == Spec => []TypeOK
<1>1. PoolInv => TypeOK
  <2> SUFFICES ASSUME PoolInv PROVE TypeOK
    OBVIOUS
  <2>1. Cardinality(Holders) \in Nat
    BY FS_CardinalityType DEF PoolInv, Accounts
  <2>2. slots \in 0..Slots
    BY <2>1, SlotsNat DEF PoolInv, Accounts, Types
  <2> QED BY <2>2 DEF PoolInv, Types, TypeOK
<1> QED BY <1>1, PoolInvHolds, PTL

\* Every permit is with one job in flight or free, however the job ended.
THEOREM PoolAccounted == Spec => []SlotsAreAccounted
<1>1. PoolInv => SlotsAreAccounted
  <2> SUFFICES ASSUME PoolInv PROVE SlotsAreAccounted
    OBVIOUS
  <2>1. IsFiniteSet(Submitted) /\ Borrowers \in SUBSET Submitted
    BY Subsets DEF PoolInv, Accounts
  <2>2. Cardinality(Borrowers) <= Cardinality(Submitted)
    BY <2>1, FS_Subset
  <2> QED BY <2>2 DEF PoolInv, Accounts, SlotsAreAccounted, Submitted
<1> QED BY <1>1, PoolInvHolds, PTL

\* A job is given its own answer, whatever happened to the jobs before it on the
\* same process.
THEOREM AnswersAreOwn == Spec => []OwnAnswer
<1>1. PoolInv => OwnAnswer
  BY DEF PoolInv, Answers
<1> QED BY <1>1, PoolInvHolds, PTL

\* The two locks are never waited for in opposite orders.
THEOREM LocksDoNotMeet == Spec => []SubmitMissesShutdown
<1>1. PoolInv => SubmitMissesShutdown
  BY DEF PoolInv, LockedIsOpen, SubmitMissesShutdown, Free, Shut
<1> QED BY <1>1, PoolInvHolds, PTL

\* A thread with a job never waits for a worker.
THEOREM WorkersSuffice == Spec => []WorkerInReserve
<1>1. PoolInv => WorkerInReserve
  <2> SUFFICES ASSUME PoolInv, NEW j \in Jobs, job[j] = "taken", available = {} PROVE FALSE
    BY DEF WorkerInReserve
  <2>1. /\ IsFiniteSet(OnThread) /\ Borrowers \in SUBSET OnThread
        /\ IsFiniteSet(Borrowers)
    BY Subsets DEF PoolInv, Accounts
  <2>2. Cardinality(Borrowers) = Cardinality(Workers) /\ Cardinality(Workers) \in Nat
    BY WorkersAssumption, FS_CardinalityType, FS_EmptySet, <2>1 DEF PoolInv, Accounts
  <2>3. Cardinality(OnThread) = Cardinality(Borrowers)
    BY <2>1, <2>2, FS_Subset, FS_CardinalityType DEF PoolInv, ThreadsBounded
  <2>4. OnThread = Borrowers
    BY <2>1, <2>3, FS_Subset
  <2> QED BY <2>4 DEF OnThread, Borrowers, Borrowing
<1> QED BY <1>1, PoolInvHolds, PTL

-----------------------------------------------------------------------------
(* Closing.                                                                 *)

\* A job that waits is in the queue; the queue is empty before the threads are joined,
\* and nothing runs when the pool is closed.
Quiet ==
    /\ \A j \in Jobs : job[j] = "queued" => \E i \in 1..Len(queue) : queue[i] = j
    /\ closer \in {"joining", "closed"} => queue = <<>>
    /\ closer = "closed" => OnThread = {} /\ \A w \in Workers : ~alive[w]

\* The event of a job that shares it with no other is on record as long as the job holds
\* its slot, and is set from the moment the pool closes.
Recorded ==
    \A j \in Submitted : \/ Sharing(j)
                         \/ /\ CancelEvent[j] \in registered
                            /\ closer # "open" => CancelEvent[j] \in signalled

CloseInv == PoolInv /\ Quiet /\ Recorded

LEMMA CloseInit == Init => CloseInv
  BY PoolInit DEF Init, CloseInv, Quiet, Recorded, Submitted, Holders

\* What is left of the queue when its head has been dealt with.
LEMMA QueueAfterHead ==
  ASSUME Types, queue # <<>>, NEW j \in Jobs, NEW i \in 1..Len(queue), queue[i] = j,
         j # Head(queue)
  PROVE  \E k \in 1..Len(Tail(queue)) : Tail(queue)[k] = j
<1>1. i # 1 /\ Len(Tail(queue)) = Len(queue) - 1 /\ Len(queue) \in Nat
  BY DEF Types
<1>2. i - 1 \in 1..Len(Tail(queue)) /\ Tail(queue)[i - 1] = queue[i]
  BY <1>1 DEF Types
<1> QED BY <1>2

\* What stands in the queue still does when another job is put behind it.
LEMMA QueueBefore ==
  ASSUME Types, NEW j \in Jobs
  PROVE  /\ \A i \in 1..Len(queue) : i \in 1..Len(Append(queue, j))
                                       /\ Append(queue, j)[i] = queue[i]
         /\ Len(queue) + 1 \in 1..Len(Append(queue, j))
         /\ Append(queue, j)[Len(queue) + 1] = j
  BY DEF Types

LEMMA SubmissionQuiet ==
  ASSUME PoolInv, Quiet, NEW j \in Jobs,
         Acquire(j) \/ Submission(j) \/ CancelAsync(j) \/ Signal(j) \/ Expire(j)
  PROVE  Quiet'
<1> USE DEF PoolInv, Types, threads, loans, process, ending, Caller, Job
<1>1. CASE Enqueue(j)
  <2>1. CASE Shut
    BY <1>1, <2>1 DEF Enqueue, Quiet, OnThread
  <2>2. CASE ~Shut
    <3>1. /\ queue' = Append(queue, j) /\ closer' = closer
          /\ closer \notin {"joining", "closed"}
          /\ \A k \in Jobs \ {j} : job'[k] = job[k]
      BY <1>1, <2>2 DEF Enqueue, Shut
    <3> QED BY <3>1, QueueBefore DEF Quiet
  <2> QED BY <2>1, <2>2
<1>2. CASE ~Enqueue(j)
  <2>1. UNCHANGED <<queue, closer, alive>>
    BY <1>2 DEF Acquire, Submission, Reject, Register, Hook, GetResult, CancelAsync, Signal,
                Expire
  <2>2. \A k \in Jobs : job'[k] = job[k] \/ job'[k] \in {"released", "withdrawn"}
    BY <1>2 DEF Acquire, Submission, Reject, Register, Hook, GiveBack, GetResult,
                CancelAsync, Signal, Expire
  <2> QED BY <2>1, <2>2 DEF Quiet, OnThread
<1> QED BY <1>1, <1>2

LEMMA ExecutionQuiet ==
  ASSUME PoolInv, Quiet, NEW j \in Jobs, Execution(j)
  PROVE  Quiet'
<1> USE DEF PoolInv, Types, threads, loans, process, ending, Job
<1>1. /\ UNCHANGED <<queue, closer>>
      /\ \A k \in Jobs \ {j} : job'[k] = job[k]
      /\ job'[j] \notin {"queued", "taken"}
  BY DEF Execution, Fetch, GiveUp, Exchange, Read, Abort, Leave, Settle, Release, GiveBack
<1>2. CASE j \in OnThread
  BY <1>1, <1>2 DEF Quiet
<1>3. CASE j \notin OnThread
  <2>1. Release(j) /\ job'[j] = "released" /\ UNCHANGED alive
    BY <1>3 DEF Execution, Fetch, GiveUp, Exchange, Read, Abort, Broken, Leave, Settle,
                Release, GiveBack, OnThread
  <2> QED BY <1>1, <2>1 DEF Quiet, OnThread
<1> QED BY <1>2, <1>3

LEMMA PoolQuiet ==
  ASSUME PoolInv, Quiet,
         Take \/ Closing \/ Close \/ \E w \in Workers : Answer(w) \/ Die(w)
  PROVE  Quiet'
<1> USE DEF PoolInv, Types, threads, loans, process, ending, Job
<1>1. CASE Take \/ Drain
  <2>1. /\ queue # <<>> /\ queue' = Tail(queue) /\ closer' = closer
        /\ \A k \in Jobs : job'[k] = job[k] \/ k = Head(queue)
        /\ job'[Head(queue)] # "queued" /\ Head(queue) \in Jobs
    BY <1>1 DEF Take, Drain
  <2>2. closer \notin {"joining", "closed"}
    BY <2>1 DEF Quiet
  <2>3. ASSUME NEW k \in Jobs, job'[k] = "queued"
        PROVE  \E i \in 1..Len(queue') : queue'[i] = k
    BY <2>1, <2>3, QueueAfterHead DEF Quiet
  <2> QED BY <2>1, <2>2, <2>3 DEF Quiet
<1>2. CASE Shutdown \/ Drained \/ Close
  BY <1>2 DEF Shutdown, Drained, Close, Quiet
<1>3. CASE Join
  BY <1>3 DEF Join, Kill, Quiet, OnThread
<1>4. CASE \E w \in Workers : Answer(w) \/ Die(w)
  BY <1>4 DEF Answer, Die, Quiet, OnThread
<1> QED BY <1>1, <1>2, <1>3, <1>4 DEF Closing

LEMMA RecordedFrame ==
  ASSUME Recorded, Submitted' \subseteq Submitted, registered \subseteq registered',
         signalled \subseteq signalled', closer' = closer \/ closer # "open"
  PROVE  Recorded'
  BY DEF Recorded, Sharing

LEMMA SubmissionRecorded ==
  ASSUME PoolInv, Recorded, NEW j \in Jobs,
         Acquire(j) \/ Submission(j) \/ CancelAsync(j) \/ Signal(j) \/ Expire(j)
  PROVE  Recorded'
<1> USE DEF PoolInv, Types, book, counts, ending, clock, Caller, Job
<1>1. CASE Register(j)
  <2>1. /\ Submitted' \subseteq Submitted \cup {j} /\ closer = "open"
        /\ registered' = registered \cup {CancelEvent[j]}
        /\ UNCHANGED <<closer, signalled>>
    BY <1>1 DEF Register, Submitted, Holders
  <2> QED BY <2>1 DEF Recorded, Sharing
<1>2. CASE Hook(j) /\ job[j] = "dropped"
  <2>1. /\ Submitted' \subseteq Submitted \ {j}
        /\ registered' = registered \ {CancelEvent[j]}
        /\ UNCHANGED <<closer, signalled>>
    BY <1>2 DEF Hook, GiveBack, Submitted, Holders
  <2>2. \A k \in Submitted' : Sharing(k) \/ CancelEvent[k] # CancelEvent[j]
    BY <2>1 DEF Sharing, Submitted, Holders
  <2> QED BY <2>1, <2>2 DEF Recorded, Sharing
<1>3. CASE ~Register(j) /\ ~(Hook(j) /\ job[j] = "dropped")
  <2>1. Submitted' \subseteq Submitted
    BY <1>3 DEF Acquire, Submission, Reject, Enqueue, Hook, GetResult, CancelAsync, Signal,
                Expire, Submitted, Holders, Coupled, OnceQueued, Unhooked
  <2>2. registered' = registered /\ signalled \subseteq signalled' /\ closer' = closer
    BY <1>3 DEF Acquire, Submission, Reject, Enqueue, Hook, GetResult, CancelAsync, Signal,
                Expire
  <2> QED BY <2>1, <2>2, RecordedFrame
<1> QED BY <1>1, <1>2, <1>3

LEMMA ExecutionRecorded ==
  ASSUME PoolInv, Recorded, NEW j \in Jobs, Execution(j)
  PROVE  Recorded'
<1> USE DEF PoolInv, Types, book, counts, ending, clock, Job
<1>0. call' = call /\ UNCHANGED <<closer, signalled>>
  BY DEF Execution, Fetch, GiveUp, Exchange, Read, Abort, Leave, Settle, Release, ending
<1>1. CASE Release(j)
  <2>1. call[j] \in {"waiting", "back"}
    BY <1>1 DEF Release, Coupled, Unhooked, Calls
  <2>2. /\ Submitted' \subseteq Submitted \ {j}
        /\ registered' = registered \ {CancelEvent[j]}
    BY <1>0, <1>1, <2>1 DEF Release, GiveBack, Submitted, Holders
  <2>3. \A k \in Submitted' : Sharing(k) \/ CancelEvent[k] # CancelEvent[j]
    BY <2>2 DEF Sharing, Submitted, Holders
  <2> QED BY <1>0, <2>2, <2>3 DEF Recorded, Sharing
<1>2. CASE ~Release(j)
  <2>1. registered' = registered
    BY <1>2 DEF Execution, Fetch, GiveUp, Exchange, Read, Abort, Leave, Settle
  <2>2. /\ \A k \in Jobs \ {j} : job'[k] = job[k]
        /\ j \in Submitted
    BY <1>2 DEF Execution, Fetch, GiveUp, Exchange, Read, Abort, Broken, Leave, Settle,
                Submitted, Holders, Coupled
  <2>3. Submitted' \subseteq Submitted
    BY <1>0, <2>2 DEF Submitted, Holders
  <2> QED BY <1>0, <2>1, <2>3, RecordedFrame
<1> QED BY <1>1, <1>2

LEMMA PoolRecorded ==
  ASSUME PoolInv, Recorded,
         Take \/ Closing \/ Close \/ \E w \in Workers : Answer(w) \/ Die(w)
  PROVE  Recorded'
<1> USE DEF PoolInv, Types, book, counts, ending, clock, Job
<1>1. Submitted' \subseteq Submitted
  <2>1. call' = call
    BY DEF Take, Closing, Shutdown, Drain, Drained, Join, Close, Answer, Die
  <2>2. queue # <<>> => Head(queue) \in Jobs
    OBVIOUS
  <2>3. \A k \in Jobs : job'[k] = job[k] \/ job[k] = "queued"
    BY <2>2 DEF Take, Closing, Shutdown, Drain, Drained, Join, Close, Answer, Die
  <2> QED BY <2>1, <2>3 DEF Submitted, Holders
<1>2. CASE Close
  <2>1. registered' = registered /\ signalled' = signalled \cup registered
    BY <1>2 DEF Close
  <2> QED BY <1>1, <2>1 DEF Recorded, Sharing
<1>3. CASE ~Close
  <2>1. UNCHANGED <<registered, signalled>> /\ (closer' = closer \/ closer # "open")
    BY <1>3 DEF Take, Closing, Shutdown, Drain, Drained, Join, Answer, Die
  <2> QED BY <1>1, <2>1, RecordedFrame
<1> QED BY <1>2, <1>3

LEMMA CloseStep == CloseInv /\ [Next]_vars => CloseInv'
<1> SUFFICES ASSUME CloseInv, [Next]_vars PROVE CloseInv'
  OBVIOUS
<1>1. PoolInv'
  BY PoolStep DEF CloseInv
<1>2. CASE Next
  BY <1>1, <1>2, SubmissionQuiet, ExecutionQuiet, PoolQuiet, SubmissionRecorded,
     ExecutionRecorded, PoolRecorded
  DEF CloseInv, Next, Progress, Environment
<1>3. CASE UNCHANGED vars
  BY <1>1, <1>3 DEF vars, book, counts, ending, threads, loans, process, clock, CloseInv,
                    Quiet, Recorded, Sharing, OnThread, Submitted, Holders
<1> QED BY <1>2, <1>3

LEMMA CloseInvHolds == Spec => []CloseInv
  BY CloseInit, CloseStep, PTL DEF Spec

\* Once close() has returned, every accepted job is answered and no process is left:
\* no job can be in the executor after its queue was drained.
THEOREM PoolClosesQuietly == Spec => []ClosedIsQuiet
<1>1. CloseInv => ClosedIsQuiet
  <2> SUFFICES ASSUME CloseInv, closer = "closed" PROVE ClosedIsQuiet
    BY DEF ClosedIsQuiet
  <2>1. OnThread = {} /\ queue = <<>> /\ \A w \in Workers : ~alive[w]
    BY DEF CloseInv, Quiet
  <2>2. ASSUME NEW j \in Jobs, job[j] # "none" PROVE Resolved(j)
    <3>1. job[j] # "queued"
      BY <2>1 DEF CloseInv, Quiet
    <3> QED BY <2>1, <2>2, <3>1 DEF OnThread, Resolved, CloseInv, PoolInv, Types, Phases
  <2> QED BY <2>1, <2>2 DEF ClosedIsQuiet
<1> QED BY <1>1, CloseInvHolds, PTL

\* While close() waits for the threads, every job they still run has been cancelled,
\* unless it shares its event with another: the callback of the other may have taken
\* the event off the record.
THEOREM CloseReachesOwnEvents == Spec => []CloseCancelsOwnEvents
<1>1. CloseInv => CloseCancelsOwnEvents
  <2>1. ASSUME CloseInv PROVE OnProcess \subseteq Submitted
    BY <2>1 DEF CloseInv, PoolInv, Coupled, OnProcess, Submitted, Holders
  <2> QED BY <2>1 DEF CloseInv, Recorded, CloseCancelsOwnEvents
<1> QED BY <1>1, CloseInvHolds, PTL

-----------------------------------------------------------------------------
(* Somebody can always go on.                                               *)

\* close() waits for the callback of a future it has cancelled.
CancelsWithdrawn == cancelling # NoJob => job[cancelling] = "withdrawn"

LEMMA CancelsWithdrawnStep ==
  PoolInv /\ CancelsWithdrawn /\ [Next]_vars => CancelsWithdrawn'
<1> SUFFICES ASSUME PoolInv, CancelsWithdrawn, [Next]_vars PROVE CancelsWithdrawn'
  OBVIOUS
<1> USE DEF PoolInv, Types, CancelsWithdrawn, ending, Job
<1>1. ASSUME NEW j \in Jobs,
             Acquire(j) \/ Submission(j) \/ CancelAsync(j) \/ Signal(j) \/ Expire(j)
      PROVE  CancelsWithdrawn'
  <2>1. cancelling' = cancelling
    BY <1>1 DEF Acquire, Submission, Reject, Register, Enqueue, Hook, GetResult, CancelAsync,
                Signal, Expire
  <2>2. \A k \in Jobs : job[k] = "withdrawn" => job'[k] = "withdrawn"
    <3>1. CASE Enqueue(j)
      <4>1. job[j] = "none"
        BY <3>1 DEF Enqueue, Coupled
      <4> QED BY <3>1, <4>1 DEF Enqueue
    <3>2. CASE Hook(j)
      BY <3>2 DEF Hook, GiveBack
    <3>3. CASE CancelAsync(j)
      BY <3>3 DEF CancelAsync
    <3>4. CASE Acquire(j) \/ Reject(j) \/ Register(j) \/ GetResult(j) \/ Signal(j) \/ Expire(j)
      BY <3>4 DEF Acquire, Reject, Register, GetResult, Signal, Expire
    <3> QED BY <1>1, <3>1, <3>2, <3>3, <3>4 DEF Submission
  <2> QED BY <2>1, <2>2
<1>2. ASSUME NEW j \in Jobs, Execution(j) PROVE CancelsWithdrawn'
  <2>1. CASE Release(j)
    <3>1. /\ cancelling' = IF cancelling = j THEN NoJob ELSE cancelling
          /\ job' = [job EXCEPT ![j] = "released"]
      BY <2>1 DEF Release, GiveBack
    <3> QED BY <3>1
  <2>2. CASE ~Release(j)
    <3>1. cancelling' = cancelling
      BY <1>2, <2>2 DEF Execution, Fetch, GiveUp, Exchange, Read, Abort, Leave, Settle
    <3>2. \A k \in Jobs : job[k] = "withdrawn" => job'[k] = "withdrawn"
      BY <1>2, <2>2
      DEF Execution, Fetch, GiveUp, Exchange, Read, Abort, Broken, Leave, Settle
    <3> QED BY <3>1, <3>2
  <2> QED BY <2>1, <2>2
<1>3. CASE Take
  <2>1. cancelling' = cancelling /\ Head(queue) \in Jobs
    BY <1>3 DEF Take
  <2>2. \A k \in Jobs : job[k] = "withdrawn" => job'[k] = "withdrawn"
    BY <1>3, <2>1 DEF Take
  <2> QED BY <2>1, <2>2
<1>4. CASE Drain
  <2>1. cancelling = NoJob /\ Head(queue) \in Jobs
    BY <1>4 DEF Drain
  <2>2. \/ cancelling' = NoJob
        \/ cancelling' = Head(queue) /\ job' = [job EXCEPT ![Head(queue)] = "withdrawn"]
    BY <1>4, <2>1 DEF Drain
  <2> QED BY <2>1, <2>2
<1>5. CASE \/ Shutdown \/ Drained \/ Join \/ Close \/ UNCHANGED vars
           \/ \E w \in Workers : Answer(w) \/ Die(w)
  <2>1. UNCHANGED <<job, cancelling>>
    BY <1>5 DEF Shutdown, Drained, Join, Close, Answer, Die, vars
  <2> QED BY <2>1
<1> QED BY <1>1, <1>2, <1>3, <1>4, <1>5 DEF Next, Progress, Environment, Closing

\* A job on a thread goes on, or waits for whoever has the pool's lock, who does.
LEMMA ThreadGoesOn ==
  ASSUME PoolInv, available # {} \/ \A k \in Jobs : job[k] # "taken",
         NEW j \in OnThread
  PROVE  PoolGoesOn
<1>1. j \in Jobs /\ job[j] \in {"taken", "held", "working", "leaving", "returned", "settled"}
  BY DEF OnThread
<1>2. CASE Free
  BY <1>1, <1>2 DEF PoolGoesOn, JobGoesOn
<1>3. CASE ~Free
  <2>1. PICK k \in Jobs : call[k] = "locked"
    BY <1>3 DEF Free
  <2>2. closer = "open"
    BY <2>1 DEF PoolInv, LockedIsOpen
  <2> QED BY <2>1, <2>2 DEF PoolGoesOn, JobGoesOn
<1> QED BY <1>2, <1>3

\* A job that waits in the queue is taken, unless every thread has one already.
LEMMA QueuedGoesOn ==
  ASSUME PoolInv, available # {} \/ \A k \in Jobs : job[k] # "taken", queue # <<>>
  PROVE  PoolGoesOn
<1>1. CASE OnThread = {}
  <2>1. Cardinality(OnThread) = 0
    BY <1>1, FS_EmptySet
  <2>2. Cardinality(Workers) \in Nat /\ Cardinality(Workers) # 0
    BY WorkersAssumption, FS_CardinalityType, FS_EmptySet
  <2> QED BY <2>1, <2>2 DEF PoolGoesOn
<1>2. CASE OnThread # {}
  BY <1>2, ThreadGoesOn
<1> QED BY <1>1, <1>2

\* What holds a permit or waits for its answer has somewhere to go.
LEMMA HolderGoesOn ==
  ASSUME PoolInv, Quiet, available # {} \/ \A k \in Jobs : job[k] # "taken",
         NEW j \in Jobs, j \in Holders \/ call[j] = "waiting"
  PROVE  PoolGoesOn
<1> USE DEF PoolInv, Types
<1>0. ASSUME NEW k \in Jobs, call[k] = "locked" PROVE PoolGoesOn
  <2>1. closer = "open"
    BY <1>0 DEF LockedIsOpen
  <2> QED BY <1>0, <2>1 DEF PoolGoesOn, JobGoesOn
<1>1. CASE ~Free
  BY <1>0, <1>1 DEF Free
<1>2. CASE Free /\ call[j] \in {"slotted", "hooking"}
  BY <1>2 DEF PoolGoesOn, JobGoesOn
<1>3. CASE Free /\ job[j] = "queued"
  <2>1. queue # <<>>
    BY <1>3 DEF Quiet
  <2> QED BY <2>1, QueuedGoesOn
<1>4. CASE j \in OnThread
  BY <1>4, ThreadGoesOn
<1>5. CASE Free /\ job[j] = "withdrawn"
  BY <1>5 DEF PoolGoesOn, JobGoesOn
<1>6. CASE Free /\ call[j] = "waiting" /\ Resolved(j)
  BY <1>6 DEF PoolGoesOn, JobGoesOn
<1>7. \/ call[j] \in {"slotted", "locked", "hooking"}
      \/ job[j] = "queued" \/ job[j] = "withdrawn" \/ j \in OnThread
      \/ call[j] = "waiting" /\ Resolved(j)
  BY DEF Holders, Coupled, OnceQueued, OnThread, Phases, Resolved
<1> QED BY <1>0, <1>1, <1>2, <1>3, <1>4, <1>5, <1>6, <1>7

\* While close() is at work it can go on, or a thread can, or the callback it waits for.
LEMMA CloserGoesOn ==
  ASSUME PoolInv, CancelsWithdrawn, available # {} \/ \A k \in Jobs : job[k] # "taken",
         closer \notin {"open", "closed"}
  PROVE  PoolGoesOn
<1> USE DEF PoolInv, Types
<1>1. Free
  BY DEF LockedIsOpen, Free
<1>2. CASE closer = "closing" \/ (closer = "draining" /\ cancelling = NoJob)
  BY <1>2 DEF PoolGoesOn
<1>3. CASE closer = "draining" /\ cancelling # NoJob
  BY <1>1, <1>3 DEF PoolGoesOn, JobGoesOn, CancelsWithdrawn
<1>4. CASE closer = "joining"
  <2>1. CASE OnThread = {}
    BY <1>4, <2>1 DEF PoolGoesOn
  <2>2. CASE OnThread # {}
    BY <2>2, ThreadGoesOn
  <2> QED BY <2>1, <2>2
<1>5. closer \in {"closing", "draining", "joining"}
  BY DEF Closers
<1> QED BY <1>2, <1>3, <1>4, <1>5

\* The pool's lock, the executor's, the semaphore, the threads, the workers and close()
\* never block one another: as long as anything is under way, one of them can go on.
THEOREM PoolNeverBlocks == Spec => []NobodyBlocksAll
<1>1. Init => CancelsWithdrawn
  BY DEF Init, CancelsWithdrawn
<1>2. Spec => []CancelsWithdrawn
  BY <1>1, CancelsWithdrawnStep, PoolInvHolds, PTL DEF Spec
<1>3. CloseInv /\ CancelsWithdrawn /\ WorkerInReserve => NobodyBlocksAll
  <2> SUFFICES ASSUME CloseInv, CancelsWithdrawn, WorkerInReserve, Unfinished
               PROVE  PoolGoesOn
    BY DEF NobodyBlocksAll
  <2>1. available # {} \/ \A k \in Jobs : job[k] # "taken"
    BY DEF WorkerInReserve
  <2>2. CASE closer \notin {"open", "closed"}
    BY <2>1, <2>2, CloserGoesOn DEF CloseInv
  <2>3. CASE \E j \in Jobs : j \in Holders \/ call[j] = "waiting"
    BY <2>1, <2>3, HolderGoesOn DEF CloseInv
  <2> QED BY <2>2, <2>3 DEF Unfinished, Holders
<1> QED BY <1>2, <1>3, CloseInvHolds, WorkersSuffice, PTL

-----------------------------------------------------------------------------
(* Jobs only advance.                                                       *)

LEMMA LeftIsNat ==
  /\ \A c \in Calls : CallLeft(c) \in 0..5
  /\ \A p \in Phases : PhaseLeft(p) \in 0..8
<1>1. ASSUME NEW c \in Calls PROVE CallLeft(c) \in 0..5
  BY DEF Calls, CallLeft
<1>2. ASSUME NEW p \in Phases PROVE PhaseLeft(p) \in 0..8
  BY DEF Phases, PhaseLeft
<1> QED BY <1>1, <1>2

\* What a step may do with a call and with a job: leave it, or take it on.
CallOn(c, d)  == d = c \/ CallLeft(d) < CallLeft(c)
PhaseOn(p, q) == q = p \/ PhaseLeft(q) < PhaseLeft(p)

LEMMA SubmissionAdvances ==
  ASSUME PoolInv, NEW j \in Jobs, Acquire(j) \/ Submission(j)
  PROVE  /\ \A k \in Jobs \ {j} : call'[k] = call[k] /\ job'[k] = job[k]
         /\ CallLeft(call'[j]) < CallLeft(call[j])
         /\ PhaseOn(job[j], job'[j])
<1> USE DEF PoolInv, Types, Caller, Job
<1>1. CASE Acquire(j)
  <2>1. call[j] = "idle" /\ job' = job
        /\ \E c \in {"slotted", "refused"} : call' = [call EXCEPT ![j] = c]
    BY <1>1 DEF Acquire
  <2> QED BY <2>1 DEF CallLeft, PhaseOn
<1>2. CASE Reject(j) \/ Register(j)
  <2>1. call[j] = "slotted" /\ job' = job
        /\ \E c \in {"locked", "refused"} : call' = [call EXCEPT ![j] = c]
    BY <1>2 DEF Reject, Register
  <2> QED BY <2>1 DEF CallLeft, PhaseOn
<1>3. CASE Enqueue(j)
  <2>1. call[j] = "locked" /\ job[j] = "none"
    BY <1>3 DEF Enqueue, Coupled
  <2>2. \E c \in {"hooking", "refused"} : call' = [call EXCEPT ![j] = c]
    BY <1>3 DEF Enqueue
  <2>3. job' = job \/ job' = [job EXCEPT ![j] = "queued"]
    BY <1>3 DEF Enqueue
  <2> QED BY <2>1, <2>2, <2>3 DEF CallLeft, PhaseLeft, PhaseOn
<1>4. CASE Hook(j)
  <2>1. call[j] = "hooking" /\ call' = [call EXCEPT ![j] = "waiting"]
    BY <1>4 DEF Hook
  <2>2. job' = job \/ (job[j] = "dropped" /\ job' = [job EXCEPT ![j] = "released"])
    <3>1. CASE job[j] = "dropped"
      BY <1>4, <3>1 DEF Hook, GiveBack
    <3>2. CASE job[j] # "dropped"
      BY <1>4, <3>2 DEF Hook
    <3> QED BY <3>1, <3>2
  <2> QED BY <2>1, <2>2 DEF CallLeft, PhaseLeft, PhaseOn
<1>5. CASE GetResult(j)
  BY <1>5 DEF GetResult, CallLeft, PhaseOn
<1> QED BY <1>1, <1>2, <1>3, <1>4, <1>5 DEF Submission

LEMMA ExecutionAdvances ==
  ASSUME PoolInv, NEW j \in Jobs, Execution(j)
  PROVE  /\ call' = call
         /\ \A k \in Jobs \ {j} : job'[k] = job[k]
         /\ PhaseLeft(job'[j]) < PhaseLeft(job[j])
<1> USE DEF PoolInv, Types, Job, PhaseLeft
<1>0. call' = call
  BY DEF Execution, Fetch, GiveUp, Exchange, Read, Abort, Leave, Settle, Release
<1>1. CASE Fetch(j) \/ GiveUp(j)
  BY <1>0, <1>1 DEF Fetch, GiveUp
<1>2. CASE Exchange(j) \/ Read(j) \/ Abort(j)
  BY <1>0, <1>2 DEF Exchange, Read, Abort, Broken
<1>3. CASE Leave(j) \/ Settle(j)
  BY <1>0, <1>3 DEF Leave, Settle
<1>4. CASE Release(j)
  BY <1>0, <1>4 DEF Release, GiveBack
<1> QED BY <1>1, <1>2, <1>3, <1>4 DEF Execution

LEMMA OthersAdvance ==
  ASSUME PoolInv, NEW j \in Jobs,
         \/ \E k \in Jobs : CancelAsync(k) \/ Signal(k) \/ Expire(k)
         \/ Take \/ Closing \/ Close \/ \E w \in Workers : Answer(w) \/ Die(w)
         \/ UNCHANGED vars
  PROVE  CallOn(call[j], call'[j]) /\ PhaseOn(job[j], job'[j])
<1> USE DEF PoolInv, Types, Caller, Job, CallOn, PhaseOn
<1>1. ASSUME NEW k \in Jobs, CancelAsync(k)
      PROVE  CallOn(call[j], call'[j]) /\ PhaseOn(job[j], job'[j])
  <2>1. call[k] = "waiting" /\ call' = [call EXCEPT ![k] = "back"]
    BY <1>1 DEF CancelAsync
  <2>2. job' = job \/ (job[k] = "queued" /\ job' = [job EXCEPT ![k] = "withdrawn"])
    <3>1. CASE job[k] = "queued"
      BY <1>1, <3>1 DEF CancelAsync
    <3>2. CASE job[k] # "queued"
      BY <1>1, <3>2 DEF CancelAsync
    <3> QED BY <3>1, <3>2
  <2> QED BY <2>1, <2>2 DEF CallLeft, PhaseLeft
<1>2. CASE Take \/ Drain
  <2>1. call' = call /\ Head(queue) \in Jobs
    BY <1>2 DEF Take, Drain
  <2>2. \/ job' = job
        \/ /\ job[Head(queue)] = "queued"
           /\ \E p \in {"taken", "dropped", "withdrawn"} :
                 job' = [job EXCEPT ![Head(queue)] = p]
    BY <1>2, <2>1 DEF Take, Drain
  <2> QED BY <2>1, <2>2 DEF PhaseLeft
<1>3. CASE \/ \E k \in Jobs : Signal(k) \/ Expire(k)
           \/ Shutdown \/ Drained \/ Join \/ Close \/ UNCHANGED vars
           \/ \E w \in Workers : Answer(w) \/ Die(w)
  <2>1. UNCHANGED <<call, job>>
    BY <1>3 DEF Signal, Expire, Shutdown, Drained, Join, Close, Answer, Die, vars
  <2> QED BY <2>1
<1> QED BY <1>1, <1>2, <1>3 DEF Closing

\* A job has at most thirteen steps of its own; each of them, and whatever befalls it
\* from others, leaves it fewer, and nothing takes it back.
THEOREM PoolJobsAdvance == Spec => JobsOnlyAdvance
<1>1. PoolInv /\ PoolInv' /\ [Next]_vars
        => [\A j \in Jobs : /\ JobLeft(j)' <= JobLeft(j)
                            /\ Submission(j) \/ Execution(j) => JobLeft(j)' < JobLeft(j)]_vars
  <2> SUFFICES ASSUME PoolInv, PoolInv', [Next]_vars, NEW j \in Jobs
               PROVE  /\ JobLeft(j)' <= JobLeft(j)
                      /\ Submission(j) \/ Execution(j) => JobLeft(j)' < JobLeft(j)
    OBVIOUS
  <2>1. /\ CallLeft(call[j]) \in 0..5 /\ CallLeft(call'[j]) \in 0..5
        /\ PhaseLeft(job[j]) \in 0..8 /\ PhaseLeft(job'[j]) \in 0..8
    BY LeftIsNat DEF PoolInv, Types
  <2>2. CASE Submission(j)
    BY <2>1, <2>2, SubmissionAdvances DEF JobLeft, PhaseOn
  <2>3. CASE Execution(j)
    BY <2>1, <2>3, ExecutionAdvances DEF JobLeft
  <2>4. CASE ~(Submission(j) \/ Execution(j))
    <3>1. CallOn(call[j], call'[j]) /\ PhaseOn(job[j], job'[j])
      <4>1. ASSUME NEW k \in Jobs, Acquire(k) \/ Submission(k)
            PROVE  CallOn(call[j], call'[j]) /\ PhaseOn(job[j], job'[j])
        BY <4>1, SubmissionAdvances DEF CallOn, PhaseOn
      <4>2. ASSUME NEW k \in Jobs, Execution(k)
            PROVE  CallOn(call[j], call'[j]) /\ PhaseOn(job[j], job'[j])
        BY <4>2, ExecutionAdvances DEF CallOn, PhaseOn
      <4> QED BY <4>1, <4>2, OthersAdvance DEF Next, Progress, Environment
    <3> QED BY <2>1, <2>4, <3>1 DEF JobLeft, CallOn, PhaseOn
  <2> QED BY <2>2, <2>3, <2>4
<1> QED
  BY <1>1, PoolInvHolds, PTL DEF Spec, JobsOnlyAdvance
=============================================================================
