----------------------------- MODULE ComputePool -----------------------------
(***************************************************************************)
(* The pool of CPU workers (utils/compute_pool.py).                        *)
(*                                                                         *)
(* Callers submit jobs; the threads of an executor each borrow a worker,   *)
(* exchange one message with its interpreter process and hand the answer   *)
(* to the caller's future.  A semaphore bounds the jobs accepted.  An      *)
(* event per callback cancels its jobs; closing the pool signals every     *)
(* event on record, withdraws what is queued and joins the threads.        *)
(*                                                                         *)
(* An action is what one thread does under the pool's lock, or between two *)
(* uses of it.  The counters completed and failed are left out.            *)
(***************************************************************************)
EXTENDS Integers, FiniteSets, Sequences

CONSTANTS
    Jobs,          \* the jobs that may be submitted
    NoJob,
    Workers,       \* as many threads as workers
    NoWorker,
    Events,
    CancelEvent,   \* CancelEvent[j]: the event that cancels job j
    Before,        \* Before[j]: the job whose result its callback awaits first
    Async          \* the jobs of compute_async; the others are compute_sync's

Slots == 2 * Cardinality(Workers)

ASSUME WorkersAssumption ==
    IsFiniteSet(Workers) /\ Workers # {} /\ NoWorker \notin Workers
\* compute_async makes an event for its own job; the callback that offload_wait
\* runs shares one among the jobs it submits one after the other.
ASSUME JobsAssumption ==
    /\ NoJob \notin Jobs
    /\ CancelEvent \in [Jobs -> Events]
    /\ Before \in [Jobs -> Jobs \cup {NoJob}]
    /\ Async \subseteq Jobs
    /\ \A j \in Async, k \in Jobs : CancelEvent[j] = CancelEvent[k] => j = k

VARIABLES
    call,          \* call[j]: where the caller of submit is
    job,           \* job[j]: where the job is
    slots,         \* permits of the semaphore
    pending,       \* counter: submitted, slot not yet given back
    active,        \* counter: a worker is borrowed
    registered,    \* self.cancellations
    closer,        \* where close() is
    cancelling,    \* the future close() is cancelling, or NoJob
    queue,         \* the executor's work queue
    available,     \* workers nobody borrows
    worker,        \* worker[j]: the worker job j borrows
    got,           \* got[j]: the job whose answer job j was given
    alive,         \* alive[w]: w has a process
    inbox,         \* inbox[w]: messages the process has not answered
    outbox,        \* outbox[w]: answers nobody has read
    signalled,     \* the cancellation events that are set
    late           \* jobs past their deadline

counts  == <<pending, active, registered>>
book    == <<slots, counts>>
ending  == <<closer, cancelling>>
loans   == <<available, worker>>
threads == <<queue, loans, got>>
process == <<alive, inbox, outbox>>
clock   == <<signalled, late>>
vars == <<call, job, book, ending, threads, process, clock>>

Calls == {"idle", "slotted",
          "locked",        \* in submit's critical section
          "hooking", "waiting", "back", "refused"}
Phases == {"none", "queued",
           "taken", "held", "working", "leaving", "returned",  \* on a thread
           "settled",     \* future resolved, its callback not yet run
           "withdrawn",   \* future cancelled, its callback not yet run
           "dropped",     \* future resolved before it had a callback
           "released"}    \* the callback has run
Closers == {"open", "closing",
            "draining",    \* in shutdown, under the executor's lock
            "joining", "closed"}

TypeOK ==
    /\ call \in [Jobs -> Calls] /\ job \in [Jobs -> Phases]
    /\ slots \in 0..Slots /\ pending \in Int /\ active \in Int
    /\ registered \subseteq Events
    /\ closer \in Closers /\ cancelling \in Jobs \cup {NoJob}
    /\ queue \in Seq(Jobs) /\ available \subseteq Workers
    /\ worker \in [Jobs -> Workers \cup {NoWorker}]
    /\ got \in [Jobs -> Jobs \cup {NoJob}]
    /\ alive \in [Workers -> BOOLEAN]
    /\ inbox \in [Workers -> Seq(Jobs)] /\ outbox \in [Workers -> Seq(Jobs)]
    /\ signalled \subseteq Events /\ late \subseteq Jobs

Init ==
    /\ call = [j \in Jobs |-> "idle"] /\ job = [j \in Jobs |-> "none"]
    /\ slots = Slots /\ pending = 0 /\ active = 0 /\ registered = {}
    /\ closer = "open" /\ cancelling = NoJob
    /\ queue = <<>> /\ available = Workers
    /\ worker = [j \in Jobs |-> NoWorker] /\ got = [j \in Jobs |-> NoJob]
    /\ alive = [w \in Workers |-> FALSE]
    /\ inbox = [w \in Workers |-> <<>>] /\ outbox = [w \in Workers |-> <<>>]
    /\ signalled = {} /\ late = {}

Free == \A j \in Jobs : call[j] # "locked"     \* the pool's lock
Shut == closer \in {"draining", "joining", "closed"}
Resolved(j) == job[j] \in {"settled", "withdrawn", "dropped", "released"}
Cancelled(j) == CancelEvent[j] \in signalled \/ j \in late
Gone(w) == ~alive[w] /\ outbox[w] = <<>>
OnThread == {j \in Jobs : job[j] \in
    {"taken", "held", "working", "leaving", "returned", "settled"}}

Caller(j, pc) == call' = [call EXCEPT ![j] = pc]
Job(j, phase) == job' = [job EXCEPT ![j] = phase]
Kill(ws) ==
    /\ alive' = [w \in Workers |-> alive[w] /\ w \notin ws]
    /\ inbox' = [w \in Workers |-> IF w \in ws THEN <<>> ELSE inbox[w]]
    /\ outbox' = [w \in Workers |-> IF w \in ws THEN <<>> ELSE outbox[w]]

-----------------------------------------------------------------------------
(* Faulty variants, one per property, that the mutation runs put in place of *)
(* the definition they are named after.  No specification uses them.         *)

\* The permit is taken without asking whether there is one.
AcquireBlindly(j) ==
    /\ call[j] = "idle"
    /\ slots' = slots - 1
    /\ Caller(j, "slotted")
    /\ UNCHANGED <<job, counts, ending, threads, process, clock>>

\* closed is not looked at under the lock.
RegisterUnchecked(j) ==
    /\ call[j] = "slotted"
    /\ Free
    /\ pending' = pending + 1
    /\ registered' = registered \cup {CancelEvent[j]}
    /\ Caller(j, "locked")
    /\ UNCHANGED <<job, slots, active, ending, threads, process, clock>>

\* A callback added to a finished future is forgotten.
HookOnly(j) ==
    /\ call[j] = "hooking"
    /\ Caller(j, "waiting")
    /\ UNCHANGED <<job, book, ending, threads, process, clock>>

\* The deadline is not checked while the answer is awaited.
BrokenUnlessLate(j) ==
    job[j] = "working" /\ (CancelEvent[j] \in signalled \/ Gone(worker[j]))

\* The process of a cancelled or late job is kept for the next one.
AbortKeepingProcess(j) ==
    /\ job[j] = "working"
    /\ Cancelled(j) \/ Gone(worker[j])
    /\ Job(j, "leaving")
    /\ UNCHANGED <<call, book, ending, threads, process, clock>>

\* Only a job that got its answer puts its worker back.
LeaveWithWorker(j) ==
    /\ job[j] = "leaving"
    /\ Free
    /\ active' = active - 1
    /\ available' = IF got[j] = j THEN available \cup {worker[j]} ELSE available
    /\ worker' = [worker EXCEPT ![j] = NoWorker]
    /\ Job(j, "returned")
    /\ UNCHANGED <<call, slots, pending, registered, ending, queue, got, process, clock>>

\* shutdown(wait=False)
JoinAtOnce ==
    /\ closer = "joining"
    /\ closer' = "closed"
    /\ Kill(Workers)
    /\ UNCHANGED <<call, job, book, cancelling, threads, clock>>

-----------------------------------------------------------------------------
(* submit(), in the caller's thread.                                        *)

\* A permit is taken without waiting, or the queue is full.
Acquire(j) ==
    /\ call[j] = "idle"
    /\ Before[j] # NoJob => call[Before[j]] = "back"
    /\ \/ slots > 0 /\ slots' = slots - 1 /\ Caller(j, "slotted")
       \/ slots = 0 /\ UNCHANGED slots /\ Caller(j, "refused")
    /\ UNCHANGED <<job, counts, ending, threads, process, clock>>

\* The payload is not JSON, or too long; or the pool is closed.
Reject(j) ==
    /\ call[j] = "slotted"
    /\ Caller(j, "refused")
    /\ slots' = slots + 1
    /\ UNCHANGED <<job, counts, ending, threads, process, clock>>

\* Under the lock, which is kept until the executor has the job.
Register(j) ==
    /\ call[j] = "slotted"
    /\ Free
    /\ closer = "open"
    /\ pending' = pending + 1
    /\ registered' = registered \cup {CancelEvent[j]}
    /\ Caller(j, "locked")
    /\ UNCHANGED <<job, slots, active, ending, threads, process, clock>>

\* executor.submit, which needs the executor's own lock.
Enqueue(j) ==
    /\ call[j] = "locked"
    /\ closer # "draining"
    /\ IF Shut
       THEN Caller(j, "refused") /\ slots' = slots + 1 /\ UNCHANGED <<job, queue>>
       ELSE /\ queue' = Append(queue, j)
            /\ Job(j, "queued") /\ Caller(j, "hooking") /\ UNCHANGED slots
    /\ UNCHANGED <<counts, ending, loans, got, process, clock>>

\* The callback of the future: the slot is given back.
GiveBack(j) ==
    /\ Free
    /\ pending' = pending - 1
    /\ registered' = registered \ {CancelEvent[j]}
    /\ slots' = slots + 1
    /\ Job(j, "released")
    /\ UNCHANGED active

\* add_done_callback, which runs the callback if the future is already done.
Hook(j) ==
    /\ call[j] = "hooking"
    /\ Caller(j, "waiting")
    /\ IF job[j] = "dropped" THEN GiveBack(j) ELSE UNCHANGED <<job, book>>
    /\ UNCHANGED <<ending, threads, process, clock>>

\* future.result(): whoever waits is woken before the callback runs.
GetResult(j) ==
    /\ call[j] = "waiting"
    /\ Resolved(j)
    /\ Caller(j, "back")
    /\ UNCHANGED <<job, book, ending, threads, process, clock>>

\* compute_async is cancelled.
CancelAsync(j) ==
    /\ j \in Async
    /\ call[j] = "waiting"
    /\ Caller(j, "back")
    /\ signalled' = signalled \cup {CancelEvent[j]}
    /\ IF job[j] = "queued" THEN Job(j, "withdrawn") ELSE UNCHANGED job
    /\ UNCHANGED <<book, ending, threads, process, late>>

\* offload_wait is cancelled; its thread goes on.
Signal(j) ==
    /\ j \notin Async
    /\ CancelEvent[j] \notin signalled
    /\ signalled' = signalled \cup {CancelEvent[j]}
    /\ UNCHANGED <<call, job, book, ending, threads, process, late>>

\* Time passes the deadline of a job whose message is built.
Expire(j) ==
    /\ call[j] \notin {"idle", "slotted", "refused"}
    /\ ~Resolved(j)
    /\ late' = late \cup {j}
    /\ UNCHANGED <<call, job, book, ending, threads, process, signalled>>

-----------------------------------------------------------------------------
(* _run() and exchange(), in a thread of the executor.                      *)

\* A thread takes the next work item; a cancelled one is skipped.
Take ==
    /\ queue # <<>>
    /\ Cardinality(OnThread) < Cardinality(Workers)
    /\ queue' = Tail(queue)
    /\ IF job[Head(queue)] = "queued" THEN Job(Head(queue), "taken") ELSE UNCHANGED job
    /\ UNCHANGED <<call, book, ending, loans, got, process, clock>>

Fetch(j) ==
    /\ job[j] = "taken"
    /\ Free
    /\ \E w \in available :
        /\ worker' = [worker EXCEPT ![j] = w]
        /\ available' = available \ {w}
    /\ active' = active + 1
    /\ Job(j, "held")
    /\ UNCHANGED <<call, slots, pending, registered, ending, queue, got, process, clock>>

\* Cancelled or late before it began, or no process can be started.
GiveUp(j) ==
    /\ job[j] = "held"
    /\ Cancelled(j) \/ ~alive[worker[j]]
    /\ Job(j, "leaving")
    /\ UNCHANGED <<call, book, ending, threads, process, clock>>

\* A process that is gone is replaced; the message is written to it.
Exchange(j) ==
    LET w == worker[j] IN
    /\ job[j] = "held"
    /\ ~Cancelled(j)
    /\ alive' = [alive EXCEPT ![w] = TRUE]
    /\ inbox' = [inbox EXCEPT ![w] = IF alive[w] THEN Append(@, j) ELSE <<j>>]
    /\ outbox' = [outbox EXCEPT ![w] = IF alive[w] THEN @ ELSE <<>>]
    /\ Job(j, "working")
    /\ UNCHANGED <<call, book, ending, threads, clock>>

Read(j) ==
    LET w == worker[j] IN
    /\ job[j] = "working"
    /\ outbox[w] # <<>>
    /\ got' = [got EXCEPT ![j] = Head(outbox[w])]
    /\ outbox' = [outbox EXCEPT ![w] = Tail(@)]
    /\ Job(j, "leaving")
    /\ UNCHANGED <<call, book, ending, queue, loans, alive, inbox, clock>>

\* A job in flight ends without its answer when it is cancelled or late, or when
\* its process is gone.
Broken(j) == job[j] = "working" /\ (Cancelled(j) \/ Gone(worker[j]))

\* The process is closed with the pipes, whatever it was doing.
Abort(j) ==
    /\ Broken(j)
    /\ Kill({worker[j]})
    /\ Job(j, "leaving")
    /\ UNCHANGED <<call, book, ending, threads, clock>>

\* The finally clause.
Leave(j) ==
    /\ job[j] = "leaving"
    /\ Free
    /\ active' = active - 1
    /\ available' = available \cup {worker[j]}
    /\ worker' = [worker EXCEPT ![j] = NoWorker]
    /\ Job(j, "returned")
    /\ UNCHANGED <<call, slots, pending, registered, ending, queue, got, process, clock>>

\* The future gets the result or the exception.
Settle(j) ==
    /\ job[j] = "returned"
    /\ Job(j, IF call[j] = "hooking" THEN "dropped" ELSE "settled")
    /\ UNCHANGED <<call, book, ending, threads, process, clock>>

Release(j) ==
    /\ job[j] \in {"settled", "withdrawn"}
    /\ GiveBack(j)
    /\ cancelling' = IF cancelling = j THEN NoJob ELSE cancelling
    /\ UNCHANGED <<call, closer, threads, process, clock>>

-----------------------------------------------------------------------------
(* The interpreter process of a worker (utils/compute_worker.py).           *)

Answer(w) ==
    /\ alive[w]
    /\ inbox[w] # <<>>
    /\ outbox' = [outbox EXCEPT ![w] = Append(@, Head(inbox[w]))]
    /\ inbox' = [inbox EXCEPT ![w] = Tail(@)]
    /\ UNCHANGED <<call, job, book, ending, threads, alive, clock>>

Die(w) ==
    /\ alive[w]
    /\ alive' = [alive EXCEPT ![w] = FALSE]
    /\ inbox' = [inbox EXCEPT ![w] = <<>>]
    /\ UNCHANGED <<call, job, book, ending, threads, outbox, clock>>

-----------------------------------------------------------------------------
(* close().                                                                 *)

Close ==
    /\ closer = "open"
    /\ Free
    /\ closer' = "closing"
    /\ signalled' = signalled \cup registered
    /\ UNCHANGED <<call, job, book, cancelling, threads, process, late>>

\* executor.shutdown(wait=True, cancel_futures=True)
Shutdown ==
    /\ closer = "closing"
    /\ closer' = "draining"
    /\ UNCHANGED <<call, job, book, cancelling, threads, process, clock>>

Drain ==
    /\ closer = "draining"
    /\ cancelling = NoJob
    /\ queue # <<>>
    /\ queue' = Tail(queue)
    /\ LET j == Head(queue) IN
        \/ job[j] # "queued" /\ UNCHANGED <<job, cancelling>>
        \/ /\ job[j] = "queued" /\ call[j] = "hooking"
           /\ Job(j, "dropped") /\ UNCHANGED cancelling
        \/ /\ job[j] = "queued" /\ call[j] # "hooking"
           /\ Job(j, "withdrawn") /\ cancelling' = j
    /\ UNCHANGED <<call, book, closer, loans, got, process, clock>>

Drained ==
    /\ closer = "draining"
    /\ cancelling = NoJob
    /\ queue = <<>>
    /\ closer' = "joining"
    /\ UNCHANGED <<call, job, book, cancelling, threads, process, clock>>

\* The threads have ended; the workers are closed.
Join ==
    /\ closer = "joining"
    /\ OnThread = {}
    /\ closer' = "closed"
    /\ Kill(Workers)
    /\ UNCHANGED <<call, job, book, cancelling, threads, clock>>

-----------------------------------------------------------------------------
Submission(j) ==
    \/ Reject(j) \/ Register(j) \/ Enqueue(j) \/ Hook(j) \/ GetResult(j)

Execution(j) ==
    \/ Fetch(j) \/ GiveUp(j) \/ Exchange(j) \/ Read(j) \/ Abort(j)
    \/ Leave(j) \/ Settle(j) \/ Release(j)

Closing == Shutdown \/ Drain \/ Drained \/ Join

\* What the threads and the clock will do.  Callers need not call, cancel or
\* close, and a process need not answer.
Progress ==
    \/ \E j \in Jobs : Submission(j) \/ Execution(j) \/ Expire(j)
    \/ Take
    \/ Closing

Environment ==
    \/ \E j \in Jobs : Acquire(j) \/ CancelAsync(j) \/ Signal(j)
    \/ \E w \in Workers : Answer(w) \/ Die(w)
    \/ Close

Next == Progress \/ Environment

Spec == Init /\ [][Next]_vars /\ WF_vars(Progress)

-----------------------------------------------------------------------------
\* The jobs that hold a permit of the semaphore: until the callback has run.
Holders ==
    {j \in Jobs : \/ call[j] \in {"slotted", "locked", "hooking"}
                  \/ job[j] \notin {"none", "dropped", "released"}}

\* Every permit is with one job in flight or free, whichever of the caller, a
\* thread, a cancelling caller or close() ended the job; pending counts the same
\* jobs, and status() never reports a negative number of queued ones.
SlotsAreAccounted ==
    /\ slots + Cardinality(Holders) = Slots
    /\ pending = Cardinality({j \in Holders : call[j] # "slotted"})
    /\ active <= pending

\* A job is given the answer to its own message, though processes are reused
\* after jobs that were cancelled, late or failed.
OwnAnswer == \A j \in Jobs : got[j] \in {NoJob, j}

\* A thread that has a job finds a worker: available.get() never waits.
WorkerInReserve == \A j \in Jobs : job[j] = "taken" => available # {}

\* The callback of a future takes the pool's lock under the executor's, submit
\* takes the executor's under the pool's: they never meet, and no accepted job
\* reaches an executor that is shut down.
SubmitMissesShutdown == ~Free => ~Shut

\* Once close() has returned, every job is answered and no process is left.
ClosedIsQuiet ==
    closer = "closed" =>
        /\ \A j \in Jobs : job[j] # "none" => Resolved(j)
        /\ \A w \in Workers : ~alive[w]

\* When close() waits for the threads, a job they still run is cancelled, unless
\* its event is shared: nothing but its deadline would end it.
OnProcess == {j \in Jobs : job[j] \in {"taken", "held", "working"}}
Sharing(j) == \E k \in Jobs \ {j} : CancelEvent[k] = CancelEvent[j]
CloseCancelsOwnEvents ==
    closer = "joining" => \A j \in OnProcess : Sharing(j) \/ CancelEvent[j] \in signalled

\* The same of every job, as tests/unit/test_compute_pool.py has it in the name of
\* a test: "shutdown_cancels_waiters".
CloseCancelsAll ==
    closer = "joining" => \A j \in OnProcess : CancelEvent[j] \in signalled

\* What the pool can still do for a job, and for all: the guards of its steps.  A
\* process that does not answer is left when the deadline has passed.
JobGoesOn(j) ==
    \/ call[j] = "slotted"
    \/ call[j] = "locked" /\ closer # "draining"
    \/ call[j] = "hooking" /\ (job[j] = "dropped" => Free)
    \/ call[j] = "waiting" /\ Resolved(j)
    \/ job[j] = "taken" /\ Free /\ available # {}
    \/ job[j] \in {"held", "working", "returned"}
    \/ job[j] \in {"leaving", "settled", "withdrawn"} /\ Free

PoolGoesOn ==
    \/ \E j \in Jobs : JobGoesOn(j)
    \/ queue # <<>> /\ Cardinality(OnThread) < Cardinality(Workers)
    \/ closer = "closing"
    \/ closer = "draining" /\ cancelling = NoJob
    \/ closer = "joining" /\ OnThread = {}

Advances ==
    \/ \E j \in Jobs : Submission(j) \/ Execution(j) \/ (job[j] = "working" /\ Expire(j))
    \/ Take \/ Closing

GuardsAdvance == PoolGoesOn <=> ENABLED Advances

Unfinished ==
    \/ Holders # {}
    \/ \E j \in Jobs : call[j] = "waiting"
    \/ closer \notin {"open", "closed"}

\* The two locks, the semaphore, the threads, the workers and close() never block one
\* another: while a job holds a permit, a caller waits or close() has not returned,
\* one of them can take its next step.
NobodyBlocksAll == Unfinished => PoolGoesOn

\* How many steps of its own are left to a job, its caller's and its thread's.
CallLeft(c) ==
    CASE c = "idle" -> 5 [] c = "slotted" -> 4 [] c = "locked" -> 3
      [] c = "hooking" -> 2 [] c = "waiting" -> 1 [] c \in {"back", "refused"} -> 0

PhaseLeft(p) ==
    CASE p = "none" -> 8 [] p = "queued" -> 7 [] p = "taken" -> 6 [] p = "held" -> 5
      [] p = "working" -> 4 [] p = "leaving" -> 3 [] p = "returned" -> 2
      [] p \in {"settled", "withdrawn", "dropped"} -> 1 [] p = "released" -> 0

JobLeft(j) == CallLeft(call[j]) + PhaseLeft(job[j])

\* Nothing takes a job back: cancellations, deadlines, lost processes and close()
\* leave it fewer steps, as does every step of its own.
JobsOnlyAdvance ==
    [][\A j \in Jobs : /\ JobLeft(j)' <= JobLeft(j)
                       /\ Submission(j) \/ Execution(j) => JobLeft(j)' < JobLeft(j)]_vars

\* Every caller of submit gets an answer or a refusal.
EveryCallReturns ==
    \A j \in Jobs : call[j] # "idle" ~> call[j] \in {"back", "refused"}

\* close() returns, also when no worker ever answers.
CloseReturns == closer # "open" ~> closer = "closed"
=============================================================================
