SPECIFICATION Spec
CONSTANTS
    fit = fit
    project = project
    mesh = mesh
    NoJob = NoJob
    NoWorker = NoWorker
    Jobs <- MCJobs
    Workers = {w1}
    Events <- MCJobs
    CancelEvent <- MCCancelEvent
    Before <- MCBefore
    Async = {mesh}
INVARIANTS
    TypeOK
    CloseCancelsOwnEvents
    SubmitMissesShutdown
    WorkerInReserve
    GuardsAdvance
PROPERTIES
    CloseReturns
    JobsOnlyAdvance
CHECK_DEADLOCK FALSE
