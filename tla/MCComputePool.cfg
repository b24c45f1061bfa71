SPECIFICATION Spec
CONSTANTS
    fit = fit
    project = project
    mesh = mesh
    NoJob = NoJob
    NoWorker = NoWorker
    Jobs <- MCJobs
    Workers = {w1}
    Events <- MCJobs
    CancelEvent <- MCCancelEvent
    Before <- MCBefore
    Async = {mesh}
INVARIANTS
    SlotsAreAccounted
    ClosedIsQuiet
    OwnAnswer
    NobodyBlocksAll
PROPERTIES
    EveryCallReturns
CHECK_DEADLOCK FALSE
