SPECIFICATION Spec
CONSTANT Budgets <- Scenarios
INVARIANTS ConfirmedIsHeld LatchStopsRuns LatchIsDurable
PROPERTIES ReleasesOnce EstopReachesController HandshakeEnds
