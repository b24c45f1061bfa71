SPECIFICATION Spec
CONSTANT Budgets <- Scenarios
INVARIANTS
    PlcTypeOK
PROPERTIES
    AcknowledgesOnlyLatched
