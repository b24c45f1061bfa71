SPECIFICATION Spec
CONSTANT Budgets <- Restarts
INVARIANT ConfirmedIsHeld
