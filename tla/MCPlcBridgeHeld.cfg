SPECIFICATION Spec
CONSTANT Budgets <- Errors
INVARIANT HeldIsDurable
