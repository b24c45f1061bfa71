SPECIFICATION Spec
CONSTANT Budgets <- Errors
INVARIANT SourceIsRight
