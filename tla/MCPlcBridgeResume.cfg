SPECIFICATION Spec
CONSTANT Budgets <- OneStop
PROPERTY ResumeNeedsCheckpoint
