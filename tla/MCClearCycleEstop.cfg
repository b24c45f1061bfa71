SPECIFICATION Spec
CONSTANTS
  Controls = {"gui"}
  MaxControls = 1
  MaxResumes = 0
INVARIANT EstopIsFinal
CHECK_DEADLOCK FALSE
