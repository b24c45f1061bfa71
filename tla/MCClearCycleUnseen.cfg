SPECIFICATION Spec
CONSTANTS
  Controls = {}
  MaxControls = 0
  MaxResumes = 0
INVARIANT GivenUpIsStopped
CHECK_DEADLOCK FALSE
