SPECIFICATION Spec
CONSTANTS
  Controls = {"stop", "safe", "gui", "plc"}
  MaxControls = 2
  MaxResumes = 1
INVARIANTS
    ClearTypeOK
CHECK_DEADLOCK FALSE
