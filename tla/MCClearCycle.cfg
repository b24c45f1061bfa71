SPECIFICATION Spec
CONSTANTS
  Controls = {"stop", "safe", "gui", "plc"}
  MaxControls = 2
  MaxResumes = 1
INVARIANTS
  StartedOnce
  DoneIsClear
  SupervisedMotion
PROPERTIES
  StopWins
  StopEndsReplay
  ClearEnds
CHECK_DEADLOCK FALSE
