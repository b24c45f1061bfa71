SPECIFICATION Spec
CONSTANTS
  Printers = {1}
  Jobs = {"j1", "j2"}
  Monitors = {"gui"}
  Profiles = 1
INVARIANTS
  FaultIsBlocking
  HealthTellsActive
PROPERTIES
  FaultClears
