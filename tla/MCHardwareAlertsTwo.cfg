SPECIFICATION Spec
CONSTANTS
  Printers = {1, 2}
  Jobs = {"j1"}
  Monitors = {"gui"}
  Profiles = 1
INVARIANTS
  AlertsTypeOK
  FaultIsBlocking
  HealthTellsActive
