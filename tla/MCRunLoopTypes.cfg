SPECIFICATION Spec
CONSTANTS
    design = design
    vision = vision
    equipment = equipment
    guardian = guardian
    Stages <- MCStages
    GUARDIAN = guardian
    VISION = vision
    IDLE = IDLE
    COMPLETE = COMPLETE
    ERROR = ERROR
    First = design
    Successors <- MCSuccessors
    Physical <- MCPhysical
    Fresh <- MCFresh
    NeedsApproval <- MCNeedsApproval
    Unstorable = {equipment, guardian}
    Supervised = TRUE
    MaxRetry = 1
    MaxLoops = 1
    SeriesCycle = 0
    NoHandoff = NoHandoff
INVARIANTS
    TypeOK
PROPERTIES
    StopNearsEnd
CHECK_DEADLOCK FALSE
