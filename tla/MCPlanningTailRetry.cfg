SPECIFICATION TailSpec
CONSTANTS
    design = design
    vision = vision
    manipulation = manipulation
    equipment = equipment
    guardian = guardian
    h1 = h1
    s1 = s1
    Stages <- MCStages
    GUARDIAN = guardian
    VISION = vision
    DESIGN = design
    MANIPULATION = manipulation
    EQUIPMENT = equipment
    TailStart = vision
    IDLE = IDLE
    COMPLETE = COMPLETE
    ERROR = ERROR
    First = design
    Successors <- MCSuccessors
    Physical <- MCPhysical
    Fresh <- MCFresh
    NeedsApproval = {}
    Unstorable = {guardian}
    Supervised = TRUE
    MaxRetry = 1
    MaxLoops = 0
    SeriesCycle = 1
    NoHandoff = NoHandoff
    Hybrid = TRUE
    LastCycle = FALSE
    Transfers = {h1}
    Sessions = {s1}
    Requests = {h1}
    NoTransfer = NoTransfer
    NoSession = NoSession
INVARIANTS
    ResultHoldsTheRun
    EquipmentAfterTransfer
    CyclesNotAttempts
CHECK_DEADLOCK FALSE
