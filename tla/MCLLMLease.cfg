SPECIFICATION Spec
CONSTANTS
    guardian = guardian
    stage1 = stage1
    stage2 = stage2
    chat = chat
    background = background
    NoCall = NoCall
    Calls <- MCCalls
    Priority <- MCPriority
    Patient <- MCPatient
INVARIANTS
    OneHolder
    NoLostWakeup
PROPERTIES
    ServedUnlessUrgent
