CONSTANTS
    p1 = p1
    p2 = p2
    research_agent = research_agent
    ai_sdr = ai_sdr
    Procs <- TwoRequests
    Agents <- BothAgents
    Window = 3
    MaxActions = 5
    MaxFaults = 1
SPECIFICATION Spec
SYMMETRY Symmetry
INVARIANTS
    TypeOK
PROPERTIES
    UndoKeepsNewerIntent
    ImplementsContract
CHECK_DEADLOCK FALSE
