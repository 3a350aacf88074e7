CONSTANTS
    p1 = p1
    p2 = p2
    research_agent = research_agent
    ai_sdr = ai_sdr
    Procs <- OneRequest
    Agents <- BothAgents
    Window = 6
    MaxActions = 6
    MaxFaults = 1
SPECIFICATION Spec
SYMMETRY Symmetry
INVARIANTS
    TypeOK
PROPERTIES
    UndoKeepsNewerIntent
    ImplementsContract
CHECK_DEADLOCK FALSE
