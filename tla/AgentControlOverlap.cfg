CONSTANTS
    p1 = p1
    p2 = p2
    research_agent = research_agent
    ai_sdr = ai_sdr
    Procs <- TwoRequests
    Agents <- OneAgent
    Window = 6
    MaxActions = 4
    MaxFaults = 0
SPECIFICATION Spec
PROPERTY NewerIntentIsSafe
CHECK_DEADLOCK FALSE
