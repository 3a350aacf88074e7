CONSTANTS
    p1 = p1
    p2 = p2
    research_agent = research_agent
    ai_sdr = ai_sdr
    Procs <- OneRequest
    Agents <- OneAgent
    Window = 2
    MaxActions = 5
    MaxFaults = 0
SPECIFICATION Spec
PROPERTY NewerIntentIsSafe
CHECK_DEADLOCK FALSE
