SPECIFICATION Spec
CONSTANTS
    hook = hook
    objection = objection
    rumour = rumour
    Keys = {hook, objection, rumour}
    Info <- MCInfo
    MaxKey = 8
    MaxFacts = 5
    MaxPoints = 4
    MaxRisks = 8
    MaxText = 400
    Admins = {a1}
    Workers = {w1, w2}
    NoWorker = NoWorker
    Results <- MCResults
    Ageing = {{hook}, {objection}}
    MaxRuns = 2
    MaxAttempts = 3
    MaxStalled = 1
    MaxTurns = 1
    MaxMishaps = 1
INVARIANTS TypeOK PackageIsGrounded
PROPERTIES ResearchIsPermitted QueuedRunEnds
CHECK_DEADLOCK FALSE
