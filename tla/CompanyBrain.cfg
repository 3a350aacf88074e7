SPECIFICATION Spec
CONSTANTS
    messaging = messaging
    personas = personas
    p1 = p1
    p2 = p2
    site = site
    a1 = a1
    a2 = a2
    Admins = {a1, a2}
    Asks <- MCAsks
    Workers = {w1}
    NoWorker = NoWorker
    Scalars = {messaging}
    Lists = {personas}
    Items = {p1, p2}
    ListOf <- MCListOf
    Contents = {site}
    Finds <- MCFinds
    Edits <- MCEdits
    MaxEdits = 2
    MaxAnalyses = 2
    MaxAttempts = 2
    MaxStalled = 1
    MaxMishaps = 1
INVARIANTS TypeOK HumanWordStands ProtectionSurvives ReadyShowsSources AnalyzingHasJob
CHECK_DEADLOCK FALSE
PROPERTIES AnalyzingEnds
