SPECIFICATION Spec
CONSTANTS
    software = software
    consumer = consumer
    small = small
    eu = eu
    migrationTrigger = migrationTrigger
    crm = crm
    migrationNews = migrationNews
    hiringNews = hiringNews
    freezeNews = freezeNews
    Texts <- MCTexts
    NoText = NoText
    Includes <- MCIncludes
    NumberOf <- MCNumberOf
    Kinds <- MCKinds
    About <- MCAbout
    Keywords <- MCKeywords
    Admins = {a1}
    Workers = {w1}
    NoWorker = NoWorker
    Brain <- MCBrain
    Candidates <- MCCandidates
    Batches <- MCBatches
    Fixtures <- MCFixtures
    Days = {0, 40}
    MaxJobs = 1
    MaxRequests = 2
    MaxAttempts = 3
    MaxStalled = 1
    MaxTurns = 1
    MaxMishaps = 0
INVARIANTS ConflictLowersConfidence
CHECK_DEADLOCK FALSE
