SPECIFICATION Spec
CONSTANTS
    acme = acme
    bolt = bolt
    acmeIo = acmeIo
    boltIo = boltIo
    boltCom = boltCom
    Acme = Acme
    Bolt = Bolt
    Admins = {a1, a2}
    Workers = {w1}
    NoWorker = NoWorker
    NoDomain = NoDomain
    Prospects <- MCProspects
    Domain <- MCDomain
    Site <- MCSite
    Name <- MCName
    Results <- BoltFound
    UserCompanies <- MCUserCompanies
    MaxAttempts = 2
    MaxStalled = 1
    MaxMishaps = 1
INVARIANTS CreatesAtMostOnce
CHECK_DEADLOCK FALSE
