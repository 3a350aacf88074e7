SPECIFICATION Spec
CONSTANTS
    acme = acme
    bolt = bolt
    acmeIo = acmeIo
    boltIo = boltIo
    boltCom = boltCom
    Acme = Acme
    Bolt = Bolt
    Admins = {a1, a2}
    Workers = {w1}
    NoWorker = NoWorker
    NoDomain = NoDomain
    Prospects <- MCProspects
    Domain <- MCDomain
    Site <- MCSite
    Name <- MCName
    Results <- AcmeFound
    UserCompanies <- MCUserCompanies
    MaxAttempts = 2
    MaxStalled = 1
    MaxMishaps = 2
INVARIANTS TypeOK NoSecondCompany WrittenWasApproved CreatedHasItsCompany
PROPERTIES DecisionStands KnownCompanyIsReused QueuedRunCompletes
CHECK_DEADLOCK FALSE
