CONSTANTS
    p1 = p1
    p2 = p2
    e1 = e1
    e2 = e2
    NoEvent = NoEvent
    Procs <- TwoProcs
    Events <- OneEvent
    Classification <- PositiveReply
    Purposes <- ThreePurposes
    Requests <- SendAndSync
    HasTargetEmail = TRUE
    HasTargetPerson = TRUE
    MaxVersion = 1
    MaxBookings = 0
    MaxFaults = 1
    MaxRestarts = 1
SPECIFICATION Spec
INVARIANTS
    TypeOK
    OneEmailPerProcessLife
    NoteOnlyForSentEmail
    CompletedSyncIsWhole
SYMMETRY Interchangeable
