CONSTANTS
    p1 = p1
    p2 = p2
    e1 = e1
    e2 = e2
    NoEvent = NoEvent
    Procs <- TwoProcs
    Events <- OneEvent
    Classification <- PositiveReply
    Purposes <- ThreePurposes
    Requests <- SendAndStopped
    HasTargetEmail = TRUE
    HasTargetPerson = TRUE
    MaxVersion = 1
    MaxBookings = 0
    MaxFaults = 0
    MaxRestarts = 0
SPECIFICATION Spec
INVARIANT SentNeverFails
