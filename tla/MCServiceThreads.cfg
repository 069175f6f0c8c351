SPECIFICATION Spec
CONSTANTS
    r1 = r1
    r2 = r2
    r3 = r3
    poll = poll
    None = None
    Request = {r1, r2, r3}
    Wants <- Mixed
    Poll = poll
    Threads = 2
    Connections = 1
    MaxParts = 2
INVARIANT TypeOK
INVARIANT StuckOnlyForConnections
INVARIANT OcrHoldsNoConnection
PROPERTY EveryoneAnswered
PROPERTY PollingGoesOn
