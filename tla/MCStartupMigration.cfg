SPECIFICATION FairSpec
CONSTANTS
    u1 = u1
    u2 = u2
    None = None
    User = {u1, u2}
    MaxLegacy = 1
    MaxRows = 2
    MaxFaults = 2
INVARIANT TypeOK
INVARIANT PollingOnFullSchema
PROPERTY BootSparesForeign
PROPERTY OwnersKept
PROPERTY MigrationCompletes
