SPECIFICATION SavedSpec
CONSTANTS
    u1 = u1
    u2 = u2
    a = a
    b = b
    c1 = c1
    c2 = c2
    None = None
    User = {u1, u2}
    Value = {a, b}
    Client = {c1, c2}
    MaxRows = 2
    PageSize = 2
    MaxListed = 5
SYMMETRY Symmetry
INVARIANT TypeOK
INVARIANT FlagTruthfulUnlessRaced
INVARIANT ListShowsAll
PROPERTY OwnersOnly
CHECK_DEADLOCK FALSE
