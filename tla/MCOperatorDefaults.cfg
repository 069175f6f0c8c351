SPECIFICATION Spec
CONSTANTS
    u1 = u1
    u2 = u2
    c1 = c1
    c2 = c2
    brief = brief
    full = full
    None = None
    Garbled = Garbled
    Blank = Blank
    User = {u1, u2}
    Client = {c1, c2}
    Identity <- Identities
    Size <- Sizes
    MaxValuations = 1
    MaxRestarts = 1
SYMMETRY Symmetry
INVARIANT TypeOK
INVARIANT AnswerIsOwn
INVARIANT LoneWritesReadable
