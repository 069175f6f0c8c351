SPECIFICATION Spec
CONSTANTS
    u1 = u1
    c1 = c1
    c2 = c2
    brief = brief
    full = full
    None = None
    Garbled = Garbled
    Blank = Blank
    User = {u1}
    Client = {c1, c2}
    Identity <- Identities
    Size <- Sizes
    MaxValuations = 1
    MaxRestarts = 0
SYMMETRY Symmetry
PROPERTY SaveNeverOverwritten
