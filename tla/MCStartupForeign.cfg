SPECIFICATION Spec
CONSTANTS
    u1 = u1
    u2 = u2
    None = None
    User = {u1, u2}
    MaxLegacy = 1
    MaxRows = 2
    MaxFaults = 1
SYMMETRY Symmetry
PROPERTY ForeignUntouched
