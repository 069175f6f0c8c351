SPECIFICATION Spec
CONSTANTS
    Documents <- MCDocuments
    MinDrawings = 2
    None = None
INVARIANTS
    TypeOK
    OcrNeverConfident
    ShapeAgrees
    DecideForetells
    NoTextHonest
PROPERTIES
    Answered
CHECK_DEADLOCK FALSE
