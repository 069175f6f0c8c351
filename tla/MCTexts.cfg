SPECIFICATION TextsSpec
CONSTANTS
    Vocabulary <- Spelt
    Number <- Numbers
    Filler <- Fillers
    Dates <- KnownDates
    Speeches <- Speech
    NoValue = NoValue
    Reports <- AllReports
    ReportWords <- AllWords
    NoCell = NoCell
    WordWidth = 10
    WordGap = 3
    Pages <- AllPages
    PageWords <- PrintedWords
    NoLine = NoLine
    Registers <- AllRegisters
    RegisterLines <- AllLines
    NoColumn = NoColumn
    SaleWords <- SomeWords
    Months <- SomeMonths
    SalesTables <- AllTables
    None = None
    BadEscapes <- Backslashed
    Expansions <- Escaped
    Controls <- Unprintable
    Requests <- AllRequests
INVARIANT Understood
INVARIANT EvidenceIsSaid
INVARIANT ValueIsBelow
INVARIANT CellsArePrinted
INVARIANT SalesArePrinted
INVARIANT ReadsAsReviewed
INVARIANT AnswerIsWhole
CHECK_DEADLOCK FALSE
