SPECIFICATION SpecInPlace
CONSTANTS
    JE = {j1}
    LineNo = {n1, n2}
    HeaderRows <- WideHeaders
    LineRows <- WideLines
    NULL = NULL
    NoRow = NoRow
    Gone = Gone
    MaxPostings = 1
SYMMETRY LineSymmetry
INVARIANTS
    TypeOK
    LinesHaveHeader
    TotalsMatchLines
PROPERTIES
    PostedFrozen
    PostingBalanced
    HeaderLifecycle
CHECK_DEADLOCK FALSE
