SPECIFICATION Spec
CONSTANTS
    Tx = {t1, t2}
    JE = {j1, j2}
    LineNo = {n1}
    HeaderRows <- PlainHeaders
    LineRows <- PlainLines
    NULL = NULL
    NoRow = NoRow
    Gone = Gone
    Same = Same
    MaxPostings = 1
SYMMETRY TxEntrySymmetry
INVARIANTS
    TypeOK
    LinesHaveHeader
    
PROPERTIES
    HeaderLifecycle
CHECK_DEADLOCK FALSE
