SPECIFICATION Spec
CONSTANTS
    JE = {j1, j2}
    LineNo = {n1, n2}
    HeaderRows <- SlimHeaders
    LineRows <- SlimLines
    NULL = NULL
    NoRow = NoRow
    Gone = Gone
    MaxPostings = 0
SYMMETRY EntryLineSymmetry
PROPERTIES
    PostedFrozen
CHECK_DEADLOCK FALSE
