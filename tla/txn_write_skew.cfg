SPECIFICATION Spec
CONSTANTS
    Tx = {t1, t2}
    JE = {j1}
    LineNo = {n1, n2}
    HeaderRows <- MCHeaders
    LineRows <- MCLines
    NULL = NULL
    NoRow = NoRow
    Gone = Gone
    Same = Same
    MaxPostings = 0
SYMMETRY TxLineSymmetry
INVARIANTS
    TotalsMatchLines
CHECK_DEADLOCK FALSE
