SPECIFICATION Spec
CONSTANTS
    Doc = {d1}
    Tx = {t1, t2}
    User = {u1}
    Label <- Documented
    NULL = NULL
    NoRow = NoRow
    Gone = Gone
    Same = Same
    MaxHistory = 4
SYMMETRY TxSymmetry
INVARIANTS
    TypeOK
    
PROPERTIES
    NoSilentChange
CHECK_DEADLOCK FALSE
