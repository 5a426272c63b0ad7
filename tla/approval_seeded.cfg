SPECIFICATION Spec
CONSTANTS
    Doc = {d1}
    Tx = {t1, t2}
    User = {u1}
    Label <- Seeded
    NULL = NULL
    NoRow = NoRow
    Gone = Gone
    Same = Same
    MaxHistory = 1
SYMMETRY TxSymmetry
INVARIANTS
    ApprovalsNamed
CHECK_DEADLOCK FALSE
