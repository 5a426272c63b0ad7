SPECIFICATION SpecScript
CONSTANTS
    Tenant = {r1, r2}
    Run = {r1, r2}
    Slug = {acme}
    WellFormed = {acme}
    NULL = NULL
    NoRow = NoRow
    Plans <- OneModule
    MaxLog = 2
SYMMETRY RunSymmetry
INVARIANTS
    SuccessMeansSchema
CHECK_DEADLOCK FALSE
