SPECIFICATION Spec
CONSTANTS
    Tenant = {r1, r2}
    Run = {r1, r2}
    Slug = {acme, empty}
    WellFormed = {acme}
    NULL = NULL
    NoRow = NoRow
    Plans <- ManyModules
    MaxLog = 2
SYMMETRY RunSymmetry
INVARIANTS
    TypeOK
    
    
PROPERTIES
    SettledStays
    
CHECK_DEADLOCK FALSE
