SPECIFICATION PipelineSpec
CONSTANTS
    r1 = r1
    r2 = r2
    t1 = t1
    id1 = id1
    Request = {r1, r2}
    Tenant <- MCTenant
    Environments <- MCEnvironments
    Token <- MCToken
    MayAsk <- MCMayAsk
    InvoiceId = {id1}
    Unset = Unset
    Blank = Blank
    NilTenant = NilTenant
    Malformed = Malformed
    Nothing = Nothing
    NoToken = NoToken
    MaxConns = 1
    MaxChanges = 1
INVARIANT
    DocumentedRoutesServed
CHECK_DEADLOCK FALSE
