SPECIFICATION Spec
CONSTANTS
    Handlers = {h1, h2}
    Tenants = {public, acme}
    PublicTenant = public
    NoTenant = NoTenant
    Costs = {0, 1, 2}
    GlobalInFlightTokens = 3
    TenantRatePerSecond = 1
    TenantBurstTokens = 2
    MaxClock = 2
INVARIANTS
    TypeOK
    Accounting
    NoUnderflow
    RateBound
PROPERTIES
    EntitlementKept
    BudgetRefinement
