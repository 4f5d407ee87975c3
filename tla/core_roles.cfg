SPECIFICATION Spec
CONSTANTS
    None = None
    N = 2
    Upstream <- Chain
    Roles = 2
    RoleLimit = 4
    TokenLimit = 3
    QaTokenLimit = 4
    Mode = "HARD"
    MaxRoles = 5
    MaxRevisions = 1
    Events = {"CRASH", "ROLE", "CLAIM", "RECONCILE", "BLOCKED", "EXPIRE", "LOCAL"}
INVARIANTS
    RefAgreesWithLog DependenciesInBase CandidateIntegrable NoBlindRetry
    DeliveredComplete
PROPERTIES
    RolesAreJustified ImplementsDelivery
