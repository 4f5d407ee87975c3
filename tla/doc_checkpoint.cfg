SPECIFICATION Spec
CONSTANTS
    None = None
    N = 2
    Upstream <- Chain
    Roles = 2
    RoleLimit = 4
    TokenLimit = 9
    QaTokenLimit = 9
    Mode = "HARD"
    MaxRoles = 5
    MaxRevisions = 0
    Events = {"CRASH"}
INVARIANTS
    CheckpointResumes
