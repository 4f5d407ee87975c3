SPECIFICATION FairSpec
CONSTANTS
    None = None
    N = 2
    Upstream <- Independent
    Roles = 2
    RoleLimit = 4
    TokenLimit = 9
    QaTokenLimit = 9
    Mode = "HARD"
    MaxRoles = 4
    MaxRevisions = 0
    Events = {"SUBTASK_LIFECYCLE", "TASK_LIFECYCLE", "PAUSE", "SHUTDOWN", "WORKER", "CRASH"}
INVARIANTS
    OneWriter RunningHasWorker
PROPERTIES
    WorkerSettles Drains UndisturbedDelivers
CHECK_DEADLOCK FALSE
