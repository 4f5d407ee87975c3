SPECIFICATION Spec
CONSTANTS
    Dirty = Dirty
    MaxVersions = 2
    Slots = 1
    Contexts = {"head"}
    Events = {"CRASH", "PAUSE", "SUBTASK", "CONTEXT", "EXPIRE", "PROVIDER", "OUTPUT", "STORAGE"}
    Intakes <- AllIntakes
    Preferences <- AllPreferences
INVARIANTS
    OneAuthority FreshApproval HardBudget
PROPERTIES
    VersionsFrozen ImplementsAuthority
