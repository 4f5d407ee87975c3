SPECIFICATION Spec
CONSTANTS
    Dirty = Dirty
    MaxVersions = 2
    Slots = 1
    Contexts = {"head"}
    Events = {}
    Intakes <- OnlyException
    Preferences <- NoPreferences
INVARIANTS
    ExceptionNotInherited
CHECK_DEADLOCK FALSE
