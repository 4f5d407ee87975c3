SPECIFICATION FairSpec
CONSTANTS
    Dirty = Dirty
    MaxVersions = 2
    Slots = 1
    Contexts = {"head"}
    Events = {"SHUTDOWN", "CRASH", "PROJECT", "DIRECT"}
    Intakes <- JobIntakes
    Preferences <- NoPreferences
INVARIANTS
    RunsReadable RunningHasRunner
PROPERTIES
    NeverCutShort QueuedIsPlanned StopsPlanning
CHECK_DEADLOCK FALSE
