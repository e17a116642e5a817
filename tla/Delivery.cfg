\* Three releases, two faults of any kind.
SPECIFICATION Spec
CONSTANTS
    Files = {"a", "b", "c"}
    FolderNames = {"n1", "n2", "n3"}
    NoRoot = NoRoot
    None = None
    Unknown = Unknown
    MaxRelease = 3
    Manifest <- MCManifest
    TrackerName <- MCTrackerName
    CustomName = "n1"
    Scenarios <- MCScenarios
    Faults = {"call", "read", "record", "crash", "user", "discard"}
    MaxFaults = 2
CHECK_DEADLOCK FALSE
INVARIANTS CheckedBeforeLeft PausedIsTold
PROPERTIES Implements RenamesOnlyEmpty
