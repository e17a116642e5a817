SPECIFICATION LiveSpec
CONSTANTS
    Urls = {"u", "m"}
    PageOf <- MCPageOf
    Gives <- MCGives
    Trackers = {"t", "o"}
    TrackerOf <- MCTrackerOf
    Clients = {"c"}
    None = None
    Forms <- MCForms
    Defaults <- MCDefaults
    Requests <- MCRequests
    MaxGrabs = 3
    MaxOps = 3
    MaxFaults = 1
INVARIANTS PassedIsHandled NewestVariant
PROPERTIES FolderIsTheUsers EventuallyImported
CHECK_DEADLOCK FALSE
