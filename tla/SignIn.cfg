SPECIFICATION LiveSpec
CONSTANTS
    Tabs = {"t1", "t2"}
    BrowserOf <- OneBrowser
    RequestsOf <- MCRequests
    MaxPairs = 2
    MaxFaults = 1
INVARIANTS StaysSignedIn
PROPERTIES RequestsEnd
CHECK_DEADLOCK FALSE
