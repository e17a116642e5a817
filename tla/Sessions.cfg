SPECIFICATION Spec
CONSTANTS
    Workers = {"w1", "w2"}
    User = "user"
    Accounts = {"a", "b"}
    MaxSession = 3
    MaxRelease = 3
    Content <- MCContent
    MaxFaults = 3
    Scenarios <- MCScenarios
    None = None
INVARIANTS OwnDeadlineOnly ExpiryToldOnce RecordedIsDelivered SignedInAsOwner
PROPERTIES NoNeedlessLogin TokenIsTheRelease
