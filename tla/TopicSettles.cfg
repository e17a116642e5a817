\* A single-release topic with replacement, three disturbances.
SPECIFICATION LiveSpec
CONSTANTS
    Stamps = {s1, s2, s3, s4}
    Unset = Unset
    None = None
    Clients = {"takes", "raises"}
    Modes = {"replace"}
    MaxRelease = 2
    Episodic = FALSE
    Spaced = FALSE
    MaxPerTick = 1
    Ops = {"recheck", "reset", "pause", "crash"}
    MaxBudget = 3
    Infohashes <- MCInfohashes
    Torrent <- Distinct
PROPERTIES EventuallyDelivered DueIsChecked ErrorsClear
