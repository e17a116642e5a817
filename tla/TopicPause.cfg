\* A pause that lands while the topic is being checked.
SPECIFICATION Spec
CONSTANTS
    Stamps = {s1, s2, s3, s4}
    Unset = Unset
    None = None
    Clients = {"takes", "raises"}
    Modes = {"download"}
    MaxRelease = 1
    Episodic = FALSE
    Spaced = FALSE
    MaxPerTick = 2
    Ops = {"pause"}
    Infohashes <- MCInfohashes
    Torrent <- Distinct
SYMMETRY StampSymmetry
PROPERTIES PausedStaysPaused
