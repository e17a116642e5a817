\* A single-release tracker and a topic that replaces the previous version.
SPECIFICATION Spec
CONSTANTS
    Stamps = {s1, s2, s3, s4}
    Unset = Unset
    None = None
    Clients = {"takes"}
    Modes = {"replace"}
    MaxRelease = 2
    Episodic = FALSE
    Spaced = FALSE
    MaxPerTick = 2
    Ops = {"recheck", "reset", "pause", "edit"}
    Infohashes <- MCInfohashes
    Torrent <- Distinct
SYMMETRY StampSymmetry
INVARIANTS TypeOK OneCheckAtATime CopyKept
PROPERTIES StaleCheckNeverWrites NoSubmissionAfterReset HashMeansDelivered
