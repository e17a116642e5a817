\* A per-episode tracker, whose topic the user may switch to notify-only.
SPECIFICATION Spec
CONSTANTS
    Stamps = {s1, s2, s3, s4}
    Unset = Unset
    None = None
    Clients = {"takes", "raises"}
    Modes = {"download", "notify"}
    MaxRelease = 2
    Episodic = TRUE
    Spaced = TRUE
    MaxPerTick = 1
    Ops = {"recheck", "reset", "delete", "crash"}
    Infohashes <- MCInfohashes
    Torrent <- Distinct
SYMMETRY StampSymmetry
INVARIANTS NoStrandedEpisode
PROPERTIES NoDoubleMark AdvanceIsVisible
