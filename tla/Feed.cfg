\* Two emitters, two deliveries of one torrent; a queue and a replay of one.
SPECIFICATION LiveSpec
CONSTANTS
    Workers = {w}
    Watcher = Watcher
    WorkerEvents = {"release.found"}
    d1 = d1
    d2 = d2
    Deliveries <- MCDeliveries
    HashOf <- MCHashOf
    Done = 1
    Buffer = 1
    Limit = 1
    MaxId = 1
    MaxRowIds = 1
    MaxFaults = 2
INVARIANTS NothingMissed AnnouncedOnce
PROPERTIES FinishedIsMarked EveryEventArrives
CHECK_DEADLOCK FALSE
