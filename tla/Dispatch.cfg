\* One worker, a window and a channel of one: one waiting topic of the lane fills the window.
SPECIFICATION LiveSpec
CONSTANTS
    None = None
    TheLane = TheLane
    SpacedTopics = {s1}
    SharedTopics = {a, b}
    Topics <- MCTopics
    Lanes = {TheLane}
    LaneOf <- MCLaneOf
    Workers = {w1}
    Slots = 1
    MaxLosses = 1
INVARIANTS HandledOnce
PROPERTIES OthersAreChecked Drains
