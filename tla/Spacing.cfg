CONSTANTS
    g1 = g1
    g2 = g2
    g3 = g3
    LaneGoroutines <- MCGoroutines
    Spacing = 3
SPECIFICATION LaneLiveSpec
INVARIANTS TurnsInOrder
PROPERTIES StartsApart SomeoneStarts
