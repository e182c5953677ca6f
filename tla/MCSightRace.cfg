SPECIFICATION Spec
CONSTANTS
    World = 8
    Margin = 1
    Cell = 2
    SectorSize = 6
    SightRad = 3
    CellCount = 100
    Box = 1
    Start = 3
    Players = {p1, p2}
    Workers = {w1, w2}
    NoPlayer = NoPlayer
    Ways = {"LEFT", "RIGHT", "DOWN"}
    MovesMax = 2
SYMMETRY Sym
INVARIANTS TypeOK FlagsReturn OneRoster CrashNeedsOverlap
PROPERTY LoneMoveHeals
CHECK_DEADLOCK FALSE
