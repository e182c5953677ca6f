CONSTANTS
  World = 21
  Margin = 1
  Cell = 2
  SectorSize = 6
  SightRad = 3
  CellCount = 100
  Box = 1
  Start = 3
SPECIFICATION WalkSpec
INVARIANTS InTheWorld CornersHaveSectors InnerSeesAll
