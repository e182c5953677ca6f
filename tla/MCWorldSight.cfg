CONSTANTS
  World = 8
  Margin = 1
  Cell = 2
  SectorSize = 6
  SightRad = 3
  CellCount = 100
  Box = 1
  Start = 3
  Peers = {c1, c2}
  NoPeer = NoPeer
  NpcPlaces <- FarPlaces
  UsersMax = 2
  NpcCount = 1
  Ways = {"LEFT", "RIGHT", "UP", "DOWN"}
  Fighters = {}
  AttacksMax = 1
  Hasty = {}
SYMMETRY Sym
SPECIFICATION Spec
INVARIANTS TypeOK RostersFollow ViewsAreMutual ViewsAreNear ClientsShowViews MovesAreShown
CHECK_DEADLOCK FALSE
