CONSTANTS
  World = 8
  Margin = 1
  Cell = 2
  SectorSize = 6
  SightRad = 3
  CellCount = 100
  Box = 1
  Start = 5
  Peers = {c1, c2}
  NoPeer = NoPeer
  NpcPlaces <- NearPlace
  UsersMax = 2
  NpcCount = 1
  Ways = {"RIGHT"}
  Fighters = {c1}
  AttacksMax = 1
  Hasty = {c2}
SPECIFICATION Spec
INVARIANTS AttacksFindTargets
PROPERTY DeathHides
CHECK_DEADLOCK FALSE
