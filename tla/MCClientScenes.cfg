CONSTANTS
  Entities = {1, 2}
  Me = 1
  Spots = {1, 2}
  Hidden = 0
  LifeMax = 2
  PacketsMax = 3
  KeysMax = 1
SPECIFICATION FairSpec
INVARIANTS TypeOK HeadIsTaken ScreenAgrees CameraFollows
PROPERTIES SignedUpPlays ScreenCatchesUp
CHECK_DEADLOCK FALSE
