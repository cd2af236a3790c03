SPECIFICATION FairSpec
CONSTANTS
  TileCount = 64
  Plays <- OneGame
PROPERTIES HuClaimIsPaid
CHECK_DEADLOCK FALSE
