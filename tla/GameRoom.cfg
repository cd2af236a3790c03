SPECIFICATION FairSpec
CONSTANTS
  TileCount = 64
  Plays <- AllPlays
INVARIANTS TypeOK RoundIsWellFormed HandsBalance SettledOnce WallLasts
PROPERTIES NoMidGameRedeal GameEnds NextGame
CHECK_DEADLOCK FALSE
