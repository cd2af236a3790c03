SPECIFICATION FairSpec
CONSTANTS
  SeqMod = 5
  QueueCap = 2
  OtherSeqs = {0}
  MaxCalls = 3
  MaxOthers = 4
INVARIANTS
  TypeOK
  OwnResponse
  CallbackOnce
  DeliverFindsRoom
  RInv
PROPERTIES
  ImplementsContract
  LoopGoesOn
CHECK_DEADLOCK FALSE
