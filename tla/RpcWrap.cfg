SPECIFICATION Spec
CONSTANTS
  SeqMod = 2
  QueueCap = 2
  OtherSeqs = {0}
  MaxCalls = 3
  MaxOthers = 4
INVARIANT OwnResponse
CHECK_DEADLOCK FALSE
