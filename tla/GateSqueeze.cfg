SPECIFICATION Spec
CONSTANTS
  Conns = {c1, c2}
  Uids = {u1, u2}
  QueueCap = 2
  NoConn = NoConn
  NoUid = NoUid
SYMMETRY MCSymmetry
INVARIANT LoggedInIsFound
CHECK_DEADLOCK FALSE
