SPECIFICATION Spec
CONSTANTS
  Conns = {c1, c2}
  Fds = {f1}
  Svids = {}
  Handlers = {h1}
  MaxConn = 1
  MaxEvents = 1
  Listeners = {"tcp"}
  NoConn = NoConn
  NoFd = NoFd
  NoSvid = NoSvid
SYMMETRY MCSymmetry
INVARIANT RegisteredIsPolled
CHECK_DEADLOCK FALSE
