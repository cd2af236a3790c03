SPECIFICATION Spec
CONSTANTS
  Conns = {c1, c2, c3}
  Fds = {f1, f2}
  Svids = {}
  Handlers = {h1}
  MaxConn = 1
  MaxEvents = 1
  Listeners = {"tcp", "ws"}
  NoConn = NoConn
  NoFd = NoFd
  NoSvid = NoSvid
SYMMETRY MCSymmetry
INVARIANT WsWithinMaxConn
CHECK_DEADLOCK FALSE
