SPECIFICATION FairSpec
CONSTANTS
  Conns = {c1, c2}
  Fds = {f1}
  Svids = {s1}
  Handlers = {h1}
  MaxConn = 1
  MaxEvents = 1
  Listeners = {"tcp"}
  NoConn = NoConn
  NoFd = NoFd
  NoSvid = NoSvid
PROPERTY IdleIsClosed
CHECK_DEADLOCK FALSE
