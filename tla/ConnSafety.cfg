SPECIFICATION Spec
CONSTANTS
  Conns = {c1, c2}
  Fds = {f1, f2}
  Svids = {s1}
  Handlers = {h1}
  MaxConn = 1
  MaxEvents = 2
  Listeners = {"tcp", "ws"}
  NoConn = NoConn
  NoFd = NoFd
  NoSvid = NoSvid
SYMMETRY MCSymmetry
INVARIANTS
  TypeOK
  RegisteredIsOpen
  CloseHeardOnce
  DelIsExclusive
  NoSocketLost
  ConnNumAccounts
  IInv
  ServersAreRegistered
  OneConnPerServer
CHECK_DEADLOCK FALSE
