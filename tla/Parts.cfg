SPECIFICATION PartsSpec
CONSTANTS
  Base = 2
  Magic = 1
  Cmds = {0, 2}
  Payloads <- SmallPayloads
  MaxSent = 2
  Kinds = {"gate", "server"}
  MaxTicks = 3
  Users = {u1, u2, u3}
  Multis = {m1, m2}
  TableSize = 2
  ListRoom = 1
  NoUser = NoUser
  MaxRooms = 2
  MaxChan = 2
  MaxLost = 1
  MaxRestarts = 1
  Keys = {k1, k2}
  Addrs = {a1, a2, me}
  Self = me
  NoAddr = NoAddr
  MaxLog = 3
  Loops = {0, 1}
  Conns = {c1, c2}
  Fds = {7}
  Listener = 3
  Balance = "RoundRobin"
  MaxNotes = 1
  Tasks = {t1, t2, t3, t4}
  LoopTasks = {t1}
  Durations = {1, 2}
  Horizon = 2
  Players = {100000}
  Boards <- SmallBoards
  MaxSpins = 2
  Deck = {1, 19, 21, 22, 23, 24, 39}
  MaxHand = 8
  MaxWild = 2
INVARIANTS
  ReadsWhatWasWritten OneSeatEach NoFullTableWaits ReconnectFindsUser
  JudgesFindDecompositions JudgeGivesBack StopsAndFiresTheRightTask EventsInOrder
  ViewsFollowEtcd SpinPaysItsLines EventsGoToOpenConns
CHECK_DEADLOCK FALSE
