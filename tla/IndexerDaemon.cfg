\* One client with two requests and a reconnect timer, two daemons, two kills.
SPECIFICATION DaemonSpec
CONSTANTS
  Client = {"c1"}
  NDaemon = 2
  Request = {"r1", "r2"}
  Timer = {"t1"}
  Owner <- MCOwner
  MaxReconnect = 2
  MaxKill = 2
INVARIANT SocketFileTruthful
PROPERTY EveryRequestSettles
CHECK_DEADLOCK FALSE
