CONSTANTS
  Conns = {c1}
  Fds = {fd1}
  Messages = {m1}
  MsgLen = 2
  RemoteCalls = TRUE
  MayStop = FALSE
  MaxPending = 1
  NoConn = NoConn
  NoFd = NoFd
  NoMessage = NoMessage

SPECIFICATION SafeSpec

INVARIANT RemoteCallsSafe

CHECK_DEADLOCK FALSE
