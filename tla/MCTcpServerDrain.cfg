CONSTANTS
  Conns = {c1}
  Fds = {fd1}
  Messages = {m1}
  MsgLen = 2
  RemoteCalls = FALSE
  MayStop = FALSE
  MaxPending = 2
  NoConn = NoConn
  NoFd = NoFd
  NoMessage = NoMessage

SPECIFICATION DrainSpec

PROPERTY OutputDrains
