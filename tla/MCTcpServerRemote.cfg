CONSTANTS
  Conns = {c1, c2}
  Fds = {fd1}
  Messages = {m1}
  MsgLen = 1
  RemoteCalls = TRUE
  MayStop = TRUE
  MaxPending = 2
  NoConn = NoConn
  NoFd = NoFd
  NoMessage = NoMessage

SPECIFICATION Spec

INVARIANT RegisteredIsOpen

PROPERTIES
  PeerCloseIsTold
  WaitingIsAccepted

CHECK_DEADLOCK FALSE
