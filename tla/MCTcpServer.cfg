CONSTANTS
  Conns = {c1, c2, c3}
  Fds = {fd1, fd2}
  Messages = {m1, m2}
  MsgLen = 2
  RemoteCalls = FALSE
  MayStop = FALSE
  MaxPending = 2
  NoConn = NoConn
  NoFd = NoFd
  NoMessage = NoMessage

SPECIFICATION SafeSpec

SYMMETRY Symmetry

INVARIANTS
  TypeOK
  LifeCycle
  ClosedNotPolled
  AssertionsHold

PROPERTIES
  ImplementsService
  ImplementsRegistry
