SPECIFICATION Spec
CONSTANTS
  main = main
  sub1 = sub1
  sub2 = sub2
  c1 = c1
  c2 = c2
  fd1 = fd1
  fd2 = fd2
  Loops = {main, sub1, sub2}
  NoLoop = NoLoop
  StrayTids = {}
  Tasks <- Functions
  Conns = {c1, c2}
  NoConn = NoConn
  Acceptor = Acceptor
  Fds = {fd1, fd2}
  NoFd = NoFd
  main_reactor = main
  Pools <- UpToTwo
  EVENT_NUM = 2
  MaxMessages = 1
  MaxFailures = 1
CHECK_DEADLOCK FALSE
CONSTRAINT Bounded
SYMMETRY Symmetry
INVARIANTS
  TypeOK
  NoDanglingChannel
  CloseFindsConnection
  DeregisteredBeforeDestroyed
  NothingForgotten
PROPERTY ConnectionsLive
