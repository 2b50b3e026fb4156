SPECIFICATION FairSpec
CONSTANTS
  main = main
  sub1 = sub1
  sub2 = sub2
  c1 = c1
  c2 = c2
  fd1 = fd1
  fd2 = fd2
  Loops = {main, sub1}
  NoLoop = NoLoop
  StrayTids = {}
  Tasks <- Functions
  Conns = {c1, c2}
  NoConn = NoConn
  Acceptor = Acceptor
  Fds = {fd1}
  NoFd = NoFd
  main_reactor = main
  Pools <- UpToOne
  EVENT_NUM = 4
  MaxMessages = 1
  MaxFailures = 0
CHECK_DEADLOCK FALSE
PROPERTY GoneClientsFreed
