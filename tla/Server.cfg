CONSTANTS
  Peers = {c1}
  NoPeer = NoPeer
  Script <- Scripts
  CallId <- MCCallId
  NoCall = NoCall
  CallOf <- MCCallOf
  Limit = 9
  Backlog = 1
  OthersExit = TRUE
  Sep = Sep
  Nul = Nul
  Junk = Junk
  Called = Called
  NoConn = NoConn
  p1 = p1
  d1 = d1
  d2 = d2
  Part = {p1, Called}
  Data = {d1, d2}
  Conns = {k1}
  Job <- Jobs
  BufSize = 4
  BlockSize = 2
  DiskFaults = TRUE
  SocketFaults = TRUE
SPECIFICATION ServerSpec
INVARIANTS TypeOK CallsInOrder
PROPERTIES ExitsForCause ProcessEndsForCause CallsDispatched
CHECK_DEADLOCK FALSE
