CONSTANTS
  Sep = Sep
  Nul = Nul
  Junk = Junk
  Called = Called
  NoConn = NoConn
  p1 = p1
  p2 = p2
  d1 = d1
  d2 = d2
  Part = {p1, p2, Called}
  Data = {d1, d2}
  Conns = {c1, c2}
  Job <- StaleJobs
  BufSize = 5
  BlockSize = 2
  Backlog = 1
  DiskFaults = FALSE
  SocketFaults = FALSE
  MasterExits = FALSE
INVARIANTS FaithfulText RequestNeverKills
SPECIFICATION FairSpec
PROPERTY EveryClientEnds
CHECK_DEADLOCK FALSE
