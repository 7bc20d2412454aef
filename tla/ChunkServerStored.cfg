CONSTANTS
  Sep = Sep
  Nul = Nul
  Junk = Junk
  Called = Called
  NoConn = NoConn
  p1 = p1
  p2 = p2
  d1 = d1
  d2 = d2
  Part = {p1, p2, Called}
  Data = {d1, d2}
  Conns = {c1, c2}
  Job <- SameNameJobs
  BufSize = 5
  BlockSize = 2
  Backlog = 2
  DiskFaults = FALSE
  SocketFaults = FALSE
  MasterExits = FALSE
SPECIFICATION Spec
INVARIANT StoredAsReceived
CHECK_DEADLOCK FALSE
