CONSTANTS
  Sep = Sep
  Nul = Nul
  Junk = Junk
  p1 = p1
  p2 = p2
  h = h
  n1 = n1
  n2 = n2
  Part = {p1, p2, h, n1, n2}
  Digits = {n1, n2}
  Line <- Lines
  Address <- Addresses
  MaxDigits = 2
  MaxBlocks = 2
  MaxCommands = 3
  BufSize = 7
SPECIFICATION Spec
INVARIANT ClosedIsSeen
CHECK_DEADLOCK FALSE
