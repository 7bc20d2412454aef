CONSTANTS
  Files <- LogFiles
  AnyOpcode = {0, 24, 99, 255}
  MaxServed = 5
SPECIFICATION FairSpec
INVARIANTS TypeOK ServedAsWritten OneTooMany EndsForCause
PROPERTY Ends
CHECK_DEADLOCK FALSE
