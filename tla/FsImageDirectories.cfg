CONSTANTS
  Images <- MCImages
  Beyond = {0, 7}
  MaxInodes = 3
SPECIFICATION FairSpec
INVARIANT EntriesEndAtBoundary
CHECK_DEADLOCK FALSE
