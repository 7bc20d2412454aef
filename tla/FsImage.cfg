CONSTANTS
  Images <- MCImages
  Beyond = {0, 7}
  MaxInodes = 3
SPECIFICATION FairSpec
INVARIANTS TypeOK IdentityAsWritten OwnContents EntriesComplete AllPrinted
PROPERTY Ends
CHECK_DEADLOCK FALSE
