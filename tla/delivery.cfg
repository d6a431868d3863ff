\* News of delivery persons before, while and after the screen is there.
CONSTANTS
  NPersons = 4
  Complete <- MCComplete
  Textual <- MCTextual
  MaxSnapshots = 4
  MaxBlocks = 2
SPECIFICATION FairSpec
INVARIANTS TypeOK CallsWhoIsShown
PROPERTIES PersonIsShown
CHECK_DEADLOCK FALSE
