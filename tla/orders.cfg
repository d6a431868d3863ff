\* The history screen, with other clients and sign-outs.
CONSTANTS
  Docs <- MCDocs
  Own <- MCOwn
  Refused <- MCRefused
  Deletable <- MCDeletable
  Malformed <- MCMalformed
  MaxForeign = 1
  MaxLosses = 0
  MaxRestarts = 0
  MaxSignOuts = 1
SPECIFICATION FairSpec
INVARIANTS TypeOK NeverMixed RowsExistWhenIdle
PROPERTIES HistoryConverges HistoryReachesScreen
CHECK_DEADLOCK FALSE
