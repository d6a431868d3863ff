\* The orders themselves, through broken streams, sign-outs and restarts.
CONSTANTS
  Docs <- MCDocs
  Own <- MCOwn
  Refused <- MCRefused
  Deletable <- MCDeletable
  Malformed <- MCMalformed
  MaxForeign = 0
  MaxLosses = 1
  MaxRestarts = 1
  MaxSignOuts = 1
SPECIFICATION FairSpec
INVARIANTS AnswersAreTrue FiledUnderItsAccount
PROPERTIES ImplementsLedger ConfirmedIsAnswered
CHECK_DEADLOCK FALSE
