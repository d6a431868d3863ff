\* What "Account created successfully" is worth.
CONSTANTS
  Accounts <- MCAccounts
  Registered <- MCRegistered
  Contacts <- MCContacts
  Blank = ""
  NoUser = NoUser
  NoDoc = NoDoc
  MaxRequests = 1
  MaxPages = 3
  MaxRestarts = 0
  MaxSaves = 0
SPECIFICATION Spec
INVARIANT CreatedMeansSaved
CHECK_DEADLOCK FALSE
