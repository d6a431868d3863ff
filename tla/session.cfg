\* Logging in and out, signing up and editing the profile.
CONSTANTS
  Accounts <- MCAccounts
  Registered <- MCRegistered
  Contacts <- MCContacts
  Blank = ""
  NoUser = NoUser
  NoDoc = NoDoc
  MaxRequests = 2
  MaxPages = 3
  MaxRestarts = 1
  MaxSaves = 1
SPECIFICATION FairSpec
INVARIANTS TypeOK HomeHasUser IndicatorsTellTheTruth TrapNeedsOverlap DocumentsNameTheirOwner AccountHasProfile
PROPERTY LoginIsAnswered
CHECK_DEADLOCK FALSE
