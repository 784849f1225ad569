SPECIFICATION ConsoleSpec
CONSTANTS
  k1 = k1
  k2 = k2
  NoKey = NoKey
  Keys <- MCKeys
  FirstKey = k1
  CustomKey = k2
  MaxFailures = 1
  MaxFetches = 2
INVARIANTS ConsoleTypeOK NoNeedlessSignOut ExclusiveViewsTellTheTruth NoDeadEnd PagerLeadsBack
  OverallMatchesMetrics InboxActsOnWhatIsShown SubmissionsAreNotRepeated StoredIsNeverBlank
  RestingDocumentIsCurrent ConnectIsTested
PROPERTIES PagesCatchUp SpinnersStop
