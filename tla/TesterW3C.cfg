SPECIFICATION FairSpec
CONSTANTS
  Count = 4
  Special <- MCSpecial
  UserWaits = TRUE
  MaxClicks = 6
INVARIANT TypeOK
INVARIANT ResultsAreTheTestsOwn
INVARIANT CompletedMeansAll
PROPERTY OutcomesAreHandedOn
PROPERTY EveryTestGetsItsTurn
CHECK_DEADLOCK FALSE
