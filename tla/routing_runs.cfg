SPECIFICATION FairSpec
CONSTANTS
  None = None
  Tasks <- MCSomeTasks
  Preferences <- MCSomePreferences
  Contexts <- MCGoodContext
  Readings <- MCSomeReadings
  Limits <- MCLimits
  MaxProbes = 1
  MaxAsks = 1
  MaxLost = 1
INVARIANTS TypeOK FallbackFollowsChain RoutedStagesCanRun EveryWindowCounts
PROPERTIES StartsAreSafe Settles
