SPECIFICATION Spec
CONSTANTS
  Paths <- MCPaths
  Updates <- MCUpdates
  Writes <- MCWrites
  Present <- MCPresent
  Configs <- MCConfigs
  MaxRuns = 3
  MaxEdits = 1
  MaxUserCommits = 1
  MaxCrashes = 1
  MaxStops = 1
  MaxDisturbances = 2
INVARIANTS CommitIsReviewed UserCommitsKept EvidenceIsTrue PassiveApplyIsWhole
PROPERTIES EditsUntouched
CHECK_DEADLOCK FALSE
