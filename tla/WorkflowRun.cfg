\* One automated run with two prompts, the user's commands and one restart.
CONSTANTS
  MaxCycles = 3
  NoProgressLimit = 1
  SafeLimit = 2
  RestartPolicies <- MCPolicies
  UserCommands <- MCCommands
  MaxRuns = 1
  MaxCommands = 3
  MaxCrashes = 1
SPECIFICATION Spec
INVARIANTS
  WritesOnce
  QuietAtRest
PROPERTIES
  NoDispatchUnderControl
  QueueDrains
CHECK_DEADLOCK FALSE
