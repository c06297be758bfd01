SPECIFICATION Spec
CONSTANTS
  MaxTurns = 2
  MaxText = 2
  Deployments <- MCDeployments
  Reasonings <- MCReasonings
  Generated <- MCGenerated
  Limit = 1
  QueueLimit = 1
  MaxFaults = 1
INVARIANTS
  PublishedIsFinal
  RunOncePerTurn
PROPERTIES
  CursorAfterEnqueue
  AnswerArrives
CHECK_DEADLOCK FALSE
