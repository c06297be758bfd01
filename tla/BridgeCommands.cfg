SPECIFICATION Spec
CONSTANTS
  t1 = t1  t2 = t2  r1 = r1  r2 = r2  p1 = p1
  Tabs <- TwoTabs
  Requests <- TwoRequests
  Passives <- OnePassive
  Want <- Targets
  Any = Any
  None = None
  MaxCalls = 2
  MaxUp = 1
  MaxFaults = 1
INVARIANTS
  OneRequestPerTab
  BarrierHasRelease
  SubmittedOnce
CHECK_DEADLOCK FALSE
CONSTRAINT Focus
