SPECIFICATION Spec
CONSTANTS
  c1 = c1  c2 = c2  k1 = k1  k2 = k2
  prepare = prepare  submit = submit  resubmit = resubmit  cancel = cancel
  unconfirmed = unconfirmed  x1 = x1  x2 = x2
  NoClient = NoClient  NoKey = NoKey  NoEffect = NoEffect
  Unconfirmed <- unconfirmed
  Clients <- OneTab
  Keys <- TwoKeys
  BrowserEffects <- ProtocolEffects
  KindOf <- ProtocolKinds
  CoordEffects <- NoCoordEffect
  MaxRetries = 0
  MaxEpoch = 1
  Required = TRUE
SYMMETRY Symmetry
INVARIANTS
  GeneratingOwnTurn
  Watched
  CompletedWithEvidence
CHECK_DEADLOCK FALSE
