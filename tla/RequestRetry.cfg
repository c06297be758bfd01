SPECIFICATION Spec
CONSTANTS
  c1 = c1  c2 = c2  k1 = k1  k2 = k2
  prepare = prepare  submit = submit  resubmit = resubmit  cancel = cancel
  unconfirmed = unconfirmed  x1 = x1  x2 = x2
  NoClient = NoClient  NoKey = NoKey  NoEffect = NoEffect
  Unconfirmed <- unconfirmed
  Clients <- TwoTabs
  Keys <- OneKey
  BrowserEffects <- LifeEffects
  KindOf <- LifeKinds
  CoordEffects <- TwoCoordEffects
  MaxRetries = 1
  MaxEpoch = 1
  Required = FALSE
SYMMETRY Symmetry
INVARIANTS
  TypeOK
  TargetReleased
PROPERTIES
  ImplementsContract
CHECK_DEADLOCK FALSE
