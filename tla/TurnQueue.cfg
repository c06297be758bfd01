SPECIFICATION TurnSpec
CONSTANTS
    t1 = t1
    t2 = t2
    t3 = t3
    c1 = c1
    c2 = c2
    Turns <- MCTurns
    Browsers <- MCBrowsers
    Global = Global
    NoTurn = NoTurn
    Bindings <- MCBindings
    Reasons = {"cancelled"}
    MaxCalls = 2
INVARIANTS
    LaneExclusion
PROPERTIES
    EveryTurnEnds
CHECK_DEADLOCK FALSE
