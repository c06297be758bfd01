SPECIFICATION Spec
CONSTANTS
    Length = 3
    Scripts <- LifeScripts
    Requests <- MCRequests
    Rooms <- TwoRooms
    MaxFaults = 2
INVARIANTS
    SettledOnce
    ReleaseBarrier
PROPERTIES
    ReleaseSettles
CHECK_DEADLOCK FALSE
