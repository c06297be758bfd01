SPECIFICATION Spec
CONSTANTS
    Kinds = {"server.command", "content.effect", "content.reload", "local.deadline"}
    MaxPending = 2
    ReservedCritical = 2
    MaxOps = 5
PROPERTIES
    CancelledNeverStarts
    EverySubmissionSettles
CHECK_DEADLOCK FALSE
