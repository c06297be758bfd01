SPECIFICATION Spec
CONSTANTS
    Commands = {c1}
    MaxSockets = 2
    MaxOpening = 2
    MaxFaults = 1
INVARIANTS RemovedIsHandled HandledOnce
PROPERTIES OnlyOwnerHandled EveryAnswerArrives
CHECK_DEADLOCK FALSE
