SPECIFICATION ContentSpec
CONSTANTS
    r1 = r1
    r2 = r2
    hello = hello
    hint = hint
    wake = wake
    NoText = NoText
    Typed = Typed
    User = User
    NoRequest = NoRequest
    Plans <- Offered
    Survives = {TRUE, FALSE}
    MaxLosses = 1
    MaxTyped = 1
    MaxLedgerFaults = 1
    MaxTurns = 2
INVARIANTS NotExecutedIsUnsent SubmittedIsProved OneWriterInComposer NoEffectAbandoned
CHECK_DEADLOCK FALSE
