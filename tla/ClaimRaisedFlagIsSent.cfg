SPECIFICATION Spec
CONSTANTS
    NRelays = 2
    FaultyRelays = {}
    FaultyLed = FALSE
    MayLose = FALSE
INVARIANT
    RaisedFlagIsSent
