SPECIFICATION FairSpec
CONSTANTS
    NRelays = 2
    FaultyRelays = {1}
    FaultyLed = TRUE
    MayLose = FALSE
PROPERTIES
    ImplementsFairPanel
    CallbackEnds
    FlagServed
    ThreadProgress
