SPECIFICATION HSpec
CONSTANTS
    NCells = 2
    Config = {c1, c2}
    ERASED = ERASED
    GARBAGE = GARBAGE
    EarlyCommands = FALSE
INVARIANT
    FlagMeansConfigured
