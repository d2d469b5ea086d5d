SPECIFICATION Spec
CONSTANTS
    Wrap = 8
    Probe = 3
    Period = 1
INVARIANTS
    TypeOK
    LengthIsGap
    StoppedLoadSeen
    OffShowsNothing
    OffMeansQuiet
PROPERTIES
    EnergyCounted
