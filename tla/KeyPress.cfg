SPECIFICATION Spec
CONSTANTS
    Wrap = 16
    Debounce = 2
    Short = 6
    Long = 10
    Bounce = 2
    MaxHold = 13
INVARIANTS
    TypeOK
    PushDidItsPart
PROPERTY
    ImplementsButton
