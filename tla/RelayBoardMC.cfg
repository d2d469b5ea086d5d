SPECIFICATION HSpec
CONSTANTS
    NRelays = 2
    FaultyRelays = {1}
    FaultyLed = TRUE
    MayLose = TRUE
INVARIANTS
    HTypeOK
    StatusFaithful
    LedShowsRelays
    BrokerKnows
PROPERTY
    ImplementsPanel
