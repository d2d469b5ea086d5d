CONSTANTS
    NRelays = 3
    FaultyRelays = {1}
    Address = {a1, a2}
    NoAddress = NoAddress
SPECIFICATION Spec
INVARIANTS
    TypeOK
    KeyReachedMade
    StartReported
    AddressAnnounced
PROPERTY
    ImplementsPanel
