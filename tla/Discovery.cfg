SPECIFICATION FairSpec
CONSTANTS
    NRelays = 2
    FaultyRelays = {1}
    PrefixLevels = 1
    WireMax = 2
INVARIANTS
    TypeOK
    IdFits
    CommandObeyed
    ShownIsTrue
PROPERTIES
    CommandAnswered
    ImplementsRemote
