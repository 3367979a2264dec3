SPECIFICATION RecSpec
CONSTANTS
    large = large
    NoValue = NoValue
    Value <- MCValue
    ValueLen <- MCValueLen
    Keys <- HashedKeys
    Backings <- Blocks
    ProviderMay = {"miss"}
    KeyLen = 4
    RequestsMay = {"fail"}
    MaxCalls = 2
INVARIANTS
    WitnessSuffices
    WitnessMinimal
PROPERTIES
    MissIsRace
CHECK_DEADLOCK FALSE
