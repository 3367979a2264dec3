SPECIFICATION ProofSpec
CONSTANTS
    small = small
    large = large
    NoValue = NoValue
    Value <- MCValue
    ValueLen <- MCValueLen
    Keys <- TwoByteKeys
    Backings <- TwoByteBackings
    ProviderMay = {"miss"}
INVARIANTS
    InnerCommits
    InnerShape
    WitnessSpent
    ProbeHelps
PROPERTIES
    KeepsPromise
